----------------------------- MODULE RootioProof -----------------------------
(***************************************************************************)
(* Proofs about Rootio, for every metadata document and every bound on     *)
(* failures, boots and runs.                                               *)
(***************************************************************************)
EXTENDS Rootio, TLAPS

\* No loop of the command indexes past its list.
IndexOK ==
    /\ pc \in {"vgremove", "pvcreate", "vgcreate", "lvcreate"} => i <= Len(VGs)
    /\ pc = "vg" => i <= Len(VGs) + 1
    /\ pc = "zero" => i <= Len(RAIDs)
    /\ pc = "raid" => i <= Len(RAIDs) + 1
    /\ pc \in {"wipe", "table"} => i <= Len(Disks)
    /\ pc = "inspect" => i <= Len(Disks) + 1
    /\ pc = "lvcreate" => j <= Len(VGs[i].lvs) + 1

Silent == errs \cap Vital = {}

VGPhase == {"vg", "pvcreate", "vgcreate", "lvcreate"}

\* The volume groups made so far can be found by a scan, so that a later
\* entry of the same name is refused.
VGsFound(n) == \A k \in 1..n : /\ VGs[k].pvs # <<>>
                               /\ \A x \in Elems(VGs[k].pvs) : Scanned(x)

\* How far a run that has logged no vital error has come.
DiskProgress ==
    /\ pc = "inspect" => DisksDone(i - 1)
    /\ pc \in {"wipe", "table"} =>
        /\ dev[Disks[i].device] = "block"
        /\ \A k \in 1..(i - 1) : \/ Disks[k].device = Disks[i].device
                                 \/ Disks[k].device \in table \cap nodes
    /\ pc \in {"raid", "done"} \cup VGPhase => DisksDone(Len(Disks))

RAIDProgress ==
    /\ pc = "raid" => RAIDsDone(i - 1)
    /\ pc \in {"done"} \cup VGPhase => RAIDsDone(Len(RAIDs))

VGProgress ==
    /\ pc \in VGPhase => VGsDone(i - 1) /\ VGsFound(i - 1)
    /\ pc \in {"pvcreate", "vgcreate", "lvcreate"} => VGs[i].pvs # <<>>
    /\ pc = "lvcreate" => /\ \A k \in 1..(i - 1) : VGs[k].name # VGs[i].name
                          /\ \A x \in Elems(VGs[i].pvs) : content[x] = VGs[i].name /\ Scanned(x)
                          /\ lvs[VGs[i].name] = j - 1
                          /\ j > 1 => VGs[i].name \in active
    /\ pc = "done" => VGsDone(Len(VGs))

Progress == Silent /\ cmd = "partition" => DiskProgress /\ RAIDProgress /\ VGProgress

Inv == TypeOK /\ IndexOK /\ Progress

-----------------------------------------------------------------------------
(* Shapes of the metadata and of the operators on it.                      *)

\* An element of a sequence over S is in S.
LEMMA ElementType ==
    ASSUME NEW S, NEW s \in Seq(S)
    PROVE  /\ Len(s) \in Nat
           /\ \A k \in 1..Len(s) : s[k] \in S
           /\ Elems(s) \subseteq S
BY DEF Elems

\* A sequence that is not empty has an element.
LEMMA SomeElement ==
    ASSUME NEW S, NEW s \in Seq(S), s # <<>>
    PROVE  \E x : x \in Elems(s)
<1>1. Len(s) \in Nat /\ Len(s) # 0 /\ DOMAIN s = 1..Len(s)
  OBVIOUS
<1>2. 1 \in DOMAIN s
  BY <1>1
<1>3. s[1] \in Elems(s)
  BY <1>2 DEF Elems
<1> QED
  BY <1>3

\* The lists of the metadata yield devices and names of the right kind.
LEMMA MetadataTypes ==
    /\ \A k \in 1..Len(Disks) : Disks[k].device \in Disk
    /\ \A k \in 1..Len(RAIDs) : /\ RAIDs[k].name \in Array
                                /\ AllDevices(RAIDs[k]) \in Seq(Part)
                                /\ Elems(AllDevices(RAIDs[k])) \subseteq Part
    /\ \A k \in 1..Len(VGs) : /\ VGs[k].name \in VG
                              /\ VGs[k].pvs \in Seq(PVDevice)
                              /\ Elems(VGs[k].pvs) \subseteq PVDevice
                              /\ VGs[k].lvs \in Seq(Nat)
    /\ Len(Disks) \in Nat /\ Len(RAIDs) \in Nat /\ Len(VGs) \in Nat
<1>0. /\ Disks \in Seq([device : Disk, wipeTable : BOOLEAN])
      /\ RAIDs \in Seq([name : Array, level : STRING, devices : Seq(Part), spare : Seq(Part)])
      /\ VGs \in Seq([name : VG, pvs : Seq(PVDevice), lvs : Seq(Nat)])
  BY MetadataAssumption, Zenon
<1>1. Len(Disks) \in Nat /\ Len(RAIDs) \in Nat /\ Len(VGs) \in Nat
  BY <1>0, ElementType, Zenon
<1>2. ASSUME NEW k \in 1..Len(Disks)
      PROVE  Disks[k].device \in Disk
  <2>1. Disks[k] \in [device : Disk, wipeTable : BOOLEAN]
    BY <1>0, ElementType, Zenon
  <2> QED
    BY <2>1
<1>3. ASSUME NEW k \in 1..Len(RAIDs)
      PROVE  /\ RAIDs[k].name \in Array
             /\ AllDevices(RAIDs[k]) \in Seq(Part)
             /\ Elems(AllDevices(RAIDs[k])) \subseteq Part
  <2>1. RAIDs[k] \in [name : Array, level : STRING, devices : Seq(Part), spare : Seq(Part)]
    BY <1>0, ElementType, Zenon
  <2>2. RAIDs[k].devices \in Seq(Part) /\ RAIDs[k].spare \in Seq(Part) /\ RAIDs[k].name \in Array
    BY <2>1
  <2>3. AllDevices(RAIDs[k]) \in Seq(Part)
    BY <2>2 DEF AllDevices
  <2> QED
    BY <2>2, <2>3, ElementType
<1>4. ASSUME NEW k \in 1..Len(VGs)
      PROVE  /\ VGs[k].name \in VG
             /\ VGs[k].pvs \in Seq(PVDevice)
             /\ Elems(VGs[k].pvs) \subseteq PVDevice
             /\ VGs[k].lvs \in Seq(Nat)
  <2>1. VGs[k] \in [name : VG, pvs : Seq(PVDevice), lvs : Seq(Nat)]
    BY <1>0, ElementType, Zenon
  <2>2. VGs[k].pvs \in Seq(PVDevice) /\ VGs[k].name \in VG /\ VGs[k].lvs \in Seq(Nat)
    BY <2>1
  <2> QED
    BY <2>2, ElementType
<1> QED
  BY <1>1, <1>2, <1>3, <1>4

\* Labelling devices with a legal content keeps the content map legal.
LEMMA LabelType ==
    ASSUME content \in [PVDevice -> Content], NEW xs, NEW c \in Content
    PROVE  Label(xs, c) \in [PVDevice -> Content]
BY DEF Label

\* Nothing, an unattached PV and a volume group are contents.
LEMMA ContentMembers == None \in Content /\ Orphan \in Content /\ VG \subseteq Content
BY DEF Content

-----------------------------------------------------------------------------
(* Types and indices.                                                      *)

\* Every reachable state of the host and of the command is well typed, and
\* no loop of `rootio partition` or `rootio wipe` indexes past its list.
THEOREM TypeCorrect == Spec => [](TypeOK /\ IndexOK)
<1> USE DEF Goto, Works, Fails, Bookkeeping, Rest, Quiet, Log, AbandonVG
<1>0. Len(Disks) \in Nat /\ Len(RAIDs) \in Nat /\ Len(VGs) \in Nat
  BY MetadataTypes
<1>1. ASSUME Init
      PROVE  TypeOK /\ IndexOK
  <2>1. StackType
    <3>1. PICK missing \in SUBSET MayMiss, prev \in Leftover :
            /\ dev = [d \in Disk |-> IF d \in missing THEN "absent" ELSE "block"]
            /\ table = IF prev = "blank" THEN {} ELSE Disk \ missing
            /\ sb \in [Part -> Array \cup {None}]
            /\ content = [x \in PVDevice |-> IF prev = "fs" /\ x \in Array THEN FS ELSE None]
      BY <1>1 DEF Init
    <3>2. dev \in [Disk -> {"absent", "block", "file"}] /\ table \subseteq Disk
      BY <3>1
    <3>3. content \in [PVDevice -> Content]
      BY <3>1 DEF Content
    <3>4. lvs \in [VG -> Nat]
      BY <1>1 DEF Init
    <3> QED
      BY <1>1, <3>1, <3>2, <3>3, <3>4 DEF Init, StackType
  <2>2. ProcType
    BY <1>1 DEF Init, ProcType, PC, Outside
  <2>3. FlagType
    BY <1>1, Zenon DEF Init, FlagType
  <2>4. IndexOK
    BY <1>1 DEF Init, IndexOK
  <2> QED
    BY <2>1, <2>2, <2>3, <2>4 DEF TypeOK
<1>2. ASSUME TypeOK, IndexOK, [Next]_vars
      PROVE  TypeOK' /\ IndexOK'
  <2>1. CASE DeactivateVolumeGroup
    <3>1. StackType'
      BY <1>0, <1>2, <2>1 DEF DeactivateVolumeGroup, TypeOK, ProcType, StackType, stack
    <3>2. ProcType'
      BY <1>0, <1>2, <2>1 DEF DeactivateVolumeGroup, TypeOK, ProcType, PC, Outside, Stage
    <3>3. FlagType'
      BY <1>2, <2>1, Zenon DEF DeactivateVolumeGroup, TypeOK, FlagType
    <3>4. IndexOK'
      BY <1>0, <1>2, <2>1 DEF DeactivateVolumeGroup, TypeOK, ProcType, IndexOK
    <3> QED
      BY <3>1, <3>2, <3>3, <3>4 DEF TypeOK
  <2>2. CASE RemoveVolumeGroup
    <3>1. VGs[i].name \in VG
      BY <1>0, <1>2, <2>2, MetadataTypes, ElementType DEF RemoveVolumeGroup, TypeOK, ProcType, IndexOK
    <3>2. Label(PVsOf(VGs[i].name), Orphan) \in [PVDevice -> Content]
      BY <1>2, <3>1, LabelType, ContentMembers DEF TypeOK, StackType
    <3>3. StackType'
      BY <1>0, <1>2, <2>2, <3>1, <3>2 DEF RemoveVolumeGroup, TypeOK, ProcType, StackType, stack
    <3>4. ProcType'
      BY <1>0, <1>2, <2>2, <3>1, <3>2 DEF RemoveVolumeGroup, TypeOK, ProcType, PC, Outside, Stage
    <3>5. FlagType'
      BY <1>2, <2>2, Zenon DEF RemoveVolumeGroup, TypeOK, FlagType
    <3>6. IndexOK'
      BY <1>0, <1>2, <2>2, <3>1, <3>2 DEF RemoveVolumeGroup, TypeOK, ProcType, IndexOK
    <3> QED
      BY <3>3, <3>4, <3>5, <3>6 DEF TypeOK
  <2>3. CASE RemovePhysicalVolume
    <3>1. Label({VGs[i].pvs[j]}, None) \in [PVDevice -> Content]
      BY <1>2, LabelType, ContentMembers DEF TypeOK, StackType
    <3>2. StackType'
      BY <1>0, <1>2, <2>3, <3>1 DEF RemovePhysicalVolume, TypeOK, ProcType, StackType, stack
    <3>3. ProcType'
      BY <1>0, <1>2, <2>3, <3>1 DEF RemovePhysicalVolume, TypeOK, ProcType, PC, Outside, Stage
    <3>4. FlagType'
      BY <1>2, <2>3, Zenon DEF RemovePhysicalVolume, TypeOK, FlagType
    <3>5. IndexOK'
      BY <1>0, <1>2, <2>3, <3>1 DEF RemovePhysicalVolume, TypeOK, ProcType, IndexOK
    <3> QED
      BY <3>2, <3>3, <3>4, <3>5 DEF TypeOK
  <2>4. CASE StopRAID
    <3>1. RAIDs[i].name \in Array
      BY <1>0, <1>2, <2>4, MetadataTypes, ElementType DEF StopRAID, TypeOK, ProcType, IndexOK
    <3>2. RAIDs[i].name \notin Part
      BY <3>1, DistinctAssumption
    <3>3. StackType'
      BY <1>0, <1>2, <2>4, <3>1, <3>2 DEF StopRAID, TypeOK, ProcType, StackType, stack, HasNode
    <3>4. ProcType'
      <4>1. errs' \subseteq Stage
        BY <1>2, <2>4 DEF StopRAID, TypeOK, ProcType, Stage
      <4> QED
        BY <1>0, <1>2, <2>4, <3>1, <3>2, <4>1 DEF StopRAID, TypeOK, ProcType, PC, Outside
    <3>5. FlagType'
      BY <1>2, <2>4, Zenon DEF StopRAID, TypeOK, FlagType
    <3>6. IndexOK'
      BY <1>0, <1>2, <2>4, <3>1, <3>2 DEF StopRAID, TypeOK, ProcType, IndexOK
    <3> QED
      BY <3>3, <3>4, <3>5, <3>6 DEF TypeOK
  <2>5. CASE ZeroSuperblock
    <3>1. StackType'
      BY <1>0, <1>2, <2>5 DEF ZeroSuperblock, TypeOK, ProcType, StackType, stack
    <3>2. ProcType'
      BY <1>0, <1>2, <2>5 DEF ZeroSuperblock, TypeOK, ProcType, PC, Outside, Stage
    <3>3. FlagType'
      BY <1>2, <2>5, Zenon DEF ZeroSuperblock, TypeOK, FlagType
    <3>4. IndexOK'
      BY <1>0, <1>2, <2>5 DEF ZeroSuperblock, TypeOK, ProcType, IndexOK
    <3> QED
      BY <3>1, <3>2, <3>3, <3>4 DEF TypeOK
  <2>6. CASE InspectDisk
    <3>1. StackType'
      BY <1>0, <1>2, <2>6 DEF InspectDisk, TypeOK, ProcType, StackType, stack
    <3>2. ProcType'
      <4>1. errs' \subseteq Stage
        BY <1>2, <2>6 DEF InspectDisk, TypeOK, ProcType, Stage
      <4>2. Disks[i].device \in Disk
        BY <1>0, <1>2, <2>6, MetadataTypes, ElementType DEF InspectDisk, TypeOK, ProcType
      <4>3. held' \subseteq Disk
        BY <1>2, <2>6, <4>2 DEF InspectDisk, TypeOK, ProcType
      <4> QED
        BY <1>0, <1>2, <2>6, <4>1, <4>3 DEF InspectDisk, TypeOK, ProcType, PC, Outside
    <3>3. FlagType'
      BY <1>2, <2>6, Zenon DEF InspectDisk, TypeOK, FlagType
    <3>4. IndexOK'
      BY <1>0, <1>2, <2>6 DEF InspectDisk, TypeOK, ProcType, IndexOK
    <3> QED
      BY <3>1, <3>2, <3>3, <3>4 DEF TypeOK
  <2>7. CASE Wipe
    <3>1. Disks[i].device \in Disk
      BY <1>0, <1>2, <2>7, MetadataTypes, ElementType DEF Wipe, TypeOK, ProcType, IndexOK
    <3>2. Label(Zeroed(Disks[i].device), None) \in [PVDevice -> Content]
      BY <1>2, <3>1, LabelType, ContentMembers DEF TypeOK, StackType
    <3>3. StackType'
      BY <1>0, <1>2, <2>7, <3>1, <3>2 DEF Wipe, TypeOK, ProcType, StackType, stack, ZeroHead
    <3>4. ProcType'
      <4>1. errs' \subseteq Stage
        BY <1>2, <2>7 DEF Wipe, TypeOK, ProcType, Stage
      <4> QED
        BY <1>0, <1>2, <2>7, <3>1, <3>2, <4>1 DEF Wipe, TypeOK, ProcType, PC, Outside
    <3>5. FlagType'
      BY <1>2, <2>7, Zenon DEF Wipe, TypeOK, FlagType
    <3>6. IndexOK'
      BY <1>0, <1>2, <2>7, <3>1, <3>2 DEF Wipe, TypeOK, ProcType, IndexOK
    <3> QED
      BY <3>3, <3>4, <3>5, <3>6 DEF TypeOK
  <2>8. CASE PartitionDisk
    <3>1. Disks[i].device \in Disk
      BY <1>0, <1>2, <2>8, MetadataTypes, ElementType DEF PartitionDisk, TypeOK, ProcType, IndexOK
    <3>2. StackType'
      BY <1>0, <1>2, <2>8, <3>1 DEF PartitionDisk, TypeOK, ProcType, StackType, stack
    <3>3. ProcType'
      <4>1. errs' \subseteq Stage
        BY <1>2, <2>8 DEF PartitionDisk, TypeOK, ProcType, Stage
      <4>2. held' \subseteq Disk
        BY <1>2, <2>8, <3>1 DEF PartitionDisk, TypeOK, ProcType
      <4> QED
        BY <1>0, <1>2, <2>8, <3>1, <4>1, <4>2 DEF PartitionDisk, TypeOK, ProcType, PC, Outside
    <3>4. FlagType'
      BY <1>2, <2>8, Zenon DEF PartitionDisk, TypeOK, FlagType
    <3>5. IndexOK'
      BY <1>0, <1>2, <2>8, <3>1 DEF PartitionDisk, TypeOK, ProcType, IndexOK
    <3> QED
      BY <3>2, <3>3, <3>4, <3>5 DEF TypeOK
  <2>9. CASE CreateRAID
    <3>1. RAIDs[i].name \in Array
      BY <1>0, <1>2, <2>9, MetadataTypes, ElementType DEF CreateRAID, TypeOK, ProcType, IndexOK
    <3>2. StackType'
      BY <1>0, <1>2, <2>9, <3>1 DEF CreateRAID, TypeOK, ProcType, StackType, stack, CreateArray
    <3>3. ProcType'
      <4>1. errs' \subseteq Stage
        BY <1>2, <2>9 DEF CreateRAID, TypeOK, ProcType, Stage
      <4> QED
        BY <1>0, <1>2, <2>9, <3>1, <4>1 DEF CreateRAID, TypeOK, ProcType, PC, Outside
    <3>4. FlagType'
      BY <1>2, <2>9, Zenon DEF CreateRAID, TypeOK, FlagType
    <3>5. IndexOK'
      BY <1>0, <1>2, <2>9, <3>1 DEF CreateRAID, TypeOK, ProcType, IndexOK
    <3> QED
      BY <3>2, <3>3, <3>4, <3>5 DEF TypeOK
  <2>10. CASE CreateVolumeGroup
    <3>1. StackType'
      BY <1>0, <1>2, <2>10 DEF CreateVolumeGroup, TypeOK, ProcType, StackType, stack
    <3>2. ProcType'
      <4>1. errs' \subseteq Stage
        BY <1>2, <2>10 DEF CreateVolumeGroup, TypeOK, ProcType, Stage
      <4> QED
        BY <1>0, <1>2, <2>10, <4>1 DEF CreateVolumeGroup, TypeOK, ProcType, PC, Outside
    <3>3. FlagType'
      BY <1>2, <2>10, Zenon DEF CreateVolumeGroup, TypeOK, FlagType
    <3>4. IndexOK'
      BY <1>0, <1>2, <2>10 DEF CreateVolumeGroup, TypeOK, ProcType, IndexOK
    <3> QED
      BY <3>1, <3>2, <3>3, <3>4 DEF TypeOK
  <2>11. CASE CreatePhysicalVolume
    <3>1. Label({VGs[i].pvs[j]}, Orphan) \in [PVDevice -> Content]
      BY <1>2, LabelType, ContentMembers DEF TypeOK, StackType
    <3>2. StackType'
      BY <1>0, <1>2, <2>11, <3>1 DEF CreatePhysicalVolume, TypeOK, ProcType, StackType, stack
    <3>3. ProcType'
      <4>1. errs' \subseteq Stage
        BY <1>2, <2>11 DEF CreatePhysicalVolume, TypeOK, ProcType, Stage
      <4> QED
        BY <1>0, <1>2, <2>11, <3>1, <4>1 DEF CreatePhysicalVolume, TypeOK, ProcType, PC, Outside
    <3>4. FlagType'
      BY <1>2, <2>11, Zenon DEF CreatePhysicalVolume, TypeOK, FlagType
    <3>5. IndexOK'
      BY <1>0, <1>2, <2>11, <3>1 DEF CreatePhysicalVolume, TypeOK, ProcType, IndexOK
    <3> QED
      BY <3>2, <3>3, <3>4, <3>5 DEF TypeOK
  <2>12. CASE VgCreate
    <3>1. VGs[i].name \in VG
      BY <1>0, <1>2, <2>12, MetadataTypes, ElementType DEF VgCreate, TypeOK, ProcType, IndexOK
    <3>2. Label(Elems(VGs[i].pvs), VGs[i].name) \in [PVDevice -> Content]
      BY <1>2, <3>1, LabelType, ContentMembers DEF TypeOK, StackType
    <3>3. Len(VGs[i].lvs) \in Nat
      BY <1>0, <1>2, <2>12, MetadataTypes, ElementType DEF VgCreate, TypeOK, ProcType, IndexOK
    <3>4. StackType'
      BY <1>0, <1>2, <2>12, <3>1, <3>2, <3>3 DEF VgCreate, TypeOK, ProcType, StackType, stack
    <3>5. ProcType'
      <4>1. errs' \subseteq Stage
        BY <1>2, <2>12 DEF VgCreate, TypeOK, ProcType, Stage
      <4> QED
        BY <1>0, <1>2, <2>12, <3>1, <3>2, <3>3, <4>1 DEF VgCreate, TypeOK, ProcType, PC, Outside
    <3>6. FlagType'
      BY <1>2, <2>12, Zenon DEF VgCreate, TypeOK, FlagType
    <3>7. IndexOK'
      BY <1>0, <1>2, <2>12, <3>1, <3>2, <3>3 DEF VgCreate, TypeOK, ProcType, IndexOK
    <3> QED
      BY <3>4, <3>5, <3>6, <3>7 DEF TypeOK
  <2>13. CASE CreateLogicalVolume
    <3>1. VGs[i].name \in VG
      BY <1>0, <1>2, <2>13, MetadataTypes, ElementType DEF CreateLogicalVolume, TypeOK, ProcType, IndexOK
    <3>2. StackType'
      BY <1>0, <1>2, <2>13, <3>1 DEF CreateLogicalVolume, TypeOK, ProcType, StackType, stack
    <3>3. ProcType'
      <4>1. errs' \subseteq Stage
        BY <1>2, <2>13 DEF CreateLogicalVolume, TypeOK, ProcType, Stage
      <4> QED
        BY <1>0, <1>2, <2>13, <3>1, <4>1 DEF CreateLogicalVolume, TypeOK, ProcType, PC, Outside
    <3>4. FlagType'
      BY <1>2, <2>13, Zenon DEF CreateLogicalVolume, TypeOK, FlagType
    <3>5. IndexOK'
      BY <1>0, <1>2, <2>13, <3>1 DEF CreateLogicalVolume, TypeOK, ProcType, IndexOK
    <3> QED
      BY <3>2, <3>3, <3>4, <3>5 DEF TypeOK
  <2>14. CASE LoopEnd
    <3>1. StackType'
      BY <1>0, <1>2, <2>14 DEF LoopEnd, TypeOK, ProcType, StackType, stack
    <3>2. ProcType'
      BY <1>0, <1>2, <2>14 DEF LoopEnd, TypeOK, ProcType, PC, Outside, Stage
    <3>3. FlagType'
      BY <1>2, <2>14, Zenon DEF LoopEnd, TypeOK, FlagType
    <3>4. IndexOK'
      BY <1>0, <1>2, <2>14 DEF LoopEnd, TypeOK, ProcType, IndexOK
    <3> QED
      BY <3>1, <3>2, <3>3, <3>4 DEF TypeOK
  <2>15. CASE Finish
    <3>1. StackType'
      BY <1>0, <1>2, <2>15 DEF Finish, TypeOK, ProcType, StackType, stack
    <3>2. ProcType'
      BY <1>0, <1>2, <2>15 DEF Finish, TypeOK, ProcType, PC, Outside, Stage
    <3>3. FlagType'
      BY <1>2, <2>15, Zenon DEF Finish, TypeOK, FlagType
    <3>4. IndexOK'
      BY <1>0, <1>2, <2>15 DEF Finish, TypeOK, ProcType, IndexOK
    <3> QED
      BY <3>1, <3>2, <3>3, <3>4 DEF TypeOK
  <2>16. CASE Start
    <3>1. StackType'
      BY <1>0, <1>2, <2>16 DEF Start, Begin, TypeOK, ProcType, StackType, stack
    <3>2. ProcType'
      BY <1>0, <1>2, <2>16, RootioAssumption DEF Start, Begin, TypeOK, ProcType, PC, Outside, Stage
    <3>3. FlagType'
      BY <1>2, <2>16, Zenon DEF Start, Begin, TypeOK, FlagType
    <3>4. IndexOK'
      BY <1>0, <1>2, <2>16 DEF Start, Begin, TypeOK, ProcType, IndexOK
    <3> QED
      BY <3>1, <3>2, <3>3, <3>4 DEF TypeOK
  <2>17. CASE Kill
    <3>1. StackType'
      BY <1>0, <1>2, <2>17 DEF Kill, TypeOK, ProcType, StackType, stack
    <3>2. ProcType'
      BY <1>0, <1>2, <2>17 DEF Kill, TypeOK, ProcType, PC, Outside, Stage
    <3>3. FlagType'
      BY <1>2, <2>17, Zenon DEF Kill, TypeOK, FlagType
    <3>4. IndexOK'
      BY <1>0, <1>2, <2>17 DEF Kill, TypeOK, ProcType, IndexOK
    <3> QED
      BY <3>1, <3>2, <3>3, <3>4 DEF TypeOK
  <2>18. CASE Reboot
    <3>1. StackType'
      <4>1. PICK a \in Assemble, r \in Rename : Boot(a, r)
        BY <2>18 DEF Reboot
      <4>2. Assemblable \subseteq Array
        BY DEF Assemblable
      <4>3. running' \subseteq Array /\ foreign' \subseteq running'
        BY <4>1, <4>2 DEF Boot
      <4>4. active' \subseteq VG /\ mounted' \subseteq Array
        BY <4>1, <4>3 DEF Boot
      <4>5. dev' \in [Disk -> {"absent", "block", "file"}]
        BY <1>2, <4>1 DEF Boot, TypeOK, StackType
      <4> QED
        BY <1>2, <4>1, <4>3, <4>4, <4>5 DEF Boot, TypeOK, StackType
    <3>2. ProcType'
      BY <1>0, <1>2, <2>18 DEF Reboot, TypeOK, ProcType, PC, Outside, Stage
    <3>3. FlagType'
      BY <1>2, <2>18, Zenon DEF Reboot, TypeOK, FlagType
    <3>4. IndexOK'
      BY <1>0, <1>2, <2>18 DEF Reboot, TypeOK, ProcType, IndexOK
    <3> QED
      BY <3>1, <3>2, <3>3, <3>4 DEF TypeOK
  <2>19. CASE UNCHANGED vars
    BY <1>2, <2>19 DEF vars, stack, proc, TypeOK, StackType, ProcType, FlagType, IndexOK
  <2>20. CASE Finalize
    <3>1. held' \subseteq Disk
      BY <1>2, <2>20 DEF Finalize, TypeOK, ProcType
    <3> QED
      BY <1>2, <2>20, <3>1 DEF Finalize, stack, TypeOK, StackType, ProcType, FlagType, IndexOK
  <2> QED
    BY <1>2, <2>1, <2>2, <2>3, <2>4, <2>5, <2>6, <2>7, <2>8, <2>9, <2>10, <2>11, <2>12, <2>13, <2>14, <2>15, <2>16, <2>17, <2>18, <2>19, <2>20 DEF Next, Step
<1> QED
  BY <1>1, <1>2, PTL DEF Spec

-----------------------------------------------------------------------------
(* What silence means.                                                     *)

\* Every call of the command keeps what it has logged, so a silent successor
\* state has a silent predecessor, whose progress is known.
LEMMA SilenceBefore ==
    ASSUME Progress, Step, Silent', cmd' = "partition"
    PROVE  Silent /\ cmd = "partition" /\ DiskProgress /\ RAIDProgress /\ VGProgress
<1>1. errs \subseteq errs' /\ cmd' = cmd
  BY DEF Step, DeactivateVolumeGroup, RemoveVolumeGroup, RemovePhysicalVolume, StopRAID,
         ZeroSuperblock, InspectDisk, Wipe, PartitionDisk, CreateRAID, CreateVolumeGroup,
         CreatePhysicalVolume, VgCreate, CreateLogicalVolume, LoopEnd, Finish,
         Quiet, Log, Bookkeeping, Rest, AbandonVG
<1> QED
  BY <1>1 DEF Silent, Progress

\* The disk loop: a silent pass has verified the disk and written its table.
LEMMA DiskSteps ==
    ASSUME TypeOK, IndexOK, DiskProgress, Silent', cmd' = "partition",
           InspectDisk \/ Wipe \/ PartitionDisk
    PROVE  (DiskProgress /\ RAIDProgress /\ VGProgress)'
<1> DEFINE d == Disks[i].device
<1> USE DEF Goto, Works, Fails, Bookkeeping, Rest, Quiet, Log
<1>0. i \in Nat \ {0} /\ Len(Disks) \in Nat
  BY MetadataTypes DEF TypeOK, ProcType
<1>1. CASE InspectDisk
  <2>1. pc' \in {"wipe", "table"} /\ i' = i /\ pc = "inspect"
    BY <1>1 DEF InspectDisk
  <2>2. dev' = dev /\ table' = table /\ nodes' = nodes
    BY <1>1 DEF InspectDisk, stack
  <2>3. dev[d] = "block"
    BY <1>1 DEF InspectDisk, Silent, Vital
  <2> QED
    BY <1>0, <2>1, <2>2, <2>3 DEF DiskProgress, RAIDProgress, VGProgress, VGPhase, DisksDone
<1>2. CASE Wipe
  <2>1. pc' = "table" /\ i' = i /\ pc = "wipe" /\ cmd = "partition"
    BY <1>2 DEF Wipe
  <2>2. dev' = dev /\ nodes' = nodes /\ table \ {d} \subseteq table'
    BY <1>2, <2>1 DEF Wipe, ZeroHead, DiskProgress
  <2> QED
    BY <1>0, <2>1, <2>2 DEF DiskProgress, RAIDProgress, VGProgress, VGPhase
<1>3. CASE PartitionDisk
  <2>1. pc' = "inspect" /\ i' = i + 1 /\ pc = "table"
    BY <1>3 DEF PartitionDisk
  <2>2. dev[d] = "block"
    BY <2>1 DEF DiskProgress
  <2>3. table' = table \cup {d} /\ nodes' = nodes \cup {d}
    BY <1>3, <2>2 DEF PartitionDisk, Opens, Silent, Vital
  <2>4. DisksDone(i - 1)'
    BY <1>0, <2>1, <2>3 DEF DiskProgress, DisksDone
  <2> QED
    BY <1>0, <2>1, <2>4 DEF DiskProgress, RAIDProgress, VGProgress, VGPhase, DisksDone
<1> QED
  BY <1>1, <1>2, <1>3

\* The array loop: a new array takes no member of an array made before it.
LEMMA RAIDSteps ==
    ASSUME TypeOK, IndexOK, DiskProgress, RAIDProgress, Silent', CreateRAID
    PROVE  (DiskProgress /\ RAIDProgress /\ VGProgress)'
<1> DEFINE r == RAIDs[i]
           ds == Elems(AllDevices(r))
<1> USE DEF Goto, Works, Fails, Bookkeeping, Rest, Quiet, Log
<1>0. i \in Nat \ {0} /\ Len(RAIDs) \in Nat /\ i <= Len(RAIDs)
  BY MetadataTypes DEF TypeOK, ProcType, CreateRAID
<1>1. pc' = "raid" /\ i' = i + 1 /\ pc = "raid" /\ table' = table /\ nodes' = nodes
  BY DEF CreateRAID
<1>2. CanCreateArray(r.name, ds) /\ CreateArray(r.name, ds)
  BY DEF CreateRAID, Silent, Vital
<1>3. ds \subseteq Part
  BY <1>0, MetadataTypes
<1>4. ASSUME NEW k \in 1..(i - 1), NEW p \in Elems(AllDevices(RAIDs[k]))
      PROVE  sb'[p] = RAIDs[k].name
  <2>1. sb[p] = RAIDs[k].name /\ RAIDs[k].name \in running
    BY <1>1 DEF RAIDProgress, RAIDsDone
  <2>2. k \in 1..Len(RAIDs) /\ k \in DOMAIN RAIDs
    BY <1>0, MetadataAssumption
  <2>3. p \in Members(RAIDs[k].name)
    BY <2>2 DEF Members
  <2>4. p \notin ds
    BY <1>2, <2>1, <2>3 DEF CanCreateArray, Claimed
  <2>5. p \in Part
    BY <2>2, MetadataTypes
  <2> QED
    BY <1>2, <2>1, <2>4, <2>5 DEF CreateArray
<1>5. \A p \in ds : sb'[p] = r.name
  BY <1>2, <1>3 DEF CreateArray
<1>6. \A k \in 1..i : RAIDs[k].name \in running'
  <2>1. \A k \in 1..(i - 1) : RAIDs[k].name \in running
    BY <1>1 DEF RAIDProgress, RAIDsDone
  <2> QED
    BY <1>0, <1>2, <2>1 DEF CreateArray
<1>7. RAIDsDone(i - 1)'
  BY <1>0, <1>1, <1>4, <1>5, <1>6 DEF RAIDsDone
<1> QED
  BY <1>0, <1>1, <1>7 DEF DiskProgress, RAIDProgress, VGProgress, VGPhase, DisksDone, RAIDsDone

\* The volume-group loop: a new PV or volume group takes no device of a
\* volume group made before it, and its name is new.
LEMMA VGSteps ==
    ASSUME TypeOK, IndexOK, DiskProgress, RAIDProgress, VGProgress, Silent',
           CreateVolumeGroup \/ CreatePhysicalVolume \/ VgCreate \/ CreateLogicalVolume
    PROVE  (DiskProgress /\ RAIDProgress /\ VGProgress)'
<1> DEFINE v == VGs[i].name
           xs == Elems(VGs[i].pvs)
<1> USE DEF Goto, Works, Fails, Bookkeeping, Rest, Quiet, Log, AbandonVG
<1>0. i \in Nat \ {0} /\ j \in Nat \ {0} /\ Len(VGs) \in Nat /\ i <= Len(VGs)
  BY MetadataTypes DEF TypeOK, ProcType, IndexOK, CreateVolumeGroup, CreatePhysicalVolume,
                       VgCreate, CreateLogicalVolume
<1>1. pc \in VGPhase /\ pc' \in VGPhase /\ i' = i
  BY DEF VGPhase, CreateVolumeGroup, CreatePhysicalVolume, VgCreate, CreateLogicalVolume,
         Silent, Vital
<1>2. table' = table /\ nodes' = nodes /\ sb' = sb /\ running' = running
  BY DEF CreateVolumeGroup, CreatePhysicalVolume, VgCreate, CreateLogicalVolume, stack
<1>3. DiskProgress' /\ RAIDProgress'
  BY <1>1, <1>2 DEF DiskProgress, RAIDProgress, DisksDone, RAIDsDone, VGPhase
<1>4. VGsFound(i - 1)'
  BY <1>1, <1>2 DEF VGProgress, VGsFound, Scanned
<1>5. /\ v \in VG /\ v \notin {None, Orphan}
      /\ \A k \in 1..(i - 1) : /\ VGs[k].name \in VG /\ VGs[k].name \notin {None, Orphan}
                               /\ Elems(VGs[k].pvs) \subseteq PVDevice
                               /\ VGs[k].pvs # <<>>
                               /\ \A x \in Elems(VGs[k].pvs) : content[x] = VGs[k].name /\ Scanned(x)
                               /\ lvs[VGs[k].name] = Len(VGs[k].lvs)
                               /\ VGs[k].lvs # <<>> => VGs[k].name \in active
  BY <1>0, <1>1, MetadataTypes, DistinctAssumption DEF VGProgress, VGsDone, VGsFound
<1>6. CASE CreateVolumeGroup
  <2>1. pc' = "pvcreate" /\ VGs[i].pvs # <<>>
    BY <1>6 DEF CreateVolumeGroup, ValidateVolumeGroup, Silent, Vital
  <2>2. content' = content /\ lvs' = lvs /\ active' = active
    BY <1>6 DEF CreateVolumeGroup, stack
  <2> QED
    BY <1>1, <1>3, <1>4, <2>1, <2>2 DEF VGProgress, VGsDone, VGPhase
<1>7. CASE CreatePhysicalVolume
  <2> DEFINE x == VGs[i].pvs[j]
  <2>1. pc = "pvcreate" /\ pc' = "pvcreate" /\ lvs' = lvs /\ active' = active
    BY <1>7 DEF CreatePhysicalVolume, Silent, Vital
  <2>2. content[x] \in {None, Orphan} /\ content' = Label({x}, Orphan)
    BY <1>7 DEF CreatePhysicalVolume, CanCreatePV, Silent, Vital
  <2>3. \A k \in 1..(i - 1) : \A y \in Elems(VGs[k].pvs) : content'[y] = VGs[k].name
    BY <1>5, <2>2 DEF Label
  <2> QED
    BY <1>1, <1>3, <1>4, <1>5, <2>1, <2>3 DEF VGProgress, VGsDone, VGPhase
<1>8. CASE VgCreate
  <2>1. /\ pc = "vgcreate" /\ pc' = "lvcreate" /\ j' = 1 /\ active' = active
        /\ CanCreateVG(v, xs)
        /\ content' = Label(xs, v) /\ lvs' = [lvs EXCEPT ![v] = 0]
    BY <1>8 DEF VgCreate, Silent, Vital
  <2>2. \A k \in 1..(i - 1) : \A y \in Elems(VGs[k].pvs) : content'[y] = VGs[k].name
    BY <1>5, <2>1 DEF Label, CanCreateVG
  <2>3. ASSUME NEW k \in 1..(i - 1)
        PROVE  VGs[k].name # v
    <3>1. PICK y : y \in Elems(VGs[k].pvs)
      <4>1. k \in 1..Len(VGs)
        BY <1>0
      <4>2. VGs[k].pvs \in Seq(PVDevice)
        BY <4>1, MetadataTypes
      <4>3. VGs[k].pvs # <<>>
        BY <1>5
      <4> QED
        BY <4>2, <4>3, SomeElement
    <3>2. y \in PVDevice /\ content[y] = VGs[k].name /\ Scanned(y)
      BY <1>5, <3>1
    <3> QED
      BY <2>1, <3>2 DEF CanCreateVG
  <2>4. \A k \in 1..(i - 1) : lvs'[VGs[k].name] = lvs[VGs[k].name]
    BY <1>5, <2>1, <2>3 DEF TypeOK, StackType
  <2>5. VGsDone(i - 1)'
    BY <1>1, <1>5, <2>1, <2>2, <2>4 DEF VGsDone
  <2>6. lvs'[v] = 0
    BY <1>5, <2>1 DEF TypeOK, StackType
  <2>7. \A y \in xs : content'[y] = v /\ Scanned(y)'
    <3>1. xs \subseteq PVDevice
      BY <1>0, MetadataTypes
    <3>2. \A y \in xs : HasNode(y)
      BY <2>1 DEF CanCreateVG
    <3>3. \A y \in xs : Scanned(y)
      BY <3>2 DEF HasNode, Scanned
    <3>4. \A y \in xs : content'[y] = v
      BY <2>1, <3>1 DEF Label
    <3> QED
      BY <1>2, <3>3, <3>4 DEF Scanned
  <2> QED
    BY <1>1, <1>3, <1>4, <2>1, <2>3, <2>5, <2>6, <2>7 DEF VGProgress, VGPhase
<1>9. CASE CreateLogicalVolume
  <2>1. /\ pc = "lvcreate" /\ pc' = "lvcreate" /\ j' = j + 1 /\ content' = content
        /\ active' = active \cup {v} /\ lvs' = [lvs EXCEPT ![v] = j]
    BY <1>9 DEF CreateLogicalVolume, Silent, Vital
  <2>2. /\ \A k \in 1..(i - 1) : VGs[k].name # v
        /\ \A y \in xs : content[y] = v /\ Scanned(y)
    BY <2>1 DEF VGProgress
  <2>3. \A k \in 1..(i - 1) : lvs'[VGs[k].name] = lvs[VGs[k].name]
    BY <1>5, <2>1, <2>2 DEF TypeOK, StackType
  <2>4. VGsDone(i - 1)'
    BY <1>1, <1>5, <2>1, <2>3 DEF VGsDone
  <2>5. lvs'[v] = j
    BY <1>5, <2>1 DEF TypeOK, StackType
  <2>6. \A y \in xs : content'[y] = v /\ Scanned(y)'
    BY <1>2, <2>1, <2>2 DEF Scanned
  <2>7. VGs[i].pvs # <<>>
    BY <2>1 DEF VGProgress
  <2> QED
    BY <1>0, <1>1, <1>3, <1>4, <2>1, <2>2, <2>4, <2>5, <2>6, <2>7 DEF VGProgress, VGPhase
<1> QED
  BY <1>6, <1>7, <1>8, <1>9

\* Leaving a loop, and returning: the counter has passed the whole list.
LEMMA ControlSteps ==
    ASSUME TypeOK, IndexOK, DiskProgress, RAIDProgress, VGProgress,
           cmd = "partition", LoopEnd \/ Finish
    PROVE  (DiskProgress /\ RAIDProgress /\ VGProgress)'
<1> USE DEF Goto
<1>0. /\ i \in Nat \ {0} /\ j \in Nat \ {0}
      /\ Len(Disks) \in Nat /\ Len(RAIDs) \in Nat /\ Len(VGs) \in Nat
  BY MetadataTypes DEF TypeOK, ProcType
<1>1. stack' = stack
  BY DEF LoopEnd, Finish
<1>2. /\ dev' = dev /\ table' = table /\ nodes' = nodes /\ sb' = sb /\ running' = running
      /\ content' = content /\ lvs' = lvs /\ active' = active
  BY <1>1 DEF stack
<1>3. DiskProgress'
  BY <1>0, <1>2 DEF LoopEnd, Finish, DiskProgress, DisksDone, VGPhase, IndexOK
<1>4. RAIDProgress'
  BY <1>0, <1>2 DEF LoopEnd, Finish, RAIDProgress, RAIDsDone, VGPhase, IndexOK
<1>5. CASE pc = "lvcreate"
  <2>1. /\ pc' = "vg" /\ i' = i + 1 /\ j - 1 = Len(VGs[i].lvs) /\ i <= Len(VGs)
    <3>1. i \in 1..Len(VGs) /\ pc' = "vg" /\ i' = i + 1
      BY <1>0, <1>5 DEF LoopEnd, Finish, IndexOK
    <3>2. Len(VGs[i].lvs) \in Nat
      BY <3>1, MetadataTypes, ElementType
    <3> QED
      BY <1>0, <1>5, <3>1, <3>2 DEF LoopEnd, Finish, IndexOK
  <2>2. VGs[i].lvs # <<>> => VGs[i].name \in active
    <3>1. VGs[i].lvs \in Seq(Nat)
      BY <1>0, <2>1, MetadataTypes
    <3> QED
      BY <1>0, <1>5, <2>1, <3>1 DEF VGProgress
  <2>3. VGsDone(i - 1)'
    <3>1. VGsDone(i - 1) /\ lvs[VGs[i].name] = j - 1
          /\ \A x \in Elems(VGs[i].pvs) : content[x] = VGs[i].name
      BY <1>5 DEF VGProgress, VGPhase
    <3>2. \A k \in 1..i : k \in 1..(i - 1) \/ k = i
      BY <1>0
    <3>3. i' - 1 = i
      BY <1>0, <2>1
    <3> QED
      BY <1>2, <2>1, <2>2, <3>1, <3>2, <3>3 DEF VGsDone
  <2>4. VGsFound(i - 1)'
    BY <1>0, <1>2, <1>5, <2>1 DEF VGProgress, VGsFound, VGPhase, Scanned
  <2> QED
    BY <1>3, <1>4, <2>1, <2>3, <2>4 DEF VGProgress, VGPhase
<1>6. CASE pc # "lvcreate"
  <2>1. VGProgress'
    BY <1>0, <1>2, <1>6 DEF LoopEnd, Finish, VGProgress, VGsDone, VGsFound, Scanned, VGPhase, IndexOK
  <2> QED
    BY <1>3, <1>4, <2>1
<1> QED
  BY <1>5, <1>6

\* A run that has logged nothing vital is as far as its program counter says.
THEOREM Invariance == Spec => []Inv
<1>1. Init => Progress
  BY DEF Init, Progress, DiskProgress, RAIDProgress, VGProgress, VGPhase
<1>2. ASSUME TypeOK, IndexOK, Progress, [Next]_vars
      PROVE  Progress'
  <2> SUFFICES ASSUME Silent', cmd' = "partition"
               PROVE  (DiskProgress /\ RAIDProgress /\ VGProgress)'
    BY DEF Progress
  <2>1. CASE \/ DeactivateVolumeGroup \/ RemoveVolumeGroup \/ RemovePhysicalVolume
             \/ StopRAID \/ ZeroSuperblock \/ Start \/ Kill \/ Reboot
    <3>1. pc' \in {"vgremove", "vgchange", "pvremove", "zero", "idle"}
      BY <2>1 DEF DeactivateVolumeGroup, RemoveVolumeGroup, RemovePhysicalVolume, StopRAID,
                  ZeroSuperblock, Start, Begin, Kill, Reboot, Goto
    <3> QED
      BY <3>1 DEF DiskProgress, RAIDProgress, VGProgress, VGPhase
  <2>2. CASE InspectDisk \/ Wipe \/ PartitionDisk
    BY <1>2, <2>2, SilenceBefore, DiskSteps DEF Step
  <2>3. CASE CreateRAID
    BY <1>2, <2>3, SilenceBefore, RAIDSteps DEF Step
  <2>4. CASE CreateVolumeGroup \/ CreatePhysicalVolume \/ VgCreate \/ CreateLogicalVolume
    BY <1>2, <2>4, SilenceBefore, VGSteps DEF Step
  <2>5. CASE LoopEnd \/ Finish
    BY <1>2, <2>5, SilenceBefore, ControlSteps DEF Step
  <2>6. CASE UNCHANGED vars \/ Finalize
    BY <1>2, <2>6 DEF vars, Finalize, stack, proc, Silent, Progress, DiskProgress, RAIDProgress, VGProgress,
                      DisksDone, RAIDsDone, VGsDone, VGsFound, Scanned
  <2> QED
    BY <1>2, <2>1, <2>2, <2>3, <2>4, <2>5, <2>6 DEF Next, Step
<1> QED
  BY <1>1, <1>2, TypeCorrect, PTL DEF Spec, Inv

\* A run of `rootio partition` that logs no vital error has made the layout:
\* for every metadata document, every host it may find, every failure of a
\* tool, kill and reboot.
THEOREM SilenceIsTruthful == Spec => []SilenceMeansDesired
<1>1. Inv => SilenceMeansDesired
  BY DEF Inv, Progress, SilenceMeansDesired, Silent, Returned, Desired, DiskProgress, RAIDProgress, VGProgress
<1> QED
  BY <1>1, Invariance, PTL

-----------------------------------------------------------------------------
(* What StopRAID leaves behind.                                            *)

NotRunning(n) == \A k \in 1..n : RAIDs[k].name \notin running

\* The arrays that the loop around StopRAID has passed, as long as it has
\* logged nothing and no array has a name it does not know.
Stopped == "stop" \notin errs /\ foreign = {} =>
    /\ pc = "stop" => NotRunning(i - 1)
    /\ pc = "zero" => NotRunning(i)
    /\ pc \in {"inspect", "wipe", "table"} => NotRunning(Len(RAIDs))

\* No volume group of the metadata lies on a plain partition.
VGsOnArrays == \A k \in DOMAIN VGs : Elems(VGs[k].pvs) \subseteq Array

\* An array that the loop has passed is not assembled again before `rootio
\* partition` comes to create it.
LEMMA StoppedInvariant == TypeOK /\ IndexOK /\ Stopped /\ [Next]_vars => Stopped'
<1> SUFFICES ASSUME TypeOK, IndexOK, Stopped, [Next]_vars
             PROVE  Stopped'
  OBVIOUS
<1>0. i \in Nat \ {0} /\ foreign \subseteq running /\ Len(RAIDs) \in Nat
  BY MetadataTypes DEF TypeOK, ProcType, StackType
<1>1. CASE UNCHANGED vars
  BY <1>1 DEF Stopped, NotRunning, vars, proc, stack
<1>2. CASE DeactivateVolumeGroup \/ RemoveVolumeGroup \/ RemovePhysicalVolume
  <2>1. pc' \in {"vgchange", "vgremove", "pvremove"}
    BY <1>2 DEF DeactivateVolumeGroup, RemoveVolumeGroup, RemovePhysicalVolume, Goto
  <2> QED
    BY <2>1 DEF Stopped
<1>3. CASE StopRAID
  <2>1. pc = "stop" /\ pc' = "zero" /\ i' = i /\ foreign' = foreign /\ running' \subseteq running
    BY <1>3 DEF StopRAID, Goto
  <2>2. SUFFICES ASSUME "stop" \notin errs', foreign = {}
                 PROVE  NotRunning(i)'
    BY <2>1 DEF Stopped
  <2>3. "stop" \notin errs
    BY <2>2, <1>3 DEF StopRAID, Quiet, Log
  <2>4. NotRunning(i - 1)
    BY <2>1, <2>2, <2>3 DEF Stopped
  <2>5. RAIDs[i].name \in Array /\ RAIDs[i].name \notin Part
    <3>1. i \in 1..Len(RAIDs)
      BY <1>0, <1>3 DEF StopRAID
    <3> QED
      BY <3>1, MetadataTypes, DistinctAssumption
  <2>6. RAIDs[i].name \notin running'
    BY <1>3, <2>2, <2>5 DEF StopRAID, Log, HasNode
  <2>7. \A k \in 1..i : k = i \/ k \in 1..(i - 1)
    BY <1>0
  <2> QED
    BY <2>1, <2>4, <2>6, <2>7 DEF NotRunning
<1>4. CASE ZeroSuperblock
  BY <1>4 DEF ZeroSuperblock, Goto, Quiet, Stopped, NotRunning
<1>5. CASE InspectDisk
  <2>1. /\ pc = "inspect" /\ pc' \in {"wipe", "table"} /\ errs \subseteq errs'
        /\ running' = running /\ foreign' = foreign
    BY <1>5 DEF InspectDisk, Goto, stack
  <2> QED
    BY <2>1 DEF Stopped, NotRunning
<1>6. CASE Wipe
  <2>1. /\ pc = "wipe" /\ pc' \in {"inspect", "table"} /\ errs \subseteq errs'
        /\ running' = running /\ foreign' = foreign
    BY <1>6 DEF Wipe, Goto, Quiet, Log
  <2> QED
    BY <2>1 DEF Stopped, NotRunning
<1>7. CASE PartitionDisk
  <2>1. /\ pc = "table" /\ pc' = "inspect" /\ errs \subseteq errs'
        /\ running' = running /\ foreign' = foreign
    BY <1>7 DEF PartitionDisk, Goto, Quiet, Log
  <2> QED
    BY <2>1 DEF Stopped, NotRunning
<1>8. CASE CreateRAID
  BY <1>8 DEF CreateRAID, Goto, Stopped
<1>9. CASE CreateVolumeGroup \/ CreatePhysicalVolume \/ VgCreate \/ CreateLogicalVolume
  <2>1. pc' \in {"vg", "pvcreate", "vgcreate", "lvcreate"}
    BY <1>9 DEF CreateVolumeGroup, CreatePhysicalVolume, VgCreate, CreateLogicalVolume, AbandonVG, Goto
  <2> QED
    BY <2>1 DEF Stopped
<1>10. CASE LoopEnd
  <2>1. errs' = errs /\ running' = running /\ foreign' = foreign
    BY <1>10 DEF LoopEnd, stack
  <2>2. CASE pc' \in {"pvremove", "raid", "vg", "vgcreate"}
    BY <2>2 DEF Stopped
  <2>3. CASE pc = "pvremove" /\ Goto("stop", 1, 1)
    BY <2>3 DEF Stopped, NotRunning, Goto
  <2>4. CASE pc = "zero" /\ Goto("stop", i + 1, 1)
    BY <1>0, <2>1, <2>4 DEF Stopped, NotRunning, Goto
  <2>5. CASE pc = "stop" /\ i > Len(RAIDs) /\ Goto("inspect", 1, 1)
    <3>1. 1..Len(RAIDs) \subseteq 1..(i - 1)
      BY <1>0, <2>5
    <3> QED
      BY <2>1, <2>5, <3>1 DEF Stopped, NotRunning, Goto
  <2> QED
    BY <1>10, <2>2, <2>3, <2>4, <2>5 DEF LoopEnd, Goto
<1>11. CASE Finish \/ Start \/ Kill \/ Reboot
  <2>1. pc' \in {"done", "vgchange", "idle"}
    BY <1>11 DEF Finish, Start, Begin, Kill, Reboot, Goto
  <2> QED
    BY <2>1 DEF Stopped
<1>12. CASE Finalize
  BY <1>12 DEF Finalize, Stopped, NotRunning, stack
<1> QED
  BY <1>1, <1>2, <1>3, <1>4, <1>5, <1>6, <1>7, <1>8, <1>9, <1>10, <1>11, <1>12 DEF Next, Step

\* Where every volume group lies on arrays, the log says so before Wipe zeroes
\* the head of a disk in use.  (A volume group on a plain partition whose
\* `vgchange` failed is in use as well, and TeardownVolumeGroups logs nothing.)
THEOREM LiveArrayIsLogged == VGsOnArrays => (Spec => []WipeUnderLiveArrayLogged)
<1> SUFFICES ASSUME VGsOnArrays
             PROVE  Spec => []WipeUnderLiveArrayLogged
  OBVIOUS
<1>1. Init => Stopped
  BY DEF Init, Stopped
<1>2. TypeOK /\ IndexOK /\ Stopped => WipeUnderLiveArrayLogged
  <2> SUFFICES ASSUME TypeOK, IndexOK, Stopped, pc = "wipe", "stop" \notin errs, foreign = {},
                      NEW p \in PartsOn(Disks[i].device), Claimed(p)
               PROVE  FALSE
    BY DEF WipeUnderLiveArrayLogged, DiskBusy
  <2>1. p \in Part /\ p \notin Array
    BY DistinctAssumption DEF PartsOn
  <2>2. p \notin mounted
    BY <2>1 DEF TypeOK, StackType
  <2>3. ASSUME NEW m \in running, p \in Members(m)
        PROVE  FALSE
    <3>1. PICK k \in DOMAIN RAIDs : RAIDs[k].name = m
      BY <2>3 DEF Members
    <3>2. DOMAIN RAIDs = 1..Len(RAIDs)
      BY MetadataAssumption
    <3> QED
      BY <2>3, <3>1, <3>2 DEF Stopped, NotRunning
  <2>4. ASSUME NEW v \in active, p \in PVsOf(v)
        PROVE  FALSE
    BY <2>1, <2>4 DEF PVsOf, VGsOnArrays
  <2> QED
    BY <2>2, <2>3, <2>4 DEF Claimed
<1> QED
  BY <1>1, <1>2, StoppedInvariant, TypeCorrect, PTL DEF Spec
-----------------------------------------------------------------------------
(* The second run repairs what the first one, or what stopped it, left.    *)
(* A run that says nothing vital has made the layout (SilenceIsTruthful),  *)
(* so it is enough that an undisturbed run has nothing to say: teardown    *)
(* deactivates every volume group, because as long as no disk was zeroed   *)
(* in use all of them can still be found (Sound); it stops every array     *)
(* that it finds at its name (TornDown); then nothing sits on the disks,   *)
(* and tables and arrays are made (ArraysUnhindered).  Volume groups need  *)
(* devices without an old label: the wipe takes the labels, or teardown    *)
(* does (Erased), if the run before has left the arrays they are on.       *)

\* A document that `rootio partition` can carry out: it lists every disk, the
\* arrays and volume groups are valid, no two share a name or a device, and a
\* volume group lies on arrays of the document or on partitions of its own.
Feasible ==
    /\ \A d \in Disk : \E k \in DOMAIN Disks : Disks[k].device = d
    /\ \A k \in DOMAIN RAIDs : ValidateRAID(RAIDs[k])
    /\ \A k, l \in DOMAIN RAIDs : k # l =>
          /\ RAIDs[k].name # RAIDs[l].name
          /\ Elems(AllDevices(RAIDs[k])) \cap Elems(AllDevices(RAIDs[l])) = {}
    /\ \A k \in DOMAIN VGs : ValidateVolumeGroup(VGs[k])
    /\ \A k, l \in DOMAIN VGs : k # l =>
          /\ VGs[k].name # VGs[l].name
          /\ Elems(VGs[k].pvs) \cap Elems(VGs[l].pvs) = {}
    /\ \A k \in DOMAIN VGs : \A x \in Elems(VGs[k].pvs) :
          \/ x \in Part /\ \A r \in DOMAIN RAIDs : x \notin Elems(AllDevices(RAIDs[r]))
          \/ \E r \in DOMAIN RAIDs : RAIDs[r].name = x

\* All disks have wipe_table, and the wipe reaches the label of every PV.
Wiped ==
    /\ \A k \in DOMAIN Disks : Disks[k].wipeTable
    /\ \A k \in DOMAIN VGs : \A x \in Elems(VGs[k].pvs) : \E d \in Disk : x \in Zeroed(d)

\* Boots give no array another name, and no array carried a file system.
Plain == Rename \subseteq {FALSE} /\ Leftover \subseteq {"blank"}

Teardown == {"vgchange", "vgremove", "pvremove", "stop", "zero"}
DiskLoop == {"inspect", "wipe", "table"}

\* What always holds of the host, and of a volume group that is being made.
Sound ==
    /\ mounted \subseteq running
    /\ \A m \in running : Members(m) # {}
    /\ \A x \in PVDevice, v \in VG : content[x] = v => x \in PVsOf(v)
    /\ pc \in Outside \cup Teardown => held = {}
    /\ pc = "lvcreate" => VGSeen(VGs[i].name)
    /\ ~torn => \A v \in active : VGSeen(v)

\* What the teardown of a run without faults leaves.
TornDown == ~dirty /\ ~torn =>
    /\ pc = "vgchange" => \A k \in 1..(i - 1) : VGs[k].name \notin active
    /\ pc = "vgremove" => \A k \in 1..i : VGs[k].name \notin active
    /\ pc \in {"pvremove", "stop", "zero"} \cup DiskLoop => active = {}
    /\ pc = "stop" => \A k \in 1..(i - 1) : RAIDs[k].name \notin running \ foreign
    /\ pc = "zero" => \A k \in 1..i : RAIDs[k].name \notin running \ foreign
    /\ pc \in DiskLoop => running \subseteq foreign

\* A plain host stays one.
Orderly == Plain => foreign = {} /\ mounted = {} /\ \A x \in PVDevice : content[x] # FS

Undisturbed == cmd = "partition" /\ ~dirty /\ ~torn /\ Whole

\* Nothing runs on the first n disks, and if they are wiped, their heads are.
Emptied(n) == \A k \in 1..n :
    /\ \A m \in running : Members(m) \cap PartsOn(Disks[k].device) = {}
    /\ Wiped => \A x \in Zeroed(Disks[k].device) : content[x] = None

Closed(n) == \A k \in 1..n : Disks[k].device \notin held

\* The same, but for the disk at hand if the document lists it twice.
ClosedOthers == \A k \in 1..(i - 1) : Disks[k].device = Disks[i].device \/ Disks[k].device \notin held

\* Nothing is in the way of creating arrays and volume groups.
Clear == mounted = {} /\ foreign = {} /\ held = {}

\* Tables and arrays are made.
Standing == DisksDone(Len(Disks)) /\ RAIDsDone(Len(RAIDs))

NamesOf(s, n) == {s[k].name : k \in 1..n}

\* An undisturbed run makes the tables and arrays, and they stand until the
\* teardown of the next one comes to them.
ArraysUnhindered == Undisturbed =>
    /\ pc \notin {"off", "idle", "done"} \cup VGPhase => Silent
    /\ pc = "inspect" => Emptied(i - 1) /\ Closed(i - 1)
    /\ pc = "wipe" => Emptied(i - 1) /\ ClosedOthers
    /\ pc = "table" => Emptied(i) /\ ClosedOthers
    /\ pc = "raid" => Clear /\ active = {} /\ running \subseteq NamesOf(RAIDs, i - 1)
    /\ pc \in VGPhase => Clear
    /\ pc \in VGPhase \cup {"done"} => Standing
    /\ clean >= 1 /\ pc \in {"vgchange", "vgremove", "pvremove"} => Standing

Blank(n) == \A k \in n..Len(VGs) : \A x \in Elems(VGs[k].pvs) : content[x] = None

\* Where the arrays stood before, `pvremove` takes every label.
Erased == Undisturbed /\ Plain /\ clean >= 1 =>
    /\ pc = "pvremove" => \A k \in 1..Len(VGs) : \A n \in DOMAIN VGs[k].pvs :
                              k < i \/ (k = i /\ n < j) => content[VGs[k].pvs[n]] = None
    /\ pc \in {"stop", "zero"} \cup DiskLoop => Blank(1)

\* Nothing old will be in the way of the volume groups: the wipe takes it, or
\* it is the second undisturbed run in a row.
Assured == Wiped \/ (pc # "done" /\ clean >= 1) \/ clean = 2

GroupsUnhindered == Undisturbed /\ Assured =>
    /\ pc \in VGPhase \cup {"done"} => Silent
    /\ pc = "raid" => Blank(1)
    /\ pc \in VGPhase => Blank(i + 1)
    /\ pc = "vg" => Blank(i)
    /\ pc = "lvcreate" => active \subseteq NamesOf(VGs, i)
    /\ pc \in {"vg", "pvcreate", "vgcreate"} => active \subseteq NamesOf(VGs, i - 1)
    /\ pc = "pvcreate" => \A n \in DOMAIN VGs[i].pvs :
          content[VGs[i].pvs[n]] = Orphan \/ (n >= j /\ content[VGs[i].pvs[n]] = None)
    /\ pc = "vgcreate" => \A x \in Elems(VGs[i].pvs) : content[x] = Orphan

\* Only undisturbed runs of `rootio partition` count as such.
Judged ==
    /\ pc = "done" /\ clean >= 1 => cmd = "partition" /\ ~dirty
    /\ pc \in {"off", "idle"} => clean = 0

\* Together: what a run of `rootio partition` relies on, and leaves.
Converging == Sound /\ TornDown /\ Orderly /\ ArraysUnhindered /\ Erased /\ GroupsUnhindered /\ Judged

\* A concatenation begins as its first part does.
LEMMA ConcatHead ==
    ASSUME NEW S, NEW a \in Seq(S), NEW b \in Seq(S), a # <<>>
    PROVE  a \o b # <<>> /\ 1 \in DOMAIN (a \o b) /\ (a \o b)[1] = a[1]
<1>1. Len(a) \in Nat /\ Len(b) \in Nat /\ Len(a) >= 1
  OBVIOUS
<1>2. a \o b \in Seq(S) /\ Len(a \o b) = Len(a) + Len(b)
  OBVIOUS
<1>3. DOMAIN (a \o b) = 1..(Len(a) + Len(b))
  BY <1>2
<1>4. (a \o b)[1] = a[1]
  BY <1>1
<1>5. a \o b # <<>>
  <2>1. Len(a \o b) # 0
    BY <1>1, <1>2
  <2> QED
    BY <2>1
<1> QED
  BY <1>1, <1>3, <1>4, <1>5

\* Arrays of a feasible document: the members are the entry's devices.
LEMMA DocRAIDs ==
    ASSUME Feasible
    PROVE  /\ \A k \in 1..Len(RAIDs) :
                 /\ RAIDs[k].name \in Array
                 /\ Members(RAIDs[k].name) = Elems(AllDevices(RAIDs[k]))
                 /\ Members(RAIDs[k].name) \subseteq Part /\ Members(RAIDs[k].name) # {}
           /\ \A k, l \in 1..Len(RAIDs) : k # l =>
                 /\ RAIDs[k].name # RAIDs[l].name
                 /\ Members(RAIDs[k].name) \cap Members(RAIDs[l].name) = {}
           /\ \A m : Members(m) # {} => \E k \in 1..Len(RAIDs) : RAIDs[k].name = m
           /\ \A m : Members(m) \subseteq Part
<1>0. DOMAIN RAIDs = 1..Len(RAIDs) /\ Len(RAIDs) \in Nat
  BY MetadataAssumption
<1>1. \A k, l \in 1..Len(RAIDs) : k # l =>
        /\ RAIDs[k].name # RAIDs[l].name
        /\ Elems(AllDevices(RAIDs[k])) \cap Elems(AllDevices(RAIDs[l])) = {}
  BY <1>0 DEF Feasible
<1>2. ASSUME NEW k \in 1..Len(RAIDs)
      PROVE  /\ RAIDs[k].name \in Array
             /\ Members(RAIDs[k].name) = Elems(AllDevices(RAIDs[k]))
             /\ Members(RAIDs[k].name) \subseteq Part /\ Members(RAIDs[k].name) # {}
  <2>1. RAIDs[k].name \in Array /\ Elems(AllDevices(RAIDs[k])) \subseteq Part
    BY MetadataTypes
  <2>2. {n \in DOMAIN RAIDs : RAIDs[n].name = RAIDs[k].name} = {k}
    BY <1>0, <1>1
  <2>3. Members(RAIDs[k].name) = Elems(AllDevices(RAIDs[k]))
    BY <2>2 DEF Members
  <2>4. Elems(AllDevices(RAIDs[k])) # {}
    <3>1. AllDevices(RAIDs[k]) \in Seq(Part)
      BY MetadataTypes
    <3>2. AllDevices(RAIDs[k]) # <<>>
      <4>1. RAIDs \in Seq([name : Array, level : STRING, devices : Seq(Part), spare : Seq(Part)])
        BY MetadataAssumption
      <4>2. RAIDs[k] \in [name : Array, level : STRING, devices : Seq(Part), spare : Seq(Part)]
        BY <4>1, ElementType, Zenon
      <4>3. RAIDs[k].devices \in Seq(Part) /\ RAIDs[k].spare \in Seq(Part)
        BY <4>2
      <4>4. ValidateRAID(RAIDs[k])
        BY <1>0 DEF Feasible
      <4>5. RAIDs[k].devices # <<>>
        BY <4>3, <4>4 DEF ValidateRAID, MinDevices
      <4> QED
        BY <4>3, <4>5, ConcatHead DEF AllDevices
    <3> QED
      BY <3>1, <3>2, SomeElement
  <2> QED
    BY <2>1, <2>3, <2>4
<1>3. \A m : Members(m) # {} => \E k \in 1..Len(RAIDs) : RAIDs[k].name = m
  BY <1>0 DEF Members
<1>4. \A m : Members(m) \subseteq Part
  BY <1>0, MetadataTypes DEF Members
<1>5. \A k, l \in 1..Len(RAIDs) : k # l =>
        /\ RAIDs[k].name # RAIDs[l].name
        /\ Members(RAIDs[k].name) \cap Members(RAIDs[l].name) = {}
  BY <1>1, <1>2
<1> QED
  BY <1>2, <1>3, <1>4, <1>5

\* Volume groups of a feasible document: the PVs are the entry's devices,
\* arrays of the document or partitions that are no member of one.
LEMMA DocVGs ==
    ASSUME Feasible
    PROVE  /\ \A k \in 1..Len(VGs) :
                 /\ VGs[k].name \in VG /\ ValidateVolumeGroup(VGs[k])
                 /\ PVsOf(VGs[k].name) = Elems(VGs[k].pvs)
                 /\ PVsOf(VGs[k].name) \subseteq PVDevice /\ PVsOf(VGs[k].name) # {}
           /\ \A k, l \in 1..Len(VGs) : k # l =>
                 /\ VGs[k].name # VGs[l].name
                 /\ Elems(VGs[k].pvs) \cap Elems(VGs[l].pvs) = {}
           /\ \A v : PVsOf(v) # {} => \E k \in 1..Len(VGs) : VGs[k].name = v
           /\ \A k \in 1..Len(VGs) : \A x \in Elems(VGs[k].pvs) :
                 \/ x \in Part /\ \A m : x \notin Members(m)
                 \/ x \in Array /\ \E r \in 1..Len(RAIDs) : RAIDs[r].name = x
<1>0. /\ DOMAIN VGs = 1..Len(VGs) /\ Len(VGs) \in Nat
      /\ DOMAIN RAIDs = 1..Len(RAIDs) /\ Len(RAIDs) \in Nat
  BY MetadataAssumption
<1>1. \A k, l \in 1..Len(VGs) : k # l =>
        /\ VGs[k].name # VGs[l].name
        /\ Elems(VGs[k].pvs) \cap Elems(VGs[l].pvs) = {}
  BY <1>0 DEF Feasible
<1>2. ASSUME NEW k \in 1..Len(VGs)
      PROVE  /\ VGs[k].name \in VG /\ ValidateVolumeGroup(VGs[k])
             /\ PVsOf(VGs[k].name) = Elems(VGs[k].pvs)
             /\ PVsOf(VGs[k].name) \subseteq PVDevice /\ PVsOf(VGs[k].name) # {}
  <2>1. VGs[k].name \in VG /\ Elems(VGs[k].pvs) \subseteq PVDevice /\ VGs[k].pvs \in Seq(PVDevice)
    BY MetadataTypes
  <2>2. {n \in DOMAIN VGs : VGs[n].name = VGs[k].name} = {k}
    BY <1>0, <1>1
  <2>3. PVsOf(VGs[k].name) = Elems(VGs[k].pvs)
    BY <2>2 DEF PVsOf
  <2>4. ValidateVolumeGroup(VGs[k])
    BY <1>0 DEF Feasible
  <2>5. Elems(VGs[k].pvs) # {}
    BY <2>1, <2>4, SomeElement DEF ValidateVolumeGroup
  <2> QED
    BY <2>1, <2>3, <2>4, <2>5
<1>3. \A v : PVsOf(v) # {} => \E k \in 1..Len(VGs) : VGs[k].name = v
  BY <1>0 DEF PVsOf
<1>4. ASSUME NEW k \in 1..Len(VGs), NEW x \in Elems(VGs[k].pvs)
      PROVE  \/ x \in Part /\ \A m : x \notin Members(m)
             \/ x \in Array /\ \E r \in 1..Len(RAIDs) : RAIDs[r].name = x
  <2>1. CASE x \in Part /\ \A r \in DOMAIN RAIDs : x \notin Elems(AllDevices(RAIDs[r]))
    BY <2>1 DEF Members
  <2>2. CASE \E r \in DOMAIN RAIDs : RAIDs[r].name = x
    BY <1>0, <2>2, MetadataTypes
  <2> QED
    BY <1>0, <2>1, <2>2 DEF Feasible
<1> QED
  BY <1>1, <1>2, <1>3, <1>4

\* Disks of a feasible document.
LEMMA DocDisks ==
    ASSUME Feasible
    PROVE  /\ \A k \in 1..Len(Disks) : Disks[k].device \in Disk
           /\ \A d \in Disk : \E k \in 1..Len(Disks) : Disks[k].device = d
<1>1. DOMAIN Disks = 1..Len(Disks)
  BY MetadataAssumption
<1> QED
  BY <1>1, MetadataTypes DEF Feasible

\* The head of an array is on one of its members.
LEMMA HeadsAreMembers == \A m : Heads(m) \subseteq Members(m)
<1> SUFFICES ASSUME NEW m, NEW p \in Heads(m)
             PROVE  p \in Members(m)
  OBVIOUS
<1>1. PICK k \in DOMAIN RAIDs : RAIDs[k].name = m /\ RAIDs[k].devices # <<>> /\ RAIDs[k].devices[1] = p
  BY DEF Heads
<1>2. RAIDs[k].devices \in Seq(Part) /\ RAIDs[k].spare \in Seq(Part)
  <2>1. RAIDs \in Seq([name : Array, level : STRING, devices : Seq(Part), spare : Seq(Part)])
    BY MetadataAssumption
  <2>2. k \in 1..Len(RAIDs)
    BY MetadataAssumption
  <2>3. RAIDs[k] \in [name : Array, level : STRING, devices : Seq(Part), spare : Seq(Part)]
    BY <2>1, <2>2, ElementType, Zenon
  <2> QED
    BY <2>3
<1>3. 1 \in DOMAIN AllDevices(RAIDs[k]) /\ AllDevices(RAIDs[k])[1] = p
  BY <1>1, <1>2, ConcatHead DEF AllDevices
<1>4. p \in Elems(AllDevices(RAIDs[k]))
  BY <1>3 DEF Elems
<1> QED
  BY <1>1, <1>4 DEF Members

-----------------------------------------------------------------------------
(* Sound.                                                                  *)

\* A volume group stays complete as long as its devices are found and keep
\* their labels.
LEMMA SeenStays ==
    ASSUME NEW v, VGSeen(v), nodes \subseteq nodes',
           \A x \in PVsOf(v) : /\ x \in running => x \in running'
                               /\ content'[x] = content[x]
    PROVE  VGSeen(v)'
<1>1. PVsOf(v)' = PVsOf(v)
  BY DEF PVsOf
<1>2. \A x \in PVsOf(v) : Scanned(x)'
  BY DEF VGSeen, Scanned
<1> QED
  BY <1>1, <1>2 DEF VGSeen

\* A disk that Wipe zeroes in a run without faults is not in use.
LEMMA WipesIdle ==
    ASSUME Feasible, TypeOK, IndexOK, Sound, TornDown, Wipe, ~torn'
    PROVE  ~DiskBusy(Disks[i].device)
<1>1. pc = "wipe" /\ ~torn /\ (~DiskBusy(Disks[i].device) \/ (~dirty /\ foreign = {}))
  BY DEF Wipe
<1>2. CASE ~dirty /\ foreign = {}
  <2>1. running = {} /\ active = {} /\ mounted = {}
    BY <1>1, <1>2 DEF TornDown, DiskLoop, Sound
  <2> QED
    BY <2>1 DEF DiskBusy, Claimed
<1> QED
  BY <1>1, <1>2

\* Zeroing an idle disk takes nothing from a volume group that is active.
LEMMA ActiveUntouched ==
    ASSUME TypeOK, Sound, NEW d \in Disk, ~DiskBusy(d), NEW v \in active, VGSeen(v),
           NEW x \in PVsOf(v)
    PROVE  x \notin Zeroed(d)
<1> SUFFICES ASSUME x \in Zeroed(d) PROVE FALSE
  OBVIOUS
<1>1. CASE x \in PartsOn(d)
  BY <1>1 DEF DiskBusy, Claimed
<1>2. CASE x \in Array /\ Heads(x) \cap PartsOn(d) # {}
  <2>1. PICK p \in PartsOn(d) : p \in Heads(x)
    BY <1>2
  <2>2. x \notin Part
    BY <1>2, DistinctAssumption
  <2>3. x \in running
    BY <2>2 DEF VGSeen, Scanned
  <2>4. p \in Members(x)
    BY <2>1, HeadsAreMembers
  <2> QED
    BY <2>1, <2>3, <2>4 DEF DiskBusy, Claimed
<1> QED
  BY <1>1, <1>2 DEF Zeroed

\* Sound is invariant, whatever fails.
LEMMA SoundStep ==
    ASSUME Feasible, TypeOK, IndexOK, Sound, TornDown, [Next]_vars
    PROVE  Sound'
<1> USE DEF Goto, Works, Fails, Bookkeeping, Rest, Quiet
<1>0. /\ i \in Nat \ {0} /\ Len(VGs) \in Nat /\ Len(RAIDs) \in Nat /\ Len(Disks) \in Nat
      /\ content \in [PVDevice -> Content] /\ running \subseteq Array /\ active \subseteq VG
      /\ mounted \subseteq running
      /\ \A m \in running : Members(m) # {}
      /\ \A x \in PVDevice, v \in VG : content[x] = v => x \in PVsOf(v)
      /\ ~torn => \A v \in active : VGSeen(v)
      /\ None \notin VG /\ Orphan \notin VG
  BY MetadataTypes, DistinctAssumption DEF TypeOK, ProcType, StackType, Sound
<1>p. \A v : PVsOf(v)' = PVsOf(v)
  BY DEF PVsOf
<1>m. \A m : Members(m)' = Members(m)
  BY DEF Members
<1>1. CASE UNCHANGED stack /\ torn' = torn /\ (pc' \in Outside \cup Teardown => held' = {})
           /\ (pc' = "lvcreate" => pc = "lvcreate" /\ i' = i)
  <2>1. \A v : VGSeen(v)' <=> VGSeen(v)
    BY <1>1 DEF VGSeen, Scanned, PVsOf, stack
  <2> QED
    BY <1>0, <1>1, <1>p, <1>m, <2>1 DEF Sound, stack
<1>2. CASE DeactivateVolumeGroup
  <2>1. /\ active' \subseteq active /\ pc' = "vgremove" /\ torn' = torn /\ held' = held /\ pc = "vgchange"
        /\ nodes' = nodes /\ running' = running /\ content' = content /\ mounted' = mounted
    BY <1>2 DEF DeactivateVolumeGroup
  <2>2. \A v : VGSeen(v)' <=> VGSeen(v)
    BY <2>1 DEF VGSeen, Scanned, PVsOf
  <2> QED
    BY <1>0, <1>p, <1>m, <2>1, <2>2 DEF Sound, Teardown
<1>3. CASE RemoveVolumeGroup
  <2> DEFINE w == VGs[i].name
  <2>1. /\ pc' = "vgchange" /\ pc = "vgremove" /\ torn' = torn /\ held' = held
        /\ nodes' = nodes /\ running' = running /\ mounted' = mounted
    BY <1>3 DEF RemoveVolumeGroup
  <2>2. CASE active' = active /\ content' = content
    <3>1. \A v : VGSeen(v)' <=> VGSeen(v)
      BY <2>1, <2>2 DEF VGSeen, Scanned, PVsOf
    <3> QED
      BY <1>0, <1>p, <1>m, <2>1, <2>2, <3>1 DEF Sound, Teardown
  <2>3. CASE active' = active \ {w} /\ content' = Label(PVsOf(w), Orphan)
    <3>1. \A x \in PVDevice, v \in VG : content'[x] = v => x \in PVsOf(v)
      BY <1>0, <2>3 DEF Label
    <3>2. \A v \in active' : VGSeen(v) => VGSeen(v)'
      <4> SUFFICES ASSUME NEW v \in active', VGSeen(v) PROVE VGSeen(v)'
        OBVIOUS
      <4>1. \E k \in 1..Len(VGs) : VGs[k].name = v
        BY DocVGs DEF VGSeen
      <4>2. PICK k \in 1..Len(VGs) : VGs[k].name = v
        BY <4>1
      <4>3. i \in 1..Len(VGs) /\ k # i
        BY <1>0, <2>1, <2>3, <4>2 DEF IndexOK
      <4>4. PVsOf(v) \cap PVsOf(w) = {} /\ PVsOf(v) \subseteq PVDevice
        BY <4>2, <4>3, DocVGs
      <4>5. \A x \in PVsOf(v) : content'[x] = content[x]
        BY <2>3, <4>4 DEF Label
      <4> QED
        BY <2>1, <4>5, SeenStays
    <3> QED
      BY <1>0, <1>p, <1>m, <2>1, <2>3, <3>1, <3>2 DEF Sound, Teardown
  <2> QED
    BY <1>3, <2>2, <2>3 DEF RemoveVolumeGroup
<1>4. CASE RemovePhysicalVolume
  <2> DEFINE y == VGs[i].pvs[j]
  <2>1. /\ pc' = "pvremove" /\ pc = "pvremove" /\ torn' = torn /\ held' = held
        /\ nodes' = nodes /\ running' = running /\ mounted' = mounted /\ active' = active
    BY <1>4 DEF RemovePhysicalVolume
  <2>2. CASE content' = content
    <3>1. \A v : VGSeen(v)' <=> VGSeen(v)
      BY <2>1, <2>2 DEF VGSeen, Scanned, PVsOf
    <3> QED
      BY <1>0, <1>p, <1>m, <2>1, <2>2, <3>1 DEF Sound, Teardown
  <2>3. CASE CanRemovePV(y) /\ content' = Label({y}, None)
    <3>1. \A x \in PVDevice, v \in VG : content'[x] = v => x \in PVsOf(v)
      BY <1>0, <2>3 DEF Label
    <3>2. \A v \in active : VGSeen(v) => VGSeen(v)'
      <4> SUFFICES ASSUME NEW v \in active, VGSeen(v) PROVE VGSeen(v)'
        OBVIOUS
      <4>1. y \notin PVsOf(v)
        BY <2>3 DEF CanRemovePV, Claimed
      <4>2. PVsOf(v) \subseteq PVDevice
        BY DocVGs DEF VGSeen
      <4>3. \A x \in PVsOf(v) : content'[x] = content[x]
        BY <2>3, <4>1, <4>2 DEF Label
      <4> QED
        BY <2>1, <4>3, SeenStays
    <3> QED
      BY <1>0, <1>p, <1>m, <2>1, <2>3, <3>1, <3>2 DEF Sound, Teardown
  <2> QED
    BY <1>4, <2>2, <2>3 DEF RemovePhysicalVolume
<1>5. CASE StopRAID
  <2> DEFINE a == RAIDs[i].name
  <2>1. /\ pc' = "zero" /\ pc = "stop" /\ torn' = torn /\ held' = held /\ active' = active
        /\ nodes' = nodes /\ content' = content
        /\ running' \subseteq running /\ mounted' \subseteq running'
        /\ running' # running => running' = running \ {a} /\ \A v \in active : a \notin PVsOf(v)
    BY <1>0, <1>5 DEF StopRAID
  <2>2. \A v \in active : VGSeen(v) => VGSeen(v)'
    <3> SUFFICES ASSUME NEW v \in active, VGSeen(v) PROVE VGSeen(v)'
      OBVIOUS
    <3>1. \A x \in PVsOf(v) : x \in running => x \in running'
      BY <2>1
    <3> QED
      BY <2>1, <3>1, SeenStays
  <2> QED
    BY <1>0, <1>p, <1>m, <2>1, <2>2 DEF Sound, Teardown
<1>6. CASE ZeroSuperblock
  <2>1. /\ pc' = "zero" /\ pc = "zero" /\ torn' = torn /\ held' = held /\ active' = active
        /\ nodes' = nodes /\ content' = content /\ running' = running /\ mounted' = mounted
    BY <1>6 DEF ZeroSuperblock
  <2>2. \A v : VGSeen(v)' <=> VGSeen(v)
    BY <2>1 DEF VGSeen, Scanned, PVsOf
  <2> QED
    BY <1>0, <1>p, <1>m, <2>1, <2>2 DEF Sound, Teardown
<1>7. CASE Wipe
  <2> DEFINE d == Disks[i].device
  <2>1. /\ pc' \in {"inspect", "table"} /\ (torn => torn') /\ active' = active
        /\ nodes' = nodes /\ running' = running /\ mounted' = mounted
        /\ content' = content \/ content' = Label(Zeroed(d), None)
    BY <1>7 DEF Wipe, ZeroHead
  <2>2. \A x \in PVDevice, v \in VG : content'[x] = v => x \in PVsOf(v)
    BY <1>0, <2>1 DEF Label
  <2>3. ASSUME ~torn', NEW v \in active'
        PROVE  VGSeen(v)'
    <3>1. v \in active /\ VGSeen(v) /\ PVsOf(v) \subseteq PVDevice
      BY <1>0, <2>1, <2>3, DocVGs DEF VGSeen
    <3>2. d \in Disk
      <4>1. i \in 1..Len(Disks)
        BY <1>0, <1>7 DEF Wipe, IndexOK
      <4> QED
        BY <4>1, MetadataTypes
    <3>3. \A x \in PVsOf(v) : x \notin Zeroed(d)
      BY <1>7, <2>3, <3>1, <3>2, WipesIdle, ActiveUntouched
    <3>4. \A x \in PVsOf(v) : content'[x] = content[x]
      BY <2>1, <3>1, <3>3 DEF Label
    <3> QED
      BY <2>1, <3>1, <3>4, SeenStays
  <2> QED
    BY <1>0, <1>p, <1>m, <2>1, <2>2, <2>3 DEF Sound, Teardown, Outside
<1>8. CASE PartitionDisk
  <2>1. /\ pc' = "inspect" /\ torn' = torn /\ active' = active
        /\ nodes \subseteq nodes' /\ content' = content /\ running' = running /\ mounted' = mounted
    BY <1>8 DEF PartitionDisk
  <2>2. \A v : VGSeen(v) => VGSeen(v)'
    BY <2>1, SeenStays
  <2> QED
    BY <1>0, <1>p, <1>m, <2>1, <2>2 DEF Sound, Teardown, Outside
<1>9. CASE CreateRAID
  <2>1. /\ pc' = "raid" /\ torn' = torn /\ active' = active
        /\ nodes' = nodes /\ content' = content /\ mounted' = mounted
        /\ running' \subseteq running \cup {RAIDs[i].name} /\ running \subseteq running'
    BY <1>9 DEF CreateRAID, CreateArray
  <2>2. \A v : VGSeen(v) => VGSeen(v)'
    BY <2>1, SeenStays
  <2>3. Members(RAIDs[i].name) # {}
    <3>1. i \in 1..Len(RAIDs)
      BY <1>0, <1>9 DEF CreateRAID
    <3> QED
      BY <3>1, DocRAIDs
  <2> QED
    BY <1>0, <1>p, <1>m, <2>1, <2>2, <2>3 DEF Sound, Teardown, Outside
<1>10. CASE CreatePhysicalVolume
  <2> DEFINE y == VGs[i].pvs[j]
  <2>1. /\ pc' \in {"vg", "pvcreate"} /\ torn' = torn
        /\ nodes' = nodes /\ running' = running /\ mounted' = mounted /\ active' = active
    BY <1>10 DEF CreatePhysicalVolume, AbandonVG
  <2>2. CASE content' = content
    <3>1. \A v : VGSeen(v)' <=> VGSeen(v)
      BY <2>1, <2>2 DEF VGSeen, Scanned, PVsOf
    <3> QED
      BY <1>0, <1>p, <1>m, <2>1, <2>2, <3>1 DEF Sound, Teardown, Outside
  <2>3. CASE CanCreatePV(y) /\ content' = Label({y}, Orphan)
    <3>1. \A x \in PVDevice, v \in VG : content'[x] = v => x \in PVsOf(v)
      BY <1>0, <2>3 DEF Label
    <3>2. \A v \in active : VGSeen(v) => VGSeen(v)'
      <4> SUFFICES ASSUME NEW v \in active, VGSeen(v) PROVE VGSeen(v)'
        OBVIOUS
      <4>1. y \notin PVsOf(v)
        BY <2>3 DEF CanCreatePV, Claimed
      <4>2. PVsOf(v) \subseteq PVDevice
        BY DocVGs DEF VGSeen
      <4>3. \A x \in PVsOf(v) : content'[x] = content[x]
        BY <2>3, <4>1, <4>2 DEF Label
      <4> QED
        BY <2>1, <4>3, SeenStays
    <3> QED
      BY <1>0, <1>p, <1>m, <2>1, <2>3, <3>1, <3>2 DEF Sound, Teardown, Outside
  <2> QED
    BY <1>10, <2>2, <2>3 DEF CreatePhysicalVolume
<1>11. CASE VgCreate
  <2> DEFINE w == VGs[i].name
             xs == Elems(VGs[i].pvs)
  <2>0. i \in 1..Len(VGs) /\ w \in VG /\ PVsOf(w) = xs /\ xs \subseteq PVDevice /\ xs # {}
    <3>1. i \in 1..Len(VGs)
      BY <1>0, <1>11 DEF VgCreate, IndexOK
    <3> QED
      BY <3>1, DocVGs
  <2>1. /\ torn' = torn /\ nodes' = nodes /\ running' = running /\ mounted' = mounted /\ active' = active
    BY <1>11 DEF VgCreate
  <2>2. CASE content' = content /\ pc' = "vg"
    <3>1. \A v : VGSeen(v)' <=> VGSeen(v)
      BY <2>1, <2>2 DEF VGSeen, Scanned, PVsOf
    <3> QED
      BY <1>0, <1>p, <1>m, <2>1, <2>2, <3>1 DEF Sound, Teardown, Outside
  <2>3. CASE CanCreateVG(w, xs) /\ content' = Label(xs, w) /\ pc' = "lvcreate" /\ i' = i
    <3>1. \A x \in PVDevice, v \in VG : content'[x] = v => x \in PVsOf(v)
      BY <1>0, <2>0, <2>3 DEF Label
    <3>2. \A v \in active : VGSeen(v) => VGSeen(v)'
      <4> SUFFICES ASSUME NEW v \in active, VGSeen(v) PROVE VGSeen(v)'
        OBVIOUS
      <4>1. \A x \in PVsOf(v) : x \notin xs
        BY <1>0, <2>3 DEF CanCreateVG, VGSeen
      <4>2. PVsOf(v) \subseteq PVDevice
        BY DocVGs DEF VGSeen
      <4>3. \A x \in PVsOf(v) : content'[x] = content[x]
        BY <2>3, <4>1, <4>2 DEF Label
      <4> QED
        BY <2>1, <4>3, SeenStays
    <3>3. VGSeen(w)'
      <4>1. \A x \in xs : content'[x] = w
        BY <2>0, <2>3 DEF Label
      <4>2. \A x \in xs : Scanned(x)'
        BY <2>1, <2>3 DEF CanCreateVG, HasNode, Scanned
      <4>3. w' = w
        BY <2>3
      <4>4. PVsOf(w)' = xs
        BY <1>p, <2>0, <4>3
      <4> QED
        BY <2>0, <4>1, <4>2, <4>3, <4>4 DEF VGSeen
    <3> QED
      BY <1>0, <1>p, <1>m, <2>1, <2>3, <3>1, <3>2, <3>3 DEF Sound, Teardown, Outside
  <2> QED
    BY <1>11, <2>2, <2>3 DEF VgCreate, AbandonVG
<1>12. CASE CreateLogicalVolume
  <2> DEFINE w == VGs[i].name
  <2>1. /\ torn' = torn /\ nodes' = nodes /\ running' = running /\ mounted' = mounted /\ content' = content
        /\ active' \subseteq active \cup {w} /\ pc' \in {"lvcreate", "vg"} /\ (pc' = "lvcreate" => i' = i)
        /\ pc = "lvcreate"
    BY <1>12 DEF CreateLogicalVolume, AbandonVG
  <2>2. \A v : VGSeen(v)' <=> VGSeen(v)
    BY <2>1 DEF VGSeen, Scanned, PVsOf
  <2>3. VGSeen(w)
    BY <2>1 DEF Sound
  <2> QED
    BY <1>0, <1>p, <1>m, <2>1, <2>2, <2>3 DEF Sound, Teardown, Outside
<1>13. CASE Reboot
  <2>1. /\ pc' = "idle" /\ held' = {}
        /\ nodes' = table /\ content' = content /\ mounted' \subseteq running'
        /\ running' \subseteq Assemblable
    BY <1>13 DEF Reboot, Boot
  <2>2. \A v \in active' : VGSeen(v)'
    <3> SUFFICES ASSUME NEW v \in active' PROVE VGSeen(v)'
      OBVIOUS
    <3>1. /\ PVsOf(v) # {}
          /\ \A x \in PVsOf(v) : /\ content[x] = v
                                 /\ IF x \in Part THEN PartDisk[x] \in table ELSE x \in running'
      BY <1>13 DEF Reboot, Boot
    <3> QED
      BY <1>p, <2>1, <3>1 DEF VGSeen, Scanned
  <2>3. \A m \in running' : Members(m) # {}
    BY <2>1 DEF Assemblable
  <2> QED
    BY <1>0, <1>p, <1>m, <2>1, <2>2, <2>3 DEF Sound
<1>14. CASE UNCHANGED vars
  BY <1>1, <1>14 DEF vars, proc, Sound
<1>15. CASE InspectDisk
  <2>1. stack' = stack /\ torn' = torn /\ pc' \in {"wipe", "table"}
    BY <1>15 DEF InspectDisk
  <2> QED
    BY <1>1, <2>1 DEF Outside, Teardown
<1>16. CASE CreateVolumeGroup
  <2>1. stack' = stack /\ torn' = torn /\ pc' \in {"vg", "pvcreate"}
    BY <1>16 DEF CreateVolumeGroup, AbandonVG
  <2> QED
    BY <1>1, <2>1 DEF Outside, Teardown
<1>17. CASE LoopEnd
  <2>1. /\ stack' = stack /\ torn' = torn /\ held' = held /\ pc' # "lvcreate"
        /\ pc' \in Outside \cup Teardown => pc \in Teardown
    BY <1>17 DEF LoopEnd, Outside, Teardown
  <2> QED
    BY <1>1, <2>1 DEF Sound
<1>18. CASE Finish \/ Kill
  <2>1. stack' = stack /\ torn' = torn /\ held' = {} /\ pc' # "lvcreate"
    BY <1>18 DEF Finish, Kill
  <2> QED
    BY <1>1, <2>1
<1>19. CASE Start
  <2>1. stack' = stack /\ torn' = torn /\ held' = held /\ pc' = "vgchange" /\ pc \in Outside
    BY <1>19 DEF Start, Begin, Outside
  <2> QED
    BY <1>1, <2>1 DEF Sound
<1>20. CASE Finalize
  <2>1. stack' = stack /\ torn' = torn /\ held' \subseteq held /\ pc' = pc /\ i' = i
    BY <1>20 DEF Finalize
  <2> QED
    BY <1>1, <2>1 DEF Sound
<1> QED
  BY <1>2, <1>3, <1>4, <1>5, <1>6, <1>7, <1>8, <1>9, <1>10, <1>11, <1>12, <1>13, <1>14, <1>15, <1>16,
     <1>17, <1>18, <1>19, <1>20 DEF Next, Step

-----------------------------------------------------------------------------
(* TornDown, Orderly and Judged.                                           *)

\* The teardown of a run without faults leaves nothing active, and no array
\* at its name.
LEMMA TornDownStep ==
    ASSUME Feasible, TypeOK, IndexOK, Sound, TornDown, [Next]_vars
    PROVE  TornDown'
<1> USE DEF Goto, Works, Fails, Bookkeeping, Rest, Quiet
<1>0. /\ i \in Nat \ {0} /\ Len(VGs) \in Nat /\ Len(RAIDs) \in Nat /\ Len(Disks) \in Nat
      /\ active \subseteq VG /\ running \subseteq Array /\ foreign \subseteq running
  BY MetadataTypes DEF TypeOK, ProcType, StackType
<1>1. SUFFICES ASSUME ~dirty', ~torn'
               PROVE  /\ pc' = "vgchange" => \A k \in 1..(i' - 1) : VGs[k].name \notin active'
                      /\ pc' = "vgremove" => \A k \in 1..i' : VGs[k].name \notin active'
                      /\ pc' \in {"pvremove", "stop", "zero"} \cup DiskLoop => active' = {}
                      /\ pc' = "stop" => \A k \in 1..(i' - 1) : RAIDs[k].name \notin running' \ foreign'
                      /\ pc' = "zero" => \A k \in 1..i' : RAIDs[k].name \notin running' \ foreign'
                      /\ pc' \in DiskLoop => running' \subseteq foreign'
  BY DEF TornDown
<1>2. CASE DeactivateVolumeGroup
  <2> DEFINE w == VGs[i].name
  <2>1. pc = "vgchange" /\ pc' = "vgremove" /\ i' = i /\ ~dirty /\ ~torn /\ w \notin active' /\ active' \subseteq active
    <3>1. /\ pc = "vgchange" /\ pc' = "vgremove" /\ i' = i /\ torn' = torn
      BY <1>2 DEF DeactivateVolumeGroup
    <3>2. dirty' = dirty /\ active' = IF VGSeen(w) THEN active \ {w} ELSE active
      BY <1>1, <1>2 DEF DeactivateVolumeGroup
    <3>3. w \in active => VGSeen(w)
      BY <1>1, <3>1 DEF Sound
    <3> QED
      BY <1>1, <3>1, <3>2, <3>3
  <2>2. \A k \in 1..(i - 1) : VGs[k].name \notin active
    BY <2>1 DEF TornDown
  <2>3. \A k \in 1..i : k \in 1..(i - 1) \/ k = i
    BY <1>0
  <2> QED
    BY <2>1, <2>2, <2>3 DEF DiskLoop
<1>3. CASE RemoveVolumeGroup
  <2>1. /\ pc = "vgremove" /\ pc' = "vgchange" /\ i' = i + 1 /\ ~dirty /\ ~torn /\ active' \subseteq active
    BY <1>1, <1>3 DEF RemoveVolumeGroup
  <2>2. \A k \in 1..i : VGs[k].name \notin active
    BY <2>1 DEF TornDown
  <2> QED
    BY <1>0, <2>1, <2>2 DEF DiskLoop
<1>4. CASE RemovePhysicalVolume
  <2>1. /\ pc = "pvremove" /\ pc' = "pvremove" /\ ~dirty /\ ~torn /\ active' = active
    BY <1>1, <1>4 DEF RemovePhysicalVolume
  <2> QED
    BY <2>1 DEF DiskLoop, TornDown
<1>5. CASE StopRAID
  <2> DEFINE a == RAIDs[i].name
  <2>1. /\ pc = "stop" /\ pc' = "zero" /\ i' = i /\ active' = active /\ foreign' = foreign /\ torn' = torn
    BY <1>5 DEF StopRAID
  <2>2. dirty' = dirty /\ faults' = faults
    BY <1>1, <1>5 DEF StopRAID
  <2>3. active = {} /\ \A k \in 1..(i - 1) : RAIDs[k].name \notin running \ foreign
    BY <1>1, <2>1, <2>2 DEF TornDown
  <2>4. a \notin Part
    <3>1. i \in 1..Len(RAIDs)
      BY <1>0, <1>5 DEF StopRAID
    <3> QED
      BY <3>1, MetadataTypes, DistinctAssumption
  <2>5. running' \subseteq running /\ a \notin running' \ foreign
    <3>1. CASE ~HasNode(a)
      BY <1>5, <3>1, <2>4 DEF StopRAID, HasNode
    <3>2. CASE HasNode(a)
      BY <1>1, <1>5, <3>2, <2>3 DEF StopRAID
    <3> QED
      BY <3>1, <3>2
  <2>6. \A k \in 1..i : k \in 1..(i - 1) \/ k = i
    BY <1>0
  <2> QED
    BY <2>1, <2>3, <2>5, <2>6 DEF DiskLoop
<1>6. CASE ZeroSuperblock
  <2>1. /\ pc = "zero" /\ pc' = "zero" /\ i' = i /\ active' = active /\ foreign' = foreign
        /\ running' = running /\ ~torn /\ ~dirty
    BY <1>1, <1>6 DEF ZeroSuperblock
  <2> QED
    BY <2>1 DEF DiskLoop, TornDown
<1>7. CASE InspectDisk \/ Wipe \/ PartitionDisk
  <2>1. /\ pc \in DiskLoop /\ pc' \in DiskLoop /\ active' = active /\ foreign' = foreign
        /\ running' = running /\ ~torn /\ ~dirty
    <3>1. CASE InspectDisk
      BY <1>1, <3>1 DEF InspectDisk, DiskLoop, stack
    <3>2. CASE Wipe
      <4>1. /\ pc = "wipe" /\ pc' \in {"inspect", "table"} /\ active' = active /\ foreign' = foreign
            /\ running' = running /\ (torn => torn')
        BY <3>2 DEF Wipe
      <4>2. dirty' = dirty
        BY <1>1, <3>2 DEF Wipe
      <4> QED
        BY <1>1, <4>1, <4>2 DEF DiskLoop
    <3>3. CASE PartitionDisk
      BY <1>1, <3>3 DEF PartitionDisk, DiskLoop
    <3> QED
      BY <1>7, <3>1, <3>2, <3>3
  <2> QED
    BY <2>1 DEF DiskLoop, TornDown
<1>8. CASE CreateRAID
  BY <1>8 DEF CreateRAID, DiskLoop
<1>9. CASE CreateVolumeGroup \/ CreatePhysicalVolume \/ VgCreate \/ CreateLogicalVolume
  <2>1. pc' \in {"vg", "pvcreate", "vgcreate", "lvcreate"}
    BY <1>9 DEF CreateVolumeGroup, CreatePhysicalVolume, VgCreate, CreateLogicalVolume, AbandonVG
  <2> QED
    BY <2>1 DEF DiskLoop
<1>10. CASE LoopEnd
  <2>1. /\ active' = active /\ running' = running /\ foreign' = foreign /\ ~torn /\ ~dirty
    BY <1>1, <1>10 DEF LoopEnd, stack
  <2>2. CASE pc' \in {"raid", "vg", "vgcreate"}
    BY <2>2 DEF DiskLoop
  <2>3. CASE pc = "vgchange" /\ i > Len(VGs) /\ pc' = "pvremove"
    <3>1. \A k \in 1..Len(VGs) : VGs[k].name \notin active
      <4>1. 1..Len(VGs) \subseteq 1..(i - 1)
        BY <1>0, <2>3
      <4> QED
        BY <2>1, <2>3, <4>1 DEF TornDown
    <3>2. \A v \in active : VGSeen(v)
      BY <2>1 DEF Sound
    <3>3. active = {}
      BY <3>1, <3>2, DocVGs DEF VGSeen
    <3> QED
      BY <2>1, <2>3, <3>3 DEF DiskLoop
  <2>4. CASE pc = "pvremove" /\ pc' = "pvremove"
    BY <2>1, <2>4 DEF DiskLoop, TornDown
  <2>5. CASE pc = "pvremove" /\ pc' = "stop" /\ i' = 1
    BY <2>1, <2>5 DEF DiskLoop, TornDown
  <2>6. CASE pc = "zero" /\ pc' = "stop" /\ i' = i + 1
    BY <1>0, <2>1, <2>6 DEF DiskLoop, TornDown
  <2>7. CASE pc = "stop" /\ i > Len(RAIDs) /\ pc' = "inspect"
    <3>1. \A k \in 1..Len(RAIDs) : RAIDs[k].name \notin running \ foreign
      <4>1. 1..Len(RAIDs) \subseteq 1..(i - 1)
        BY <1>0, <2>7
      <4> QED
        BY <2>1, <2>7, <4>1 DEF TornDown
    <3>2. running \subseteq foreign
      BY <3>1, DocRAIDs DEF Sound
    <3> QED
      BY <2>1, <2>7, <3>2 DEF DiskLoop, TornDown
  <2> QED
    BY <1>10, <2>2, <2>3, <2>4, <2>5, <2>6, <2>7 DEF LoopEnd
<1>11. CASE Finish \/ Kill \/ Reboot
  <2>1. pc' \in {"done", "idle"}
    BY <1>11 DEF Finish, Kill, Reboot
  <2> QED
    BY <2>1 DEF DiskLoop
<1>12. CASE Start
  <2>1. pc' = "vgchange" /\ i' = 1
    BY <1>12 DEF Start, Begin
  <2> QED
    BY <2>1 DEF DiskLoop
<1>13. CASE Finalize \/ UNCHANGED vars
  <2>1. /\ active' = active /\ running' = running /\ foreign' = foreign /\ ~torn /\ ~dirty
        /\ pc' = pc /\ i' = i
    BY <1>1, <1>13 DEF Finalize, stack, vars, proc
  <2> QED
    BY <2>1 DEF DiskLoop, TornDown
<1> QED
  BY <1>2, <1>3, <1>4, <1>5, <1>6, <1>7, <1>8, <1>9, <1>10, <1>11, <1>12, <1>13 DEF Next, Step

\* A plain host stays one.
LEMMA OrderlyStep ==
    ASSUME TypeOK, IndexOK, Orderly, [Next]_vars
    PROVE  Orderly'
<1> SUFFICES ASSUME Plain, foreign = {}, mounted = {}, \A x \in PVDevice : content[x] # FS
             PROVE  foreign' = {} /\ mounted' = {} /\ \A x \in PVDevice : content'[x] # FS
  BY DEF Orderly
<1>0. None # FS /\ Orphan # FS /\ FS \notin VG
  BY DistinctAssumption
<1>1. CASE UNCHANGED stack
  BY <1>1 DEF stack
<1>2. CASE RemoveVolumeGroup \/ RemovePhysicalVolume \/ Wipe \/ CreatePhysicalVolume
  BY <1>0, <1>2 DEF RemoveVolumeGroup, RemovePhysicalVolume, Wipe, ZeroHead, CreatePhysicalVolume, Label
<1>3. CASE VgCreate
  <2>1. VGs[i].name \in VG
    BY <1>3, MetadataTypes DEF VgCreate, IndexOK, TypeOK, ProcType
  <2> QED
    BY <1>0, <1>3, <2>1 DEF VgCreate, Label
<1>4. CASE DeactivateVolumeGroup \/ StopRAID \/ ZeroSuperblock \/ PartitionDisk
           \/ CreateRAID \/ CreateLogicalVolume
  BY <1>4 DEF DeactivateVolumeGroup, StopRAID, ZeroSuperblock, PartitionDisk, CreateRAID,
              CreateLogicalVolume
<1>5. CASE InspectDisk \/ CreateVolumeGroup \/ LoopEnd \/ Finish \/ Start \/ Kill \/ Finalize
           \/ UNCHANGED vars
  BY <1>1, <1>5 DEF InspectDisk, CreateVolumeGroup, LoopEnd, Finish, Start, Kill, Finalize, vars
<1>6. CASE Reboot
  <2>1. PICK a \in Assemble, r \in Rename : Boot(a, r)
    BY <1>6 DEF Reboot
  <2>2. r = FALSE
    BY DEF Plain
  <2>3. foreign' = {} /\ content' = content /\ mounted' \subseteq {m \in running' : content[m] = FS}
    BY <2>1, <2>2 DEF Boot
  <2>4. running' \subseteq PVDevice
    BY <2>1 DEF Boot, Assemblable, PVDevice
  <2> QED
    BY <2>3, <2>4
<1> QED
  BY <1>2, <1>3, <1>4, <1>5, <1>6 DEF Next, Step

\* Finish counts a run as undisturbed only if it was.
LEMMA JudgedStep ==
    ASSUME TypeOK, Judged, [Next]_vars
    PROVE  Judged'
<1> USE DEF Goto, Works, Fails, Bookkeeping, Rest, Quiet
<1>1. CASE Finish
  BY <1>1 DEF Finish, Judged
<1>2. CASE UNCHANGED vars \/ Finalize
  BY <1>2 DEF vars, proc, Finalize, Judged
<1>3. CASE Step /\ ~Finish
  <2>1. pc' \notin {"done", "off", "idle"}
    BY <1>3 DEF Step, DeactivateVolumeGroup, RemoveVolumeGroup, RemovePhysicalVolume, StopRAID,
                ZeroSuperblock, InspectDisk, Wipe, PartitionDisk, CreateRAID, CreateVolumeGroup,
                CreatePhysicalVolume, VgCreate, CreateLogicalVolume, AbandonVG, LoopEnd
  <2> QED
    BY <2>1 DEF Judged
<1>4. CASE Start \/ Kill \/ Reboot
  BY <1>4 DEF Start, Begin, Kill, Reboot, Judged
<1> QED
  BY <1>1, <1>2, <1>3, <1>4 DEF Next, Step

-----------------------------------------------------------------------------
(* ArraysUnhindered.                                                       *)

\* What a run without faults has to itself: it was undisturbed before, too,
\* and none of its calls failed.
LEMMA UndisturbedBefore ==
    ASSUME TypeOK, Step \/ Finalize \/ UNCHANGED vars, Undisturbed'
    PROVE  /\ Undisturbed /\ dev' = dev /\ cmd' = cmd /\ ~Fails
           /\ clean' >= 1 /\ pc' # "done" => clean >= 1
           /\ Assured' => Assured
<1> USE DEF Goto, Works, Bookkeeping, Rest, Quiet
<1>1. cmd' = cmd /\ ~dirty' /\ ~torn' /\ ~Fails
  <2>1. cmd' = cmd
    BY DEF Step, DeactivateVolumeGroup, RemoveVolumeGroup, RemovePhysicalVolume, StopRAID,
           ZeroSuperblock, InspectDisk, Wipe, PartitionDisk, CreateRAID, CreateVolumeGroup,
           CreatePhysicalVolume, VgCreate, CreateLogicalVolume, LoopEnd, Finish,
           Finalize, vars, proc
  <2> QED
    BY <2>1 DEF Undisturbed, Fails
<1>2. ~dirty
  <2>1. dirty => dirty'
    BY DEF Step, DeactivateVolumeGroup, RemoveVolumeGroup, RemovePhysicalVolume, StopRAID,
           ZeroSuperblock, InspectDisk, Wipe, PartitionDisk, CreateRAID, CreateVolumeGroup,
           CreatePhysicalVolume, VgCreate, CreateLogicalVolume, LoopEnd, Finish,
           Finalize, vars, proc, Fails
  <2> QED
    BY <1>1, <2>1
<1>3. ~torn
  <2>1. torn => torn'
    BY DEF Step, DeactivateVolumeGroup, RemoveVolumeGroup, RemovePhysicalVolume, StopRAID,
           ZeroSuperblock, InspectDisk, Wipe, PartitionDisk, CreateRAID, CreateVolumeGroup,
           CreatePhysicalVolume, VgCreate, CreateLogicalVolume, LoopEnd, Finish,
           Finalize, vars, proc
  <2> QED
    BY <1>1, <2>1
<1>4. dev' = dev
  <2>1. CASE Wipe
    <3>1. dev' = IF dev[Disks[i].device] = "absent"
                 THEN [dev EXCEPT ![Disks[i].device] = "file"] ELSE dev
      BY <2>1 DEF Wipe
    <3>2. dev' # dev => \E d \in Disk : dev'[d] = "file"
      BY <3>1 DEF TypeOK, StackType
    <3> QED
      BY <3>2 DEF Undisturbed, Whole
  <2>2. CASE ~Wipe
    BY <2>2 DEF Step, DeactivateVolumeGroup, RemoveVolumeGroup, RemovePhysicalVolume, StopRAID,
           ZeroSuperblock, InspectDisk, PartitionDisk, CreateRAID, CreateVolumeGroup,
           CreatePhysicalVolume, VgCreate, CreateLogicalVolume, LoopEnd, Finish,
           Finalize, vars, stack
  <2> QED
    BY <2>1, <2>2
<1>5. Undisturbed
  BY <1>1, <1>2, <1>3, <1>4 DEF Undisturbed, Whole
<1>6. (clean' >= 1 /\ pc' # "done" => clean >= 1) /\ (Assured' => Assured)
  <2>1. CASE Finish
    BY <2>1 DEF Finish, Assured, TypeOK, ProcType
  <2>2. CASE ~Finish
    <3>1. clean' = clean /\ (pc = "done" => pc' = "done")
      BY <2>2 DEF Step, DeactivateVolumeGroup, RemoveVolumeGroup, RemovePhysicalVolume, StopRAID,
             ZeroSuperblock, InspectDisk, Wipe, PartitionDisk, CreateRAID, CreateVolumeGroup,
             CreatePhysicalVolume, VgCreate, CreateLogicalVolume, LoopEnd,
             Finalize, vars, proc
    <3> QED
      BY <3>1 DEF Assured, TypeOK, ProcType
  <2> QED
    BY <2>1, <2>2
<1> QED
  BY <1>1, <1>4, <1>5, <1>6

\* Teardown logs nothing vital, and leaves the arrays alone until it comes
\* to stop them.
LEMMA TeardownArrays ==
    ASSUME TypeOK, ArraysUnhindered, Undisturbed',
           \/ DeactivateVolumeGroup \/ RemoveVolumeGroup \/ RemovePhysicalVolume
           \/ StopRAID \/ ZeroSuperblock
    PROVE  ArraysUnhindered'
<1> USE DEF Goto, Bookkeeping, Rest, Quiet, Log
<1>1. /\ pc' \in {"vgremove", "vgchange", "pvremove", "zero"}
      /\ errs' \subseteq errs \cup {"stop"}
      /\ pc \in {"vgchange", "vgremove", "pvremove", "stop", "zero"}
  BY DEF DeactivateVolumeGroup, RemoveVolumeGroup, RemovePhysicalVolume, StopRAID, ZeroSuperblock
<1>2. Undisturbed /\ Silent /\ (clean' >= 1 => clean >= 1)
  BY <1>1, UndisturbedBefore DEF Step, ArraysUnhindered, VGPhase
<1>3. Silent'
  BY <1>1, <1>2 DEF Silent, Vital
<1>4. CASE pc' = "zero"
  BY <1>3, <1>4 DEF ArraysUnhindered, VGPhase
<1>5. CASE pc' # "zero" /\ clean >= 1
  <2>1. /\ pc \in {"vgchange", "vgremove", "pvremove"}
        /\ table' = table /\ nodes' = nodes /\ running' = running /\ sb' = sb
    BY <1>5 DEF DeactivateVolumeGroup, RemoveVolumeGroup, RemovePhysicalVolume, StopRAID, ZeroSuperblock
  <2>2. Standing
    BY <1>2, <1>5, <2>1 DEF ArraysUnhindered
  <2>3. Standing'
    BY <2>1, <2>2 DEF Standing, DisksDone, RAIDsDone
  <2> QED
    BY <1>1, <1>3, <2>3 DEF ArraysUnhindered, VGPhase
<1> QED
  BY <1>1, <1>2, <1>3, <1>4, <1>5 DEF ArraysUnhindered, VGPhase

\* Nothing sits on a disk whose head is zeroed and whose arrays are stopped.
LEMMA EmptiedIdle ==
    ASSUME TypeOK, Sound, NEW k \in 1..i, Emptied(i), active = {}
    PROVE  ~DiskBusy(Disks[k].device)
<1> SUFFICES ASSUME NEW p \in PartsOn(Disks[k].device), Claimed(p)
             PROVE  FALSE
  BY DEF DiskBusy
<1>1. p \notin mounted
  BY DistinctAssumption DEF PartsOn, TypeOK, StackType
<1> QED
  BY <1>1 DEF Claimed, Emptied

\* The disk loop: no disk is in use, and its table is written.
LEMMA DisksArrays ==
    ASSUME Feasible, Wiped \/ Plain, TypeOK, IndexOK, Sound, TornDown, Orderly,
           ArraysUnhindered, Undisturbed', InspectDisk \/ Wipe \/ PartitionDisk
    PROVE  ArraysUnhindered'
<1> DEFINE d == Disks[i].device
<1> USE DEF Goto, Works, Bookkeeping, Rest, Quiet, Log
<1>0. i \in Nat \ {0} /\ Len(Disks) \in Nat /\ i \in 1..Len(Disks)
  BY MetadataTypes DEF TypeOK, ProcType, IndexOK, InspectDisk, Wipe, PartitionDisk
<1>1. /\ Undisturbed /\ dev' = dev /\ cmd = "partition" /\ cmd' = cmd /\ ~Fails /\ Silent
      /\ ~dirty /\ ~torn
  <2>1. pc \in DiskLoop
    BY DEF InspectDisk, Wipe, PartitionDisk, DiskLoop
  <2> QED
    BY <2>1, UndisturbedBefore DEF Step, Undisturbed, DiskLoop, ArraysUnhindered, VGPhase
<1>2. d \in Disk /\ dev[d] = "block"
  BY <1>0, <1>1, DocDisks DEF Undisturbed, Whole
<1>3. CASE InspectDisk
  <2>1. /\ pc = "inspect" /\ i' = i /\ stack' = stack
        /\ \/ pc' = "wipe"
           \/ pc' = "table" /\ ~Disks[i].wipeTable
    BY <1>1, <1>3 DEF InspectDisk
  <2>2. held' \subseteq held \cup {d} /\ errs' \subseteq errs \cup {"examine"}
    BY <1>1, <1>2, <1>3 DEF InspectDisk
  <2>3. Silent'
    BY <1>1, <2>2 DEF Silent, Vital
  <2>4. Emptied(i - 1) /\ Closed(i - 1)
    BY <1>1, <2>1 DEF ArraysUnhindered
  <2>5. Emptied(i - 1)'
    BY <2>1, <2>4 DEF Emptied, stack
  <2>6. ClosedOthers'
    BY <2>1, <2>2, <2>4 DEF Closed, ClosedOthers
  <2>7. pc' = "table" => Emptied(i)'
    <3> SUFFICES ASSUME ~Disks[i].wipeTable
                 PROVE  Emptied(i)'
      BY <2>1
    <3>1. ~Wiped
      <4>1. i \in DOMAIN Disks
        BY <1>0, MetadataAssumption
      <4> QED
        BY <4>1 DEF Wiped
    <3>2. running = {}
      BY <1>1, <2>1, <3>1 DEF TornDown, DiskLoop, Orderly
    <3>3. running' = {}
      BY <2>1, <3>2 DEF stack
    <3> QED
      BY <3>1, <3>3 DEF Emptied
  <2> QED
    BY <2>1, <2>3, <2>5, <2>6, <2>7 DEF ArraysUnhindered, VGPhase
<1>4. CASE Wipe
  <2>1. /\ pc = "wipe" /\ pc' = "table" /\ i' = i /\ errs' = errs /\ held' = held /\ running' = running
        /\ content' = Label(Zeroed(d), None)
    BY <1>1, <1>2, <1>4 DEF Wipe, ZeroHead
  <2>2. Emptied(i - 1) /\ ClosedOthers
    BY <1>1, <2>1 DEF ArraysUnhindered
  <2>3. ~DiskBusy(d)
    BY <1>4, WipesIdle DEF Undisturbed
  <2>4. Emptied(i)'
    <3> SUFFICES ASSUME NEW k \in 1..i
                 PROVE  /\ \A m \in running : Members(m) \cap PartsOn(Disks[k].device) = {}
                        /\ Wiped => \A x \in Zeroed(Disks[k].device) : content'[x] = None
      BY <2>1 DEF Emptied, Members, PartsOn, Zeroed, Heads
    <3>1. \A x \in Zeroed(Disks[k].device) : x \in PVDevice
      BY DEF Zeroed, PartsOn, PVDevice
    <3>2. CASE k = i
      BY <2>1, <2>3, <3>1, <3>2 DEF DiskBusy, Claimed, Label
    <3>3. CASE k \in 1..(i - 1)
      BY <2>1, <2>2, <3>1, <3>3 DEF Emptied, Label
    <3> QED
      BY <1>0, <3>2, <3>3
  <2>5. ClosedOthers'
    BY <2>1, <2>2 DEF ClosedOthers
  <2> QED
    BY <1>1, <2>1, <2>4, <2>5 DEF ArraysUnhindered, VGPhase, Silent
<1>5. CASE PartitionDisk
  <2>1. pc = "table" /\ pc' = "inspect" /\ i' = i + 1 /\ running' = running /\ content' = content
    BY <1>5 DEF PartitionDisk
  <2>2. Emptied(i) /\ ClosedOthers /\ active = {}
    BY <1>1, <2>1 DEF ArraysUnhindered, TornDown, DiskLoop
  <2>3. ~DiskBusy(d)
    BY <1>0, <2>2, EmptiedIdle
  <2>4. d \notin held /\ held' = held /\ errs' = errs
    BY <1>1, <1>2, <1>5, <2>3 DEF PartitionDisk, Opens, Undisturbed
  <2>5. i' - 1 = i
    BY <1>0, <2>1
  <2>6. Emptied(i - 1)'
    BY <2>1, <2>2, <2>5 DEF Emptied
  <2>7. Closed(i - 1)'
    <3>1. \A k \in 1..i : k = i \/ k \in 1..(i - 1)
      BY <1>0
    <3> QED
      BY <2>2, <2>4, <2>5, <3>1 DEF Closed, ClosedOthers
  <2> QED
    BY <1>1, <2>1, <2>4, <2>6, <2>7 DEF ArraysUnhindered, VGPhase, Silent
<1> QED
  BY <1>3, <1>4, <1>5

\* Every partition shows, once the tables of all disks are written.
LEMMA NodesShown ==
    ASSUME Feasible, DisksDone(Len(Disks))
    PROVE  \A p \in Part : HasNode(p)
<1>1. \A p \in Part : PartDisk[p] \in Disk
  BY MetadataAssumption
<1> QED
  BY <1>1, DocDisks DEF DisksDone, HasNode

\* Every array can be created: its members show and none is taken.
LEMMA RAIDArrays ==
    ASSUME Feasible, TypeOK, IndexOK, ArraysUnhindered, Progress, Undisturbed', CreateRAID
    PROVE  ArraysUnhindered'
<1> DEFINE r == RAIDs[i]
           ds == Elems(AllDevices(r))
<1> USE DEF Goto, Works, Bookkeeping, Rest, Quiet, Log
<1>0. i \in Nat \ {0} /\ i \in 1..Len(RAIDs) /\ Len(RAIDs) \in Nat
  BY MetadataTypes DEF TypeOK, ProcType, CreateRAID
<1>1. /\ Undisturbed /\ cmd = "partition" /\ ~Fails /\ Silent
      /\ pc = "raid" /\ pc' = "raid" /\ i' = i + 1
  <2>1. pc = "raid" /\ pc' = "raid" /\ i' = i + 1
    BY DEF CreateRAID
  <2> QED
    BY <2>1, UndisturbedBefore DEF Step, Undisturbed, ArraysUnhindered, VGPhase
<1>2. /\ Clear /\ active = {} /\ running \subseteq NamesOf(RAIDs, i - 1)
      /\ DisksDone(Len(Disks))
  BY <1>1 DEF ArraysUnhindered, Progress, DiskProgress
<1>3. \A k \in 1..(i - 1) : /\ k \in 1..Len(RAIDs) /\ k # i
                            /\ RAIDs[k].name # r.name
                            /\ Members(RAIDs[k].name) \cap ds = {}
  <2> SUFFICES ASSUME NEW k \in 1..(i - 1)
               PROVE  /\ k \in 1..Len(RAIDs) /\ k # i
                      /\ RAIDs[k].name # r.name
                      /\ Members(RAIDs[k].name) \cap ds = {}
    OBVIOUS
  <2>1. k \in 1..Len(RAIDs) /\ k # i
    BY <1>0
  <2>2. Members(r.name) = ds
    BY <1>0, DocRAIDs
  <2> QED
    BY <1>0, <2>1, <2>2, DocRAIDs
<1>4. ds \subseteq Part /\ ValidateRAID(r)
  <2>1. i \in DOMAIN RAIDs
    BY <1>0, MetadataAssumption
  <2> QED
    BY <1>0, <2>1, MetadataTypes DEF Feasible
<1>5. r.name \notin running
  BY <1>2, <1>3 DEF NamesOf
<1>6. \A p \in ds : HasNode(p) /\ ~Claimed(p) /\ ~InOurWay(p)
  BY <1>2, <1>3, <1>4, NodesShown DEF Claimed, Clear, NamesOf, InOurWay
<1>7. errs' = errs /\ running' = running \cup {r.name}
  BY <1>1, <1>4, <1>5, <1>6 DEF CreateRAID, CanCreateArray, CreateArray
<1>8. /\ mounted' = mounted /\ foreign' = foreign /\ held' = held /\ active' = active
  BY DEF CreateRAID
<1>9. running' \subseteq NamesOf(RAIDs, i)
  BY <1>0, <1>2, <1>7 DEF NamesOf
<1>10. i' - 1 = i
  BY <1>0, <1>1
<1>11. (running \subseteq NamesOf(RAIDs, i - 1))'
  BY <1>9, <1>10 DEF NamesOf
<1> QED
  BY <1>1, <1>2, <1>7, <1>8, <1>11 DEF ArraysUnhindered, VGPhase, Silent, Clear

\* On its way from one loop to the next, the run finds what the loop before
\* has left, and the next run what this one has.
LEMMA ControlArrays ==
    ASSUME Feasible, TypeOK, IndexOK, Sound, TornDown, ArraysUnhindered, Progress, Undisturbed',
           LoopEnd \/ Finish
    PROVE  ArraysUnhindered'
<1> USE DEF Goto
<1>0. /\ i \in Nat \ {0} /\ foreign \subseteq running
      /\ Len(Disks) \in Nat /\ Len(RAIDs) \in Nat /\ held \subseteq Disk
  BY MetadataTypes DEF TypeOK, ProcType, StackType
<1>1. /\ Undisturbed /\ cmd = "partition" /\ ~dirty /\ ~torn
      /\ (clean' >= 1 /\ pc' # "done" => clean >= 1)
      /\ errs' = errs /\ stack' = stack
      /\ pc \notin VGPhase => Silent'
  <2>1. pc \notin {"off", "idle", "done"} /\ errs' = errs /\ stack' = stack
    BY DEF LoopEnd, Finish
  <2> QED
    BY <2>1, UndisturbedBefore DEF Step, Undisturbed, ArraysUnhindered, Silent
<1>2. Standing => Standing'
  BY <1>1 DEF Standing, DisksDone, RAIDsDone, stack
<1>3. /\ running' = running /\ foreign' = foreign /\ active' = active /\ mounted' = mounted
      /\ content' = content
  BY <1>1 DEF stack
<1>4. CASE pc \in {"vgchange", "pvremove"} /\ pc' = "pvremove"
  BY <1>1, <1>2, <1>4 DEF ArraysUnhindered, VGPhase
<1>5. CASE pc \in {"pvremove", "zero"} /\ pc' = "stop"
  BY <1>1, <1>5 DEF ArraysUnhindered, VGPhase
<1>6. CASE pc = "stop" /\ pc' = "inspect" /\ i' = 1
  BY <1>1, <1>6 DEF ArraysUnhindered, VGPhase, Emptied, Closed
<1>7. CASE pc = "inspect" /\ i > Len(Disks) /\ pc' = "raid" /\ i' = 1 /\ held' = held
  <2>1. Emptied(i - 1) /\ Closed(i - 1) /\ active = {}
    BY <1>1, <1>7 DEF ArraysUnhindered, TornDown, DiskLoop
  <2>2. \A d \in Disk : \E k \in 1..(i - 1) : Disks[k].device = d
    <3>1. 1..Len(Disks) \subseteq 1..(i - 1)
      BY <1>0, <1>7
    <3> QED
      BY <3>1, DocDisks
  <2>3. held = {}
    BY <1>0, <2>1, <2>2 DEF Closed
  <2>4. running = {}
    <3> SUFFICES ASSUME NEW m \in running PROVE FALSE
      OBVIOUS
    <3>1. PICK p : p \in Members(m)
      BY DEF Sound
    <3>2. p \in Part /\ PartDisk[p] \in Disk
      BY <3>1, DocRAIDs, MetadataAssumption
    <3>3. PICK k \in 1..(i - 1) : Disks[k].device = PartDisk[p]
      BY <2>2, <3>2
    <3>4. p \in PartsOn(Disks[k].device)
      BY <3>2, <3>3 DEF PartsOn
    <3> QED
      BY <2>1, <3>1, <3>4 DEF Emptied
  <2>5. Clear
    BY <1>0, <2>3, <2>4 DEF Clear, Sound
  <2> QED
    BY <1>1, <1>3, <1>7, <2>1, <2>4, <2>5 DEF ArraysUnhindered, VGPhase, Clear
<1>8. CASE pc = "raid" /\ i > Len(RAIDs) /\ pc' = "vg" /\ held' = held
  <2>1. Clear /\ Silent
    BY <1>1, <1>8 DEF ArraysUnhindered, VGPhase
  <2>2. DisksDone(Len(Disks)) /\ RAIDsDone(i - 1)
    BY <1>1, <1>8, <2>1 DEF Progress, DiskProgress, RAIDProgress
  <2>3. i - 1 = Len(RAIDs)
    BY <1>0, <1>8 DEF IndexOK
  <2>4. Standing
    BY <2>2, <2>3 DEF Standing
  <2> QED
    BY <1>2, <1>3, <1>8, <2>1, <2>4 DEF ArraysUnhindered, VGPhase, Clear
<1>9. CASE pc \in {"pvcreate", "lvcreate"} /\ pc' \in {"vgcreate", "vg"} /\ held' = held
  BY <1>1, <1>2, <1>3, <1>9 DEF ArraysUnhindered, VGPhase, Clear
<1>10. CASE pc = "vg" /\ pc' = "done"
  BY <1>1, <1>2, <1>10 DEF ArraysUnhindered, VGPhase
<1> QED
  BY <1>1, <1>4, <1>5, <1>6, <1>7, <1>8, <1>9, <1>10 DEF LoopEnd, Finish

\* ArraysUnhindered is invariant.
LEMMA ArraysStep ==
    ASSUME Feasible, Wiped \/ Plain, Inv, Sound, TornDown, Orderly, Judged, ArraysUnhindered,
           [Next]_vars
    PROVE  ArraysUnhindered'
<1> SUFFICES ASSUME Undisturbed' PROVE ArraysUnhindered'
  BY DEF ArraysUnhindered
<1> USE DEF Inv
<1>1. CASE \/ DeactivateVolumeGroup \/ RemoveVolumeGroup \/ RemovePhysicalVolume
           \/ StopRAID \/ ZeroSuperblock
  BY <1>1, TeardownArrays
<1>2. CASE InspectDisk \/ Wipe \/ PartitionDisk
  BY <1>2, DisksArrays
<1>3. CASE CreateRAID
  BY <1>3, RAIDArrays
<1>4. CASE CreateVolumeGroup \/ CreatePhysicalVolume \/ VgCreate \/ CreateLogicalVolume
  <2>1. /\ pc \in VGPhase /\ pc' \in VGPhase
        /\ table' = table /\ nodes' = nodes /\ sb' = sb /\ running' = running
        /\ mounted' = mounted /\ foreign' = foreign /\ held' = held
    BY <1>4 DEF CreateVolumeGroup, CreatePhysicalVolume, VgCreate, CreateLogicalVolume, AbandonVG, VGPhase,
                Goto, Rest, stack
  <2>2. Undisturbed
    BY <1>4, UndisturbedBefore DEF Step
  <2>3. Clear /\ Standing
    BY <2>1, <2>2 DEF ArraysUnhindered
  <2>4. Clear' /\ Standing'
    BY <2>1, <2>3 DEF Clear, Standing, DisksDone, RAIDsDone
  <2> QED
    BY <2>1, <2>4 DEF ArraysUnhindered, VGPhase
<1>5. CASE LoopEnd \/ Finish
  BY <1>5, ControlArrays
<1>6. CASE Start
  <2>1. /\ pc' = "vgchange" /\ errs' = {} /\ clean' = clean /\ stack' = stack /\ torn' = torn
        /\ pc \in {"idle", "done"}
    BY <1>6 DEF Start, Begin, Goto
  <2>2. Silent'
    BY <2>1 DEF Silent
  <2>3. clean >= 1 => Standing
    <3> SUFFICES ASSUME clean >= 1 PROVE Standing
      OBVIOUS
    <3>1. pc = "done" /\ cmd = "partition" /\ ~dirty
      BY <2>1 DEF Judged
    <3>2. Undisturbed
      BY <2>1, <3>1 DEF Undisturbed, Whole, stack
    <3> QED
      BY <3>1, <3>2 DEF ArraysUnhindered
  <2>4. Standing => Standing'
    BY <2>1 DEF Standing, DisksDone, RAIDsDone, stack
  <2> QED
    BY <2>1, <2>2, <2>3, <2>4 DEF ArraysUnhindered, VGPhase
<1>7. CASE Kill \/ Reboot
  BY <1>7 DEF Kill, Reboot, Goto, ArraysUnhindered, VGPhase
<1>8. CASE Finalize \/ UNCHANGED vars
  <2>1. /\ pc' = pc /\ i' = i /\ errs' = errs /\ clean' = clean /\ stack' = stack /\ held' \subseteq held
    BY <1>8 DEF Finalize, vars, proc
  <2>2. Undisturbed
    BY <1>8, UndisturbedBefore
  <2>3. Standing => Standing'
    BY <2>1 DEF Standing, DisksDone, RAIDsDone, stack
  <2> QED
    BY <2>1, <2>2, <2>3 DEF ArraysUnhindered, stack, Silent, Emptied, Closed, ClosedOthers, Clear, NamesOf
<1> QED
  BY <1>1, <1>2, <1>3, <1>4, <1>5, <1>6, <1>7, <1>8 DEF Next, Step

-----------------------------------------------------------------------------
(* Erased and GroupsUnhindered.                                            *)

\* The devices of a volume group show, once tables and arrays are made.
LEMMA DevicesShown ==
    ASSUME Feasible, Standing, foreign = {}, NEW k \in 1..Len(VGs)
    PROVE  \A x \in Elems(VGs[k].pvs) : HasNode(x)
<1> SUFFICES ASSUME NEW x \in Elems(VGs[k].pvs)
             PROVE  HasNode(x)
  OBVIOUS
<1>1. CASE x \in Part
  BY <1>1, NodesShown DEF Standing
<1>2. CASE x \in Array /\ \E r \in 1..Len(RAIDs) : RAIDs[r].name = x
  BY <1>2, DistinctAssumption DEF RAIDsDone, HasNode, Standing
<1> QED
  BY <1>1, <1>2, DocVGs

\* No device of a volume group is a member of an array.
LEMMA NoMember ==
    ASSUME Feasible, NEW k \in 1..Len(VGs), NEW x \in Elems(VGs[k].pvs), NEW m
    PROVE  x \notin Members(m)
<1>1. x \in Part => x \notin Members(m)
  BY DocVGs, DistinctAssumption
<1>2. Members(m) \subseteq Part
  BY DocRAIDs
<1> QED
  BY <1>1, <1>2

\* On a plain host whose arrays stand, `pvremove` succeeds for every PV.
LEMMA ErasedStep ==
    ASSUME Feasible, TypeOK, IndexOK, TornDown, Orderly, ArraysUnhindered, Erased, [Next]_vars
    PROVE  Erased'
<1> USE DEF Goto, Bookkeeping, Rest, Quiet
<1> SUFFICES ASSUME Undisturbed', Plain, clean' >= 1
             PROVE  /\ pc' = "pvremove" => \A k \in 1..Len(VGs) : \A n \in DOMAIN VGs[k].pvs :
                         k < i' \/ (k = i' /\ n < j') => content'[VGs[k].pvs[n]] = None
                    /\ pc' \in {"stop", "zero"} \cup DiskLoop => Blank(1)'
  BY DEF Erased
<1>0. /\ i \in Nat \ {0} /\ j \in Nat \ {0} /\ Len(VGs) \in Nat
      /\ content \in [PVDevice -> Content]
      /\ \A k \in 1..Len(VGs) : /\ DOMAIN VGs[k].pvs = 1..Len(VGs[k].pvs) /\ Len(VGs[k].pvs) \in Nat
                                /\ \A n \in DOMAIN VGs[k].pvs : VGs[k].pvs[n] \in PVDevice
  <2>1. \A k \in 1..Len(VGs) : VGs[k].pvs \in Seq(PVDevice)
    BY MetadataTypes
  <2> QED
    BY <2>1, MetadataTypes DEF TypeOK, ProcType, StackType
<1>1. CASE RemovePhysicalVolume
  <2> DEFINE x == VGs[i].pvs[j]
  <2>1. /\ pc = "pvremove" /\ pc' = "pvremove" /\ i' = i /\ j' = j + 1
        /\ i \in 1..Len(VGs) /\ j \in DOMAIN VGs[i].pvs /\ x \in Elems(VGs[i].pvs) /\ x \in PVDevice
    BY <1>0, <1>1 DEF RemovePhysicalVolume, Elems
  <2>2. Undisturbed /\ clean >= 1 /\ ~Fails
    BY <1>1, <2>1, UndisturbedBefore DEF Step
  <2>3. /\ Standing /\ foreign = {} /\ mounted = {} /\ active = {} /\ content[x] # FS
    BY <2>1, <2>2 DEF ArraysUnhindered, TornDown, Undisturbed, Orderly
  <2>4. HasNode(x) /\ ~Claimed(x)
    BY <2>1, <2>3, DevicesShown, NoMember DEF Claimed
  <2>5. content[x] \in {None, Orphan} \cup VG
    BY <1>0, <2>1, <2>3 DEF Content
  <2>6. \A y \in PVDevice : content'[y] = IF y = x THEN None ELSE content[y]
    <3>1. content' = IF CanRemovePV(x) THEN Label({x}, None) ELSE content
      BY <1>1, <2>2 DEF RemovePhysicalVolume
    <3>2. CASE CanRemovePV(x)
      BY <3>1, <3>2 DEF Label
    <3>3. CASE content[x] = None /\ content' = content
      BY <3>3
    <3> QED
      BY <2>4, <2>5, <3>1, <3>2, <3>3 DEF CanRemovePV
  <2>7. ASSUME NEW k \in 1..Len(VGs), NEW n \in DOMAIN VGs[k].pvs, k < i \/ (k = i /\ n < j + 1)
        PROVE  content'[VGs[k].pvs[n]] = None
    <3>1. CASE k = i /\ n = j
      BY <1>0, <2>6, <3>1
    <3>2. CASE k < i \/ (k = i /\ n < j)
      BY <1>0, <2>1, <2>2, <2>6, <3>2 DEF Erased
    <3> QED
      BY <1>0, <2>1, <2>7, <3>1, <3>2
  <2> QED
    BY <2>1, <2>7 DEF DiskLoop
<1>2. CASE StopRAID \/ ZeroSuperblock \/ InspectDisk \/ PartitionDisk
  <2>1. /\ pc \in {"stop", "zero"} \cup DiskLoop /\ pc' # "pvremove" /\ pc' # "done" /\ content' = content
    BY <1>2 DEF StopRAID, ZeroSuperblock, InspectDisk, PartitionDisk, DiskLoop, stack
  <2>2. Undisturbed /\ clean >= 1
    BY <1>2, <2>1, UndisturbedBefore DEF Step
  <2> QED
    BY <2>1, <2>2 DEF Erased, Blank
<1>3. CASE Wipe
  <2>1. /\ pc = "wipe" /\ pc' \in {"inspect", "table"}
        /\ \/ content' = content
           \/ content' = Label(Zeroed(Disks[i].device), None)
    BY <1>3 DEF Wipe, ZeroHead
  <2>2. Undisturbed /\ clean >= 1
    BY <1>3, <2>1, UndisturbedBefore DEF Step
  <2>3. \A k \in 1..Len(VGs) : Elems(VGs[k].pvs) \subseteq PVDevice
    BY MetadataTypes
  <2>4. Blank(1)
    BY <2>1, <2>2 DEF Erased, DiskLoop
  <2> QED
    BY <2>1, <2>3, <2>4 DEF Blank, Label
<1>4. CASE LoopEnd
  <2>1. content' = content /\ pc' # "done"
    BY <1>4 DEF LoopEnd, stack
  <2>2. Undisturbed /\ clean >= 1
    BY <1>4, <2>1, UndisturbedBefore DEF Step
  <2>3. CASE pc' \in {"raid", "vg", "vgcreate"}
    BY <2>3 DEF DiskLoop
  <2>4. CASE pc = "vgchange" /\ pc' = "pvremove" /\ i' = 1 /\ j' = 1
    BY <1>0, <2>4 DEF DiskLoop
  <2>5. CASE pc = "pvremove" /\ i <= Len(VGs) /\ j > Len(VGs[i].pvs) /\ pc' = "pvremove" /\ i' = i + 1 /\ j' = 1
    <3> SUFFICES ASSUME NEW k \in 1..Len(VGs), NEW n \in DOMAIN VGs[k].pvs, k < i + 1 \/ (k = i + 1 /\ n < 1)
                 PROVE  content[VGs[k].pvs[n]] = None
      BY <2>1, <2>5 DEF DiskLoop
    <3>1. k < i \/ (k = i /\ n < j)
      BY <1>0, <2>5
    <3> QED
      BY <2>2, <2>5, <3>1 DEF Erased
  <2>6. CASE pc = "pvremove" /\ i > Len(VGs) /\ pc' = "stop"
    <3> SUFFICES ASSUME NEW k \in 1..Len(VGs), NEW n \in DOMAIN VGs[k].pvs
                 PROVE  content[VGs[k].pvs[n]] = None
      BY <2>1, <2>6 DEF DiskLoop, Blank, Elems
    <3>1. k < i
      BY <1>0, <2>6
    <3> QED
      BY <2>2, <2>6, <3>1 DEF Erased
  <2>7. CASE pc \in {"zero", "stop"} /\ pc' \in {"stop", "inspect"}
    BY <2>1, <2>2, <2>7 DEF Erased, DiskLoop, Blank
  <2> QED
    BY <1>4, <2>3, <2>4, <2>5, <2>6, <2>7 DEF LoopEnd
<1>5. CASE Finalize \/ UNCHANGED vars
  <2>1. pc' = pc /\ i' = i /\ j' = j /\ content' = content /\ clean' = clean
    BY <1>5 DEF Finalize, vars, proc, stack
  <2>2. Undisturbed
    BY <1>5, UndisturbedBefore
  <2> QED
    BY <2>1, <2>2 DEF Erased, Blank
<1>6. CASE \/ DeactivateVolumeGroup \/ RemoveVolumeGroup
           \/ CreateRAID \/ CreateVolumeGroup \/ CreatePhysicalVolume \/ VgCreate \/ CreateLogicalVolume
           \/ Finish \/ Start \/ Kill \/ Reboot
  <2>1. pc' \notin {"pvremove", "stop", "zero"} \cup DiskLoop
    BY <1>6 DEF DeactivateVolumeGroup, RemoveVolumeGroup, CreateRAID, CreateVolumeGroup,
                CreatePhysicalVolume, VgCreate, CreateLogicalVolume, AbandonVG, Finish, Start, Begin,
                Kill, Reboot, DiskLoop
  <2> QED
    BY <2>1
<1> QED
  BY <1>1, <1>2, <1>3, <1>4, <1>5, <1>6 DEF Next, Step

\* Every volume group can be created: its devices show, none is taken, and
\* none carries anything but a fresh PV label.
LEMMA VGGroups ==
    ASSUME Feasible, TypeOK, IndexOK, Sound, ArraysUnhindered, GroupsUnhindered,
           Undisturbed', Assured',
           CreateVolumeGroup \/ CreatePhysicalVolume \/ VgCreate \/ CreateLogicalVolume
    PROVE  GroupsUnhindered'
<1> DEFINE v == VGs[i].name
           xs == Elems(VGs[i].pvs)
<1> USE DEF Goto, Works, Bookkeeping, Rest, Quiet, Log
<1>0. /\ i \in Nat \ {0} /\ j \in Nat \ {0} /\ Len(VGs) \in Nat /\ i \in 1..Len(VGs)
      /\ content \in [PVDevice -> Content]
  BY MetadataTypes DEF TypeOK, ProcType, StackType, IndexOK, CreateVolumeGroup, CreatePhysicalVolume,
                       VgCreate, CreateLogicalVolume
<1>1. /\ Undisturbed /\ Assured /\ ~Fails /\ Silent
      /\ pc \in VGPhase
  <2>1. pc \in VGPhase
    BY DEF CreateVolumeGroup, CreatePhysicalVolume, VgCreate, CreateLogicalVolume, VGPhase
  <2> QED
    BY <2>1, UndisturbedBefore DEF Step, GroupsUnhindered
<1>2. /\ Clear /\ Blank(i + 1)
      /\ DisksDone(Len(Disks)) /\ RAIDsDone(Len(RAIDs))
  BY <1>1 DEF ArraysUnhindered, GroupsUnhindered, Standing
<1>4. /\ \A k \in 1..Len(VGs) : k # i => VGs[k].name # v /\ Elems(VGs[k].pvs) \cap xs = {}
      /\ PVsOf(v) = xs /\ xs \subseteq PVDevice /\ v \in VG /\ ValidateVolumeGroup(VGs[i])
      /\ Orphan \notin VG
  <2>1. \A k \in 1..Len(VGs) : k # i => VGs[k].name # v /\ Elems(VGs[k].pvs) \cap xs = {}
    BY <1>0, DocVGs
  <2>2. PVsOf(v) = xs /\ v \in VG /\ ValidateVolumeGroup(VGs[i])
    BY <1>0, DocVGs
  <2>3. xs \subseteq PVDevice
    BY <1>0, MetadataTypes
  <2> QED
    BY <2>1, <2>2, <2>3, DistinctAssumption
<1>5. \A x \in xs : HasNode(x)
  BY <1>0, <1>2, DevicesShown DEF Clear, Standing
<1>6. active \subseteq NamesOf(VGs, i - 1) => \A x \in xs : ~Claimed(x) /\ ~InOurWay(x)
  <2> SUFFICES ASSUME active \subseteq NamesOf(VGs, i - 1), NEW x \in xs
               PROVE  ~Claimed(x) /\ ~InOurWay(x)
    OBVIOUS
  <2>1. \A m : x \notin Members(m)
    BY <1>0, NoMember
  <2>2. \A w \in active : x \notin PVsOf(w)
    <3> SUFFICES ASSUME NEW k \in 1..(i - 1)
                 PROVE  x \notin PVsOf(VGs[k].name)
      BY DEF NamesOf
    <3>1. k \in 1..Len(VGs) /\ k # i
      BY <1>0
    <3> QED
      BY <1>4, <3>1, DocVGs
  <2> QED
    BY <1>2, <2>1, <2>2 DEF Claimed, Clear, InOurWay
<1>7. ASSUME NEW ys, ys \subseteq xs, NEW c, content' = Label(ys, c)
      PROVE  \A k \in (i + 1)..Len(VGs) : \A x \in Elems(VGs[k].pvs) : content'[x] = None
  <2> SUFFICES ASSUME NEW k \in (i + 1)..Len(VGs), NEW x \in Elems(VGs[k].pvs)
               PROVE  content'[x] = None
    OBVIOUS
  <2>1. k \in 1..Len(VGs) /\ k # i
    BY <1>0
  <2>2. x \notin ys /\ x \in PVDevice
    BY <1>4, <1>7, <2>1, MetadataTypes
  <2>3. content[x] = None
    BY <1>2 DEF Blank
  <2> QED
    BY <1>7, <2>2, <2>3 DEF Label
<1>8. CASE CreateVolumeGroup
  <2>1. /\ pc = "vg" /\ pc' = "pvcreate" /\ i' = i /\ j' = 1 /\ errs' = errs
        /\ content' = content /\ active' = active
    BY <1>4, <1>8 DEF CreateVolumeGroup, stack
  <2>2. Blank(i) /\ active \subseteq NamesOf(VGs, i - 1)
    BY <1>1, <2>1 DEF GroupsUnhindered
  <2>3. /\ VGs[i].pvs \in Seq(PVDevice)
        /\ \A n \in DOMAIN VGs[i].pvs : n >= 1 /\ VGs[i].pvs[n] \in xs
    BY <1>0, MetadataTypes DEF Elems
  <2>4. \A x \in xs : content[x] = None
    BY <1>0, <2>2 DEF Blank
  <2> QED
    BY <1>1, <1>2, <2>1, <2>2, <2>3, <2>4 DEF GroupsUnhindered, VGPhase, Silent, Blank, NamesOf
<1>9. CASE CreatePhysicalVolume
  <2> DEFINE x == VGs[i].pvs[j]
  <2>1. pc = "pvcreate" /\ active' = active
    BY <1>9 DEF CreatePhysicalVolume
  <2>2. /\ active \subseteq NamesOf(VGs, i - 1)
        /\ \A n \in DOMAIN VGs[i].pvs :
              content[VGs[i].pvs[n]] = Orphan \/ (n >= j /\ content[VGs[i].pvs[n]] = None)
    BY <1>1, <2>1 DEF GroupsUnhindered
  <2>3. /\ j \in DOMAIN VGs[i].pvs /\ DOMAIN VGs[i].pvs = 1..Len(VGs[i].pvs)
        /\ Len(VGs[i].pvs) \in Nat
    <3>1. VGs[i].pvs \in Seq(PVDevice)
      BY <1>0, MetadataTypes
    <3>2. j <= Len(VGs[i].pvs)
      BY <1>9 DEF CreatePhysicalVolume
    <3> QED
      BY <1>0, <3>1, <3>2
  <2>4. x \in xs
    BY <2>3 DEF Elems
  <2>5. CanCreatePV(x) /\ ~InOurWay(x)
    BY <1>5, <1>6, <2>2, <2>3, <2>4 DEF CanCreatePV
  <2>6. /\ pc' = "pvcreate" /\ i' = i /\ j' = j + 1 /\ errs' = errs
        /\ content' = Label({x}, Orphan)
    BY <1>1, <1>9, <2>5 DEF CreatePhysicalVolume
  <2>7. ASSUME NEW n \in DOMAIN VGs[i].pvs
        PROVE  \/ content'[VGs[i].pvs[n]] = Orphan
               \/ n >= j + 1 /\ content'[VGs[i].pvs[n]] = None
    <3>1. VGs[i].pvs[n] \in xs /\ VGs[i].pvs[n] \in PVDevice
      BY <1>4 DEF Elems
    <3>2. CASE n = j
      BY <2>6, <3>1, <3>2 DEF Label
    <3>3. CASE n # j
      BY <1>0, <2>2, <2>3, <2>6, <3>1, <3>3 DEF Label
    <3> QED
      BY <3>2, <3>3
  <2>8. \A k \in (i + 1)..Len(VGs) : \A y \in Elems(VGs[k].pvs) : content'[y] = None
    BY <1>7, <2>4, <2>6
  <2> QED
    BY <1>1, <1>2, <2>1, <2>2, <2>6, <2>7, <2>8
       DEF GroupsUnhindered, VGPhase, Silent, Blank, NamesOf
<1>10. CASE VgCreate
  <2>1. pc = "vgcreate" /\ active' = active
    BY <1>10 DEF VgCreate
  <2>2. /\ active \subseteq NamesOf(VGs, i - 1)
        /\ \A x \in xs : content[x] = Orphan
    BY <1>1, <2>1 DEF GroupsUnhindered
  <2>3. CanCreateVG(v, xs)
    <3>1. \A x \in PVDevice : content[x] # v
      BY <1>4, <2>2 DEF Sound
    <3> QED
      BY <1>5, <2>2, <3>1 DEF CanCreateVG
  <2>4. /\ pc' = "lvcreate" /\ i' = i /\ errs' = errs
        /\ content' = Label(xs, v)
    BY <1>1, <1>10, <2>3 DEF VgCreate
  <2>5. \A k \in (i + 1)..Len(VGs) : \A y \in Elems(VGs[k].pvs) : content'[y] = None
    BY <1>7, <2>4
  <2>6. active \subseteq NamesOf(VGs, i)
    BY <1>0, <2>2 DEF NamesOf
  <2> QED
    BY <1>1, <1>2, <2>1, <2>4, <2>5, <2>6
       DEF GroupsUnhindered, VGPhase, Silent, Blank, NamesOf
<1>11. CASE CreateLogicalVolume
  <2>1. /\ pc = "lvcreate" /\ pc' = "lvcreate" /\ i' = i /\ errs' = errs
        /\ content' = content /\ active' = active \cup {v}
    BY <1>1, <1>11 DEF CreateLogicalVolume
  <2>2. active \subseteq NamesOf(VGs, i)
    BY <1>1, <2>1 DEF GroupsUnhindered
  <2>3. v \in NamesOf(VGs, i)
    BY <1>0 DEF NamesOf
  <2> QED
    BY <1>1, <1>2, <2>1, <2>2, <2>3
       DEF GroupsUnhindered, VGPhase, Silent, Blank, NamesOf
<1> QED
  BY <1>8, <1>9, <1>10, <1>11

\* GroupsUnhindered is invariant.
LEMMA GroupsStep ==
    ASSUME Feasible, Wiped \/ Plain, TypeOK, IndexOK, Sound, ArraysUnhindered, Erased,
           GroupsUnhindered, [Next]_vars
    PROVE  GroupsUnhindered'
<1> USE DEF Goto
<1> SUFFICES ASSUME Undisturbed', Assured' PROVE GroupsUnhindered'
  BY DEF GroupsUnhindered
<1>0. /\ i \in Nat \ {0} /\ j \in Nat \ {0} /\ Len(VGs) \in Nat /\ Len(Disks) \in Nat
  BY MetadataTypes DEF TypeOK, ProcType
<1>1. CASE \/ DeactivateVolumeGroup \/ RemoveVolumeGroup \/ RemovePhysicalVolume
           \/ StopRAID \/ ZeroSuperblock \/ InspectDisk \/ Wipe \/ PartitionDisk
           \/ Start \/ Kill \/ Reboot
  <2>1. pc' \notin {"raid", "done"} \cup VGPhase
    BY <1>1 DEF DeactivateVolumeGroup, RemoveVolumeGroup, RemovePhysicalVolume, StopRAID,
                ZeroSuperblock, InspectDisk, Wipe, PartitionDisk, Start, Begin, Kill, Reboot, VGPhase
  <2> QED
    BY <2>1 DEF GroupsUnhindered, VGPhase
<1>2. CASE CreateRAID
  <2>1. pc = "raid" /\ pc' = "raid" /\ content' = content
    BY <1>2 DEF CreateRAID
  <2>2. Undisturbed /\ Assured
    BY <1>2, UndisturbedBefore DEF Step
  <2> QED
    BY <2>1, <2>2 DEF GroupsUnhindered, VGPhase, Blank
<1>3. CASE CreateVolumeGroup \/ CreatePhysicalVolume \/ VgCreate \/ CreateLogicalVolume
  BY <1>3, VGGroups
<1>4. CASE LoopEnd \/ Finish
  <2>1. /\ Undisturbed /\ Assured /\ errs' = errs /\ stack' = stack /\ content' = content /\ active' = active
        /\ cmd = "partition"
    <3>1. errs' = errs /\ stack' = stack
      BY <1>4 DEF LoopEnd, Finish
    <3> QED
      BY <1>4, <3>1, UndisturbedBefore DEF Step, stack, Undisturbed
  <2>2. CASE pc' \in Teardown \cup DiskLoop
    BY <2>2 DEF GroupsUnhindered, VGPhase, Teardown, DiskLoop
  <2>3. CASE pc = "inspect" /\ i > Len(Disks) /\ pc' = "raid"
    <3>1. Blank(1)
      <4>1. CASE Wiped
        <5>1. Emptied(i - 1)
          BY <2>1, <2>3 DEF ArraysUnhindered
        <5>2. \A d \in Disk : \E k \in 1..(i - 1) : Disks[k].device = d
          <6>1. 1..Len(Disks) \subseteq 1..(i - 1)
            BY <1>0, <2>3
          <6> QED
            BY <6>1, DocDisks
        <5>3. DOMAIN VGs = 1..Len(VGs)
          BY MetadataAssumption
        <5> SUFFICES ASSUME NEW k \in 1..Len(VGs), NEW x \in Elems(VGs[k].pvs)
                     PROVE  content[x] = None
          BY DEF Blank
        <5>4. PICK d \in Disk : x \in Zeroed(d)
          BY <4>1, <5>3 DEF Wiped
        <5>5. PICK n \in 1..(i - 1) : Disks[n].device = d
          BY <5>2
        <5> QED
          BY <4>1, <5>1, <5>4, <5>5 DEF Emptied
      <4>2. CASE Plain /\ ~Wiped
        <5>1. clean >= 1
          BY <2>1, <4>2 DEF Assured
        <5> QED
          BY <2>1, <2>3, <4>2, <5>1 DEF Erased, DiskLoop
      <4> QED
        BY <4>1, <4>2
    <3> QED
      BY <2>1, <2>3, <3>1 DEF GroupsUnhindered, VGPhase, Blank
  <2>4. CASE pc = "raid" /\ pc' = "vg" /\ i' = 1
    <3>1. Blank(1) /\ Silent /\ active = {}
      BY <2>1, <2>4 DEF GroupsUnhindered, ArraysUnhindered, VGPhase
    <3> QED
      BY <2>1, <2>4, <3>1 DEF GroupsUnhindered, VGPhase, Blank, Silent
  <2>5. CASE pc = "pvcreate" /\ j > Len(VGs[i].pvs) /\ pc' = "vgcreate" /\ i' = i
    <3>1. /\ Silent /\ Blank(i + 1) /\ active \subseteq NamesOf(VGs, i - 1)
          /\ \A n \in DOMAIN VGs[i].pvs :
                content[VGs[i].pvs[n]] = Orphan \/ (n >= j /\ content[VGs[i].pvs[n]] = None)
      BY <2>1, <2>5 DEF GroupsUnhindered, VGPhase
    <3>2. VGs[i].pvs \in Seq(PVDevice)
      <4>1. i \in 1..Len(VGs)
        BY <1>0, <2>5 DEF IndexOK
      <4> QED
        BY <4>1, MetadataTypes
    <3>3. DOMAIN VGs[i].pvs = 1..Len(VGs[i].pvs) /\ Len(VGs[i].pvs) \in Nat
      BY <3>2
    <3>4. \A n \in DOMAIN VGs[i].pvs : ~(n >= j)
      BY <1>0, <2>5, <3>3
    <3>5. \A x \in Elems(VGs[i].pvs) : content[x] = Orphan
      BY <3>1, <3>4 DEF Elems
    <3> QED
      BY <2>1, <2>5, <3>1, <3>5 DEF GroupsUnhindered, VGPhase, Silent, Blank, NamesOf
  <2>6. CASE pc = "lvcreate" /\ pc' = "vg" /\ i' = i + 1
    <3>1. Silent /\ Blank(i + 1) /\ active \subseteq NamesOf(VGs, i)
      BY <2>1, <2>6 DEF GroupsUnhindered, VGPhase
    <3>2. Blank(i + 2)
      BY <1>0, <3>1 DEF Blank
    <3>3. i' - 1 = i /\ i' + 1 = i + 2
      BY <1>0, <2>6
    <3> QED
      BY <2>1, <2>6, <3>1, <3>2, <3>3 DEF GroupsUnhindered, VGPhase, Silent, Blank, NamesOf
  <2>7. CASE pc = "vg" /\ pc' = "done"
    <3>1. Silent
      BY <2>1, <2>7 DEF GroupsUnhindered, VGPhase
    <3> QED
      BY <2>1, <2>7, <3>1 DEF GroupsUnhindered, VGPhase, Silent
  <2> QED
    BY <1>4, <2>1, <2>2, <2>3, <2>4, <2>5, <2>6, <2>7 DEF LoopEnd, Finish, Teardown, DiskLoop
<1>5. CASE Finalize \/ UNCHANGED vars
  <2>1. /\ pc' = pc /\ i' = i /\ j' = j /\ errs' = errs /\ content' = content /\ active' = active
    BY <1>5 DEF Finalize, vars, proc, stack
  <2>2. Undisturbed /\ Assured
    BY <1>5, UndisturbedBefore
  <2> QED
    BY <2>1, <2>2 DEF GroupsUnhindered, Silent, Blank, NamesOf
<1> QED
  BY <1>1, <1>2, <1>3, <1>4, <1>5 DEF Next, Step

\* Converging is invariant: whatever earlier runs, failed tools, kills and
\* reboots have left, an undisturbed run finds its way.
THEOREM ConvergingInvariance == Feasible /\ (Wiped \/ Plain) => (Spec => []Converging)
<1> SUFFICES ASSUME Feasible, Wiped \/ Plain
             PROVE  Spec => []Converging
  OBVIOUS
<1>1. Init => Converging
  <2> SUFFICES ASSUME Init PROVE Converging
    OBVIOUS
  <2>1. \A x \in PVDevice, v \in VG : content[x] # v
    BY DistinctAssumption DEF Init
  <2>2. Sound
    BY <2>1 DEF Init, Sound, Teardown, Outside
  <2>3. Orderly
    <3>1. Plain => \A x \in PVDevice : content[x] = None
      BY DEF Init, Plain
    <3> QED
      BY <3>1, DistinctAssumption DEF Init, Orderly
  <2> QED
    BY <2>2, <2>3 DEF Init, Converging, TornDown, DiskLoop, ArraysUnhindered, Erased,
                      GroupsUnhindered, VGPhase, Judged
<1>2. Inv /\ Converging /\ [Next]_vars => Converging'
  BY SoundStep, TornDownStep, OrderlyStep, ArraysStep, ErasedStep, GroupsStep, JudgedStep
     DEF Converging, Inv
<1> QED
  BY <1>1, <1>2, Invariance, PTL DEF Spec

\* A run of which the invariant says that nothing was in its way has made
\* the layout.
LEMMA AssuredIsDesired ==
    ASSUME Inv, Converging, Returned, Undisturbed, Assured
    PROVE  Desired
<1>1. Silent /\ pc = "done" /\ cmd = "partition"
  BY DEF Converging, GroupsUnhindered, Returned
<1> QED
  BY <1>1 DEF Inv, Progress, DiskProgress, RAIDProgress, VGProgress, Desired

\* One undisturbed run of `rootio partition` makes the layout of a feasible
\* document whose disks are all wiped.
THEOREM OneRunConverges == Feasible /\ Wiped => (Spec => []Idempotent)
<1> SUFFICES ASSUME Feasible, Wiped
             PROVE  Spec => []Idempotent
  OBVIOUS
<1>1. Inv /\ Converging => Idempotent
  BY AssuredIsDesired DEF Idempotent, Returned, Converging, Judged, Undisturbed, Assured
<1> QED
  BY <1>1, Invariance, ConvergingInvariance, PTL

\* Without wipe_table it takes two in a row, on a host whose arrays carried no
\* file system and are not assembled under another name.
THEOREM TwoRunsConverge == Feasible /\ (Wiped \/ Plain) => (Spec => []SecondRunConverges)
<1> SUFFICES ASSUME Feasible, Wiped \/ Plain
             PROVE  Spec => []SecondRunConverges
  OBVIOUS
<1>1. Inv /\ Converging => SecondRunConverges
  <2> SUFFICES ASSUME Inv, Converging, Returned, clean >= 2, Whole, ~torn
               PROVE  Desired
    BY DEF SecondRunConverges
  <2>1. clean = 2 /\ clean >= 1
    BY DEF Inv, TypeOK, ProcType
  <2> QED
    BY <2>1, AssuredIsDesired DEF Returned, Converging, Judged, Undisturbed, Assured
<1> QED
  BY <1>1, Invariance, ConvergingInvariance, PTL

-----------------------------------------------------------------------------
(* The end of a command.  Terminates needs fairness, which is checked and  *)
(* not proved; the fact it rests on is one about steps.                    *)

\* The loops in the order of the code, and the places in a loop's body.
LoopOf(p) ==
    CASE p \in {"vgchange", "vgremove"} -> 1
      [] p = "pvremove" -> 2
      [] p \in {"stop", "zero"} -> 3
      [] p \in DiskLoop -> 4
      [] p = "raid" -> 5
      [] p \in VGPhase -> 6
      [] OTHER -> 7

PlaceOf(p) ==
    CASE p \in {"vgremove", "zero", "wipe", "pvcreate"} -> 2
      [] p \in {"table", "vgcreate"} -> 3
      [] p = "lvcreate" -> 4
      [] OTHER -> 1

\* A later loop; the next element of this one; a later place in its body; the
\* next element of the loop inside.
Forward == \/ LoopOf(pc') > LoopOf(pc)
           \/ LoopOf(pc') = LoopOf(pc) /\ i' = i + 1
           \/ LoopOf(pc') = LoopOf(pc) /\ i' = i /\ PlaceOf(pc') > PlaceOf(pc)
           \/ pc' = pc /\ i' = i /\ j' = j + 1

\* Neither index runs further than to the end of the list it walks.
InLists ==
    /\ pc \in {"vgchange", "pvremove"} => i <= Len(VGs) + 1
    /\ pc = "stop" => i <= Len(RAIDs) + 1
    /\ pc = "pvremove" => j = 1 \/ (i <= Len(VGs) /\ j <= Len(VGs[i].pvs) + 1)
    /\ pc = "zero" => j <= Len(AllDevices(RAIDs[i])) + 1
    /\ pc = "pvcreate" => j <= Len(VGs[i].pvs) + 1

\* Every list of the metadata has an end, the ones inside its entries included.
LEMMA InnerLists ==
    /\ Len(Disks) \in Nat /\ Len(RAIDs) \in Nat /\ Len(VGs) \in Nat
    /\ \A k \in 1..Len(RAIDs) : Len(AllDevices(RAIDs[k])) \in Nat
    /\ \A k \in 1..Len(VGs) : Len(VGs[k].pvs) \in Nat /\ Len(VGs[k].lvs) \in Nat
BY MetadataTypes, ElementType

\* The indices, step by step.
LEMMA InListsStep == TypeOK /\ IndexOK /\ InLists /\ [Next]_vars => InLists'
<1> SUFFICES ASSUME TypeOK, IndexOK, InLists, [Next]_vars PROVE InLists'
  OBVIOUS
<1> USE InnerLists DEF TypeOK, ProcType, IndexOK, InLists, Goto, AbandonVG
<1>1. CASE DeactivateVolumeGroup
  BY <1>1 DEF DeactivateVolumeGroup
<1>2. CASE RemoveVolumeGroup
  BY <1>2 DEF RemoveVolumeGroup
<1>3. CASE RemovePhysicalVolume
  BY <1>3 DEF RemovePhysicalVolume
<1>4. CASE StopRAID
  BY <1>4 DEF StopRAID
<1>5. CASE ZeroSuperblock
  BY <1>5 DEF ZeroSuperblock
<1>6. CASE InspectDisk
  BY <1>6 DEF InspectDisk
<1>7. CASE Wipe
  BY <1>7 DEF Wipe
<1>8. CASE PartitionDisk
  BY <1>8 DEF PartitionDisk
<1>9. CASE CreateRAID
  BY <1>9 DEF CreateRAID
<1>10. CASE CreateVolumeGroup
  <2>1. (i \in 1..Len(VGs) /\ i' = i) \/ pc' = "vg"
    BY <1>10 DEF CreateVolumeGroup
  <2>2. CASE pc' = "vg"
    BY <2>2
  <2>3. CASE i \in 1..Len(VGs) /\ i' = i
    <3>1. Len(VGs[i].pvs) \in Nat
      BY <2>3
    <3>2. pc' \in {"pvcreate", "vg"} /\ j' = 1
      BY <1>10 DEF CreateVolumeGroup
    <3> QED
      BY <2>3, <3>1, <3>2
  <2> QED
    BY <2>1, <2>2, <2>3
<1>11. CASE CreatePhysicalVolume
  <2>1. j <= Len(VGs[i].pvs) /\ pc = "pvcreate" /\ i \in 1..Len(VGs)
    BY <1>11 DEF CreatePhysicalVolume
  <2>2. Len(VGs[i].pvs) \in Nat
    BY <2>1
  <2>3. pc' = "vg" \/ (pc' = "pvcreate" /\ i' = i /\ j' = j + 1)
    BY <1>11 DEF CreatePhysicalVolume
  <2>4. CASE pc' = "vg"
    BY <2>4
  <2>5. CASE pc' = "pvcreate" /\ i' = i /\ j' = j + 1
    <3>1. j' <= Len(VGs[i'].pvs) + 1
      BY <2>1, <2>2, <2>5
    <3> QED
      BY <2>5, <3>1
  <2> QED
    BY <2>3, <2>4, <2>5
<1>12. CASE VgCreate
  BY <1>12 DEF VgCreate
<1>13. CASE CreateLogicalVolume
  BY <1>13 DEF CreateLogicalVolume
<1>14. CASE LoopEnd
  <2>1. CASE pc' \in {"pvremove", "stop"}
    BY <1>14, <2>1 DEF LoopEnd
  <2>2. CASE pc' \notin {"pvremove", "stop"}
    <3>1. pc' \in {"inspect", "raid", "vg", "vgcreate"}
      BY <1>14, <2>2 DEF LoopEnd
    <3> QED
      BY <3>1
  <2> QED
    BY <2>1, <2>2
<1>15. CASE Finish
  BY <1>15 DEF Finish
<1>16. CASE Finalize \/ UNCHANGED vars
  BY <1>16 DEF Finalize, vars, proc
<1>17. CASE Start \/ Kill \/ Reboot
  BY <1>17 DEF Start, Begin, Kill, Reboot
<1> QED
  BY <1>1, <1>2, <1>3, <1>4, <1>5, <1>6, <1>7, <1>8,
     <1>9, <1>10, <1>11, <1>12, <1>13, <1>14, <1>15, <1>16, <1>17 DEF Next, Step

\* Whatever the tools do, the command goes on to its next call and never back.
LEMMA StepForward == TypeOK /\ Step => Forward
<1> SUFFICES ASSUME TypeOK, Step PROVE Forward
  OBVIOUS
<1> USE DEF TypeOK, ProcType, Forward, LoopOf, PlaceOf, DiskLoop, VGPhase, Goto, AbandonVG
<1>1. CASE DeactivateVolumeGroup
  BY <1>1 DEF DeactivateVolumeGroup
<1>2. CASE RemoveVolumeGroup
  BY <1>2 DEF RemoveVolumeGroup
<1>3. CASE RemovePhysicalVolume
  BY <1>3 DEF RemovePhysicalVolume
<1>4. CASE StopRAID
  BY <1>4 DEF StopRAID
<1>5. CASE ZeroSuperblock
  BY <1>5 DEF ZeroSuperblock
<1>6. CASE InspectDisk
  BY <1>6 DEF InspectDisk
<1>7. CASE Wipe
  BY <1>7 DEF Wipe
<1>8. CASE PartitionDisk
  BY <1>8 DEF PartitionDisk
<1>9. CASE CreateRAID
  BY <1>9 DEF CreateRAID
<1>10. CASE CreateVolumeGroup
  BY <1>10 DEF CreateVolumeGroup
<1>11. CASE CreatePhysicalVolume
  BY <1>11 DEF CreatePhysicalVolume
<1>12. CASE VgCreate
  BY <1>12 DEF VgCreate
<1>13. CASE CreateLogicalVolume
  BY <1>13 DEF CreateLogicalVolume
<1>14. CASE LoopEnd
  BY <1>14 DEF LoopEnd
<1>15. CASE Finish
  BY <1>15 DEF Finish
<1> QED
  BY <1>1, <1>2, <1>3, <1>4, <1>5, <1>6, <1>7, <1>8,
     <1>9, <1>10, <1>11, <1>12, <1>13, <1>14, <1>15 DEF Step

\* The safety half of Terminates: every step of a command is one forward
\* through its loops and their lists, with every failure of a tool, for every
\* metadata document.  The loops are seven, the lists have ends, so no command
\* runs for ever.
THEOREM CommandIsBounded == Spec => [](IndexOK /\ InLists) /\ [][Step => Forward]_vars
<1>1. Init => InLists
  BY DEF Init, InLists
<1>2. TypeOK => (Step => Forward)
  BY StepForward
<1>3. TypeOK /\ [Next]_vars => [Step => Forward]_vars
  BY <1>2
<1> QED
  BY <1>1, <1>3, InListsStep, TypeCorrect, PTL DEF Spec
=============================================================================
