----------------------------- MODULE BlockStack -----------------------------
(***************************************************************************)
(* The host's block-device stack as rootio meets it, and what the tools    *)
(* rootio runs do to it: the kernel's partition nodes, mdadm, the LVM      *)
(* commands and the boot of HookOS.  None of this is code of the           *)
(* repository: every operator is taken from how rootio/storage and         *)
(* rootio/lvm call the tool, and says when the call succeeds (Can...) and  *)
(* what it then leaves behind.  Every tool may fail for reasons of its own *)
(* as well; that choice is made by the module that calls it.               *)
(*                                                                         *)
(* The metadata document is a constant: a host is provisioned, and         *)
(* provisioned again, from one document.                                   *)
(***************************************************************************)
EXTENDS Naturals, Sequences

CONSTANTS
    Disk, Part, Array, VG,  \* device names of disks, partitions, arrays; VG names
    None, FS, Orphan,       \* content of a device: nothing, a file system, a PV in no VG
    PartDisk,               \* the disk a partition lies on
    Near,                   \* partitions whose head lies in the first GiB of the disk
    Disks,                  \* storage.disks:         [device, wipeTable]
    RAIDs,                  \* storage.raid:          [name, level, devices, spare]
    VGs                     \* storage.volume_groups: [name, pvs, lvs]; lvs are sizes

PVDevice == Part \cup Array

Content == {None, FS, Orphan} \cup VG

ASSUME MetadataAssumption ==
    /\ PartDisk \in [Part -> Disk]
    /\ Near \subseteq Part
    /\ Disks \in Seq([device : Disk, wipeTable : BOOLEAN])
    /\ RAIDs \in Seq([name : Array, level : STRING,
                      devices : Seq(Part), spare : Seq(Part)])
    /\ VGs \in Seq([name : VG, pvs : Seq(PVDevice), lvs : Seq(Nat)])

\* The four kinds of content are told apart, and so are the kinds of device.
ASSUME DistinctAssumption ==
    /\ {None, FS, Orphan} \cap VG = {}
    /\ None # FS /\ None # Orphan /\ FS # Orphan
    /\ None \notin Array
    /\ Part \cap Array = {}

VARIABLES
    dev,      \* what the path of a disk is: "absent", "block" or a regular "file"
    table,    \* disks that carry the partition table the metadata asks for
    nodes,    \* disks whose partition nodes the kernel shows
    sb,       \* md superblock of a partition: the array it names, or None
    running,  \* assembled arrays
    foreign,  \* assembled arrays that are not at the path the metadata gives
    content,  \* what the head of a partition or array holds
    lvs,      \* number of logical volumes recorded in a volume group
    active,   \* volume groups whose logical volumes device-mapper has mapped
    mounted   \* arrays that are mounted

stack == <<dev, table, nodes, sb, running, foreign, content, lvs, active, mounted>>

StackType ==
    /\ dev \in [Disk -> {"absent", "block", "file"}]
    /\ table \subseteq Disk
    /\ nodes \subseteq Disk
    /\ sb \in [Part -> Array \cup {None}]
    /\ running \subseteq Array
    /\ foreign \subseteq running
    /\ content \in [PVDevice -> Content]
    /\ lvs \in [VG -> Nat]
    /\ active \subseteq VG
    /\ mounted \subseteq Array

-----------------------------------------------------------------------------
(* Who sits on what.                                                       *)

Elems(s) == {s[n] : n \in DOMAIN s}

\* append(r.Devices, r.Spare...)
AllDevices(r) == r.devices \o r.spare

\* The devices and spares of every metadata entry for array m.
Members(m) == UNION {Elems(AllDevices(RAIDs[k])) : k \in {n \in DOMAIN RAIDs : RAIDs[n].name = m}}

\* The members that hold the head of the array's data.
Heads(m) == {p \in Part : \E k \in DOMAIN RAIDs :
                 RAIDs[k].name = m /\ RAIDs[k].devices # <<>> /\ RAIDs[k].devices[1] = p}

PVsOf(v) == UNION {Elems(VGs[k].pvs) : k \in {n \in DOMAIN VGs : VGs[n].name = v}}

PartsOn(d) == {p \in Part : PartDisk[p] = d}

\* A partition or array can be opened at the path the metadata gives.
HasNode(x) == IF x \in Part THEN PartDisk[x] \in nodes ELSE x \in running \ foreign

\* Its bytes can be found by a scan, under whatever name.
Scanned(x) == IF x \in Part THEN PartDisk[x] \in nodes ELSE x \in running

\* An exclusive open of x fails: an array, a mapped LV or a mount holds it.
Claimed(x) == \/ x \in mounted
              \/ \E m \in running : x \in Members(m)
              \/ \E v \in active : x \in PVsOf(v)

DiskBusy(d) == \E p \in PartsOn(d) : Claimed(p)

\* LVM finds the volume group complete.
VGSeen(v) == PVsOf(v) # {} /\ \A x \in PVsOf(v) : Scanned(x) /\ content[x] = v

-----------------------------------------------------------------------------
(* mdadm.                                                                  *)

CanZero(p) == HasNode(p) /\ ~Claimed(p)

CanCreateArray(m, ds) == /\ m \notin running
                         /\ \A p \in ds : HasNode(p) /\ ~Claimed(p)

\* Creating an array writes superblocks; the data behind them is kept.
CreateArray(m, ds) == /\ sb' = [p \in Part |-> IF p \in ds THEN m ELSE sb[p]]
                      /\ running' = running \cup {m}

-----------------------------------------------------------------------------
(* LVM.                                                                    *)

CanRemovePV(x) == HasNode(x) /\ ~Claimed(x) /\ content[x] \in {Orphan} \cup VG

\* pvcreate (no --yes, no -ff, no terminal) refuses a PV that belongs to a
\* volume group, and a file-system signature it may not wipe.
CanCreatePV(x) == HasNode(x) /\ ~Claimed(x) /\ content[x] \in {None, Orphan}

\* vgcreate refuses a name that a scan finds, and a PV that is taken.
CanCreateVG(v, xs) == /\ \A x \in PVDevice : content[x] = v => ~Scanned(x)
                      /\ \A x \in xs : HasNode(x) /\ content[x] = Orphan

Label(xs, c) == [x \in PVDevice |-> IF x \in xs THEN c ELSE content[x]]

-----------------------------------------------------------------------------
(* Writing disks, and booting.                                             *)

\* Devices whose content is lost when the first GiB of disk d is zeroed.
Zeroed(d) == (PartsOn(d) \cap Near) \cup {m \in Array : Heads(m) \cap PartsOn(d) \cap Near # {}}

ZeroHead(d) == /\ table' = table \ {d}
               /\ sb' = [p \in Part |-> IF p \in PartsOn(d) \cap Near THEN None ELSE sb[p]]
               /\ content' = Label(Zeroed(d), None)

\* The arrays whose superblocks are all there to be assembled.
Assemblable == {m \in Array : /\ Members(m) # {}
                              /\ \A p \in Members(m) : PartDisk[p] \in table /\ sb[p] = m}

\* HookOS comes up: the kernel reads the partition tables; arrays are
\* assembled or not, at their old name or at a spare one; what they hold is
\* activated or mounted.
Boot(assemble, rename) ==
    /\ nodes' = table
    /\ dev' = [d \in Disk |-> IF dev[d] = "file" THEN "absent" ELSE dev[d]]
    /\ running' = IF assemble THEN Assemblable ELSE {}
    /\ foreign' = IF rename THEN running' ELSE {}
    /\ active' \in SUBSET {v \in VG : /\ lvs[v] > 0
                                      /\ PVsOf(v) # {}
                                      /\ \A x \in PVsOf(v) :
                                            /\ content[x] = v
                                            /\ IF x \in Part THEN PartDisk[x] \in table
                                                             ELSE x \in running'}
    /\ mounted' \in SUBSET {m \in running' : content[m] = FS}
    /\ UNCHANGED <<table, sb, content, lvs>>
=============================================================================
