------------------------------- MODULE Rootio -------------------------------
(***************************************************************************)
(* `rootio partition` and `rootio wipe` (rootio/cmd/rootio.go): one        *)
(* process that walks the metadata and runs one external tool per step,    *)
(* on a host that may carry the remains of earlier runs.  The workflow may *)
(* run the commands again, kill one at its timeout (SIGKILL: nothing is    *)
(* cleaned up), and the host may reboot between two of them.               *)
(*                                                                         *)
(* The process logs an error and goes on wherever the code does; pc is the *)
(* next call, i and j the indices of the loops around it.                  *)
(***************************************************************************)
EXTENDS BlockStack

CONSTANTS
    Commands,    \* the commands the workflow runs
    Leftover,    \* how the disks start: "blank", or "fs": the arrays carry file systems
    MayMiss,     \* disks that may be absent
    Assemble,    \* whether a boot may assemble arrays: a set of BOOLEANs
    Rename,      \* whether a boot may give assembled arrays another name
    MaxFaults,   \* bound: tool failures and kills
    MaxBoots,    \* bound: boots
    MaxRuns      \* bound: commands started

ASSUME RootioAssumption ==
    /\ Commands \subseteq {"partition", "wipe"}
    /\ Leftover \subseteq {"blank", "fs"}
    /\ MayMiss \subseteq Disk
    /\ Assemble \subseteq BOOLEAN
    /\ Rename \subseteq BOOLEAN
    /\ MaxFaults \in Nat /\ MaxBoots \in Nat /\ MaxRuns \in Nat

VARIABLES
    cmd,     \* the command running or run last
    pc,      \* its next call; "off", "idle", "done" outside a run
    i, j,    \* loop indices
    errs,    \* the stages in which this run logged an error
    held,    \* disks the process still has open, exclusively, after an error
    dirty,   \* history: in this run a tool failed for a reason of its own, or
             \* the process stood in its own way
    clean,   \* history: completed undisturbed partition runs in a row (0..2)
    torn,    \* history: since the last boot, Wipe hit a disk that a failed
             \* teardown, or an array under another name, kept in use
    faults, boots, runs

proc == <<cmd, pc, i, j, errs, held, dirty, clean, torn, faults, boots, runs>>
vars == <<stack, proc>>

Stage == {"stop", "verify", "examine", "wipe", "table", "raid", "vg"}

Outside == {"off", "idle", "done"}

PC == Outside \cup {"vgchange", "vgremove", "pvremove", "stop", "zero", "inspect",
                    "wipe", "table", "raid", "vg", "pvcreate", "vgcreate", "lvcreate"}

ProcType ==
    /\ cmd \in {"partition", "wipe"}
    /\ pc \in PC
    /\ i \in Nat \ {0} /\ j \in Nat \ {0}
    /\ errs \subseteq Stage
    /\ held \subseteq Disk
    /\ clean \in 0..2
    /\ faults \in Nat /\ boots \in Nat /\ runs \in Nat

FlagType == dirty \in BOOLEAN /\ torn \in BOOLEAN

\* The host and the command stay in the states the code and the tools know.
TypeOK == StackType /\ ProcType /\ FlagType

\* The host before the first boot.
Init ==
    /\ \E missing \in SUBSET MayMiss, prev \in Leftover :
        /\ dev = [d \in Disk |-> IF d \in missing THEN "absent" ELSE "block"]
        /\ table = IF prev = "blank" THEN {} ELSE Disk \ missing
        /\ sb \in [Part -> Array \cup {None}]
        /\ \A p \in Part : IF prev = "fs" /\ \E m \in Array : p \in Members(m)
                           THEN sb[p] \in Array /\ p \in Members(sb[p])
                           ELSE sb[p] = None
        /\ content = [x \in PVDevice |-> IF prev = "fs" /\ x \in Array THEN FS ELSE None]
    /\ nodes = {} /\ running = {} /\ foreign = {} /\ active = {} /\ mounted = {}
    /\ lvs = [v \in VG |-> 0]
    /\ cmd = "partition" /\ pc = "off" /\ i = 1 /\ j = 1
    /\ errs = {} /\ held = {} /\ dirty = FALSE /\ clean = 0 /\ torn = FALSE
    /\ faults = 0 /\ boots = 0 /\ runs = 0

-----------------------------------------------------------------------------
(* Control.                                                                *)

Goto(p, a, b) == pc' = p /\ i' = a /\ j' = b

Log(stage) == errs' = errs \cup {stage}

Quiet == UNCHANGED errs

\* A tool behaves as its operator of BlockStack says, or fails on its own.
Works == UNCHANGED <<faults, dirty>>
Fails == faults < MaxFaults /\ faults' = faults + 1 /\ dirty' = TRUE

Bookkeeping == UNCHANGED <<cmd, clean, torn, boots, runs>>
Rest == Bookkeeping /\ UNCHANGED held

-----------------------------------------------------------------------------
(* LVM teardown: TeardownVolumeGroups.  Every failure is swallowed.        *)

DeactivateVolumeGroup ==
    /\ pc = "vgchange" /\ i <= Len(VGs)
    /\ \/ Works /\ active' = IF VGSeen(VGs[i].name) THEN active \ {VGs[i].name} ELSE active
       \/ Fails /\ UNCHANGED active
    /\ Goto("vgremove", i, 1)
    /\ Quiet /\ Rest
    /\ UNCHANGED <<dev, table, nodes, sb, running, foreign, content, lvs, mounted>>

RemoveVolumeGroup ==
    /\ pc = "vgremove"
    /\ LET v == VGs[i].name IN
       \/ /\ Works /\ VGSeen(v)
          /\ active' = active \ {v}
          /\ lvs' = [lvs EXCEPT ![v] = 0]
          /\ content' = Label(PVsOf(v), Orphan)
       \/ Works /\ ~VGSeen(v) /\ UNCHANGED <<active, lvs, content>>
       \/ Fails /\ UNCHANGED <<active, lvs, content>>
    /\ Goto("vgchange", i + 1, 1)
    /\ Quiet /\ Rest
    /\ UNCHANGED <<dev, table, nodes, sb, running, foreign, mounted>>

RemovePhysicalVolume ==
    /\ pc = "pvremove" /\ i <= Len(VGs) /\ j <= Len(VGs[i].pvs)
    /\ LET x == VGs[i].pvs[j] IN
       \/ Works /\ content' = IF CanRemovePV(x) THEN Label({x}, None) ELSE content
       \/ Fails /\ UNCHANGED content
    /\ Goto("pvremove", i, j + 1)
    /\ Quiet /\ Rest
    /\ UNCHANGED <<dev, table, nodes, sb, running, foreign, lvs, active, mounted>>

-----------------------------------------------------------------------------
(* RAID teardown.                                                          *)

\* forceUnmount's lazy unmounts come before mdadm --stop; a failed unmount
\* is only a warning, and leaves the array busy.
StopRAID ==
    /\ pc = "stop" /\ i <= Len(RAIDs)
    /\ LET m == RAIDs[i].name IN
       \/ /\ Works /\ ~HasNode(m)
          /\ Quiet /\ UNCHANGED <<running, mounted>>
       \/ /\ Works /\ HasNode(m)
          /\ mounted' = mounted \ {m}
          /\ \/ /\ \A v \in active : m \notin PVsOf(v)
                /\ running' = running \ {m} /\ Quiet
             \/ /\ \E v \in active : m \in PVsOf(v)
                /\ UNCHANGED running /\ Log("stop")
       \/ /\ Fails /\ HasNode(m)
          /\ mounted' \in {mounted, mounted \ {m}}
          /\ UNCHANGED running /\ Log("stop")
    /\ Goto("zero", i, 1)
    /\ Rest
    /\ UNCHANGED <<dev, table, nodes, sb, foreign, content, lvs, active>>

ZeroSuperblock ==
    /\ pc = "zero" /\ j <= Len(AllDevices(RAIDs[i]))
    /\ LET p == AllDevices(RAIDs[i])[j] IN
       \/ Works /\ sb' = IF CanZero(p) THEN [sb EXCEPT ![p] = None] ELSE sb
       \/ Fails /\ UNCHANGED sb
    /\ Goto("zero", i, j + 1)
    /\ Quiet /\ Rest
    /\ UNCHANGED <<dev, table, nodes, running, foreign, content, lvs, active, mounted>>

-----------------------------------------------------------------------------
(* Disks.                                                                  *)

\* diskfs opens a block device exclusively: nothing may sit on it, and the
\* process itself may not have it open.
Opens(d) == dev[d] = "block" /\ ~DiskBusy(d) /\ d \notin held

\* VerifyBlockDevice and ExamineDisk: an error of either is logged and the
\* loop body goes on.  ExamineDisk closes the disk only on its way out without
\* an error; on a blank disk there is no table to read, and the handle stays.
\* (A regular file counts as one without a table.)
InspectDisk ==
    /\ pc = "inspect" /\ i <= Len(Disks)
    /\ LET d == Disks[i].device
           verify == IF dev[d] = "block" THEN {} ELSE {"verify"}
           examine == IF Opens(d) /\ d \in table THEN {} ELSE {"examine"}
       IN  \/ /\ Works /\ errs' = errs \cup verify \cup examine
              /\ held' = IF Opens(d) /\ d \notin table THEN held \cup {d} ELSE held
           \/ /\ Fails /\ errs' = errs \cup verify \cup {"examine"}
              /\ UNCHANGED held \/ (Opens(d) /\ held' = held \cup {d})
    /\ IF cmd = "wipe" \/ Disks[i].wipeTable THEN Goto("wipe", i, 1) ELSE Goto("table", i, 1)
    /\ Bookkeeping
    /\ UNCHANGED stack

\* Wipe opens with O_CREATE and without O_EXCL: a missing disk becomes a
\* regular file, and a disk in use is written all the same.  A write error
\* may come before or after the head of the disk is gone.
Wipe ==
    /\ pc = "wipe"
    /\ LET d == Disks[i].device IN
       /\ dev' = IF dev[d] = "absent" THEN [dev EXCEPT ![d] = "file"] ELSE dev
       /\ \/ /\ Works /\ Quiet
             /\ IF dev[d] = "block" THEN ZeroHead(d) ELSE UNCHANGED <<table, sb, content>>
          \/ /\ Fails /\ Log("wipe")
             /\ \/ UNCHANGED <<table, sb, content>>
                \/ dev[d] = "block" /\ ZeroHead(d)
    /\ IF cmd = "wipe" THEN Goto("inspect", i + 1, 1) ELSE Goto("table", i, 1)
    /\ torn' = (torn \/ (DiskBusy(Disks[i].device) /\ (dirty \/ foreign # {})))
    /\ UNCHANGED <<cmd, held, clean, boots, runs>>
    /\ UNCHANGED <<nodes, running, foreign, lvs, active, mounted>>

\* Partition / MBRPartition: exclusive open, write the table, have the
\* kernel read it again.  The table may be written and the re-read fail; the
\* error returns leave the disk open.  A handle that ExamineDisk left behind
\* makes the open fail.
PartitionDisk ==
    /\ pc = "table"
    /\ LET d == Disks[i].device IN
       \/ /\ Works /\ Opens(d)
          /\ table' = table \cup {d} /\ nodes' = nodes \cup {d} /\ Quiet /\ UNCHANGED held
       \/ Works /\ dev[d] = "file" /\ UNCHANGED <<table, nodes, held>> /\ Quiet
       \/ /\ Works /\ (dev[d] = "absent" \/ (dev[d] = "block" /\ DiskBusy(d)))
          /\ UNCHANGED <<table, nodes, held>> /\ Log("table")
       \/ /\ dev[d] = "block" /\ d \in held /\ dirty' = TRUE
          /\ UNCHANGED <<table, nodes, held, faults>> /\ Log("table")
       \/ /\ Fails /\ UNCHANGED nodes /\ Log("table")
          /\ \/ UNCHANGED <<table, held>>
             \/ Opens(d) /\ held' = held \cup {d} /\ table' \in {table, table \cup {d}}
    /\ Goto("inspect", i + 1, 1)
    /\ Bookkeeping
    /\ UNCHANGED <<dev, sb, running, foreign, content, lvs, active, mounted>>

-----------------------------------------------------------------------------
(* RAID creation.                                                          *)

\* validLevels
MinDevices == [l \in {"0", "1", "4", "5", "6", "10", "linear"} |->
                 CASE l \in {"0", "1", "linear"} -> 2 [] l \in {"4", "5"} -> 3 [] OTHER -> 4]

ValidateRAID(r) == r.level \in DOMAIN MinDevices /\ Len(r.devices) >= MinDevices[r.level]

\* The process itself keeps others from partition x.
InOurWay(x) == x \in Part /\ PartDisk[x] \in held

CreateRAID ==
    /\ pc = "raid" /\ i <= Len(RAIDs)
    /\ LET r == RAIDs[i]
           ds == Elems(AllDevices(r))
           can == /\ ValidateRAID(r) /\ CanCreateArray(r.name, ds)
                  /\ \A p \in ds : ~InOurWay(p)
       IN  \/ /\ Works /\ can
              /\ CreateArray(r.name, ds) /\ Quiet
           \/ /\ Works /\ ~can
              /\ UNCHANGED <<sb, running>> /\ Log("raid")
           \/ Fails /\ UNCHANGED <<sb, running>> /\ Log("raid")
    /\ Goto("raid", i + 1, 1)
    /\ Rest
    /\ UNCHANGED <<dev, table, nodes, foreign, content, lvs, active, mounted>>

-----------------------------------------------------------------------------
(* Volume group creation: the first error ends the entry, not the loop.    *)

ValidateVolumeGroup(g) == /\ g.pvs # <<>>
                          /\ \A n \in DOMAIN g.lvs : g.lvs[n] = 0 => n = Len(g.lvs)

\* Mutants: the error is swallowed; the entry is tried again and again.
AbandonVGSilently == Quiet /\ Goto("vg", i + 1, 1)
AbandonVGRetry == Log("vg") /\ Goto("vg", i, 1)

AbandonVG == Log("vg") /\ Goto("vg", i + 1, 1)

CreateVolumeGroup ==
    /\ pc = "vg" /\ i <= Len(VGs)
    /\ \/ ValidateVolumeGroup(VGs[i]) /\ Goto("pvcreate", i, 1) /\ Quiet
       \/ ~ValidateVolumeGroup(VGs[i]) /\ AbandonVG
    /\ Works /\ Rest
    /\ UNCHANGED stack

CreatePhysicalVolume ==
    /\ pc = "pvcreate" /\ j <= Len(VGs[i].pvs)
    /\ LET x == VGs[i].pvs[j] IN
       \/ /\ Works /\ CanCreatePV(x) /\ ~InOurWay(x)
          /\ content' = Label({x}, Orphan) /\ Quiet /\ Goto("pvcreate", i, j + 1)
       \/ Works /\ (~CanCreatePV(x) \/ InOurWay(x)) /\ UNCHANGED content /\ AbandonVG
       \/ Fails /\ UNCHANGED content /\ AbandonVG
    /\ Rest
    /\ UNCHANGED <<dev, table, nodes, sb, running, foreign, lvs, active, mounted>>

\* vgcreate; the pvscan and vgscan after it change nothing here, and their
\* errors are only warned of (lvm.go:104-110).
VgCreate ==
    /\ pc = "vgcreate"
    /\ LET v == VGs[i].name
           xs == Elems(VGs[i].pvs)
       IN  \/ /\ Works /\ CanCreateVG(v, xs)
              /\ content' = Label(xs, v) /\ lvs' = [lvs EXCEPT ![v] = 0]
              /\ Quiet /\ Goto("lvcreate", i, 1)
           \/ Works /\ ~CanCreateVG(v, xs) /\ UNCHANGED <<content, lvs>> /\ AbandonVG
           \/ Fails /\ UNCHANGED <<content, lvs>> /\ AbandonVG
    /\ Rest
    /\ UNCHANGED <<dev, table, nodes, sb, running, foreign, active, mounted>>

CreateLogicalVolume ==
    /\ pc = "lvcreate" /\ j <= Len(VGs[i].lvs)
    /\ LET v == VGs[i].name IN
       \/ /\ Works /\ lvs' = [lvs EXCEPT ![v] = j] /\ active' = active \cup {v}
          /\ Quiet /\ Goto("lvcreate", i, j + 1)
       \/ Fails /\ UNCHANGED <<lvs, active>> /\ AbandonVG
    /\ Rest
    /\ UNCHANGED <<dev, table, nodes, sb, running, foreign, content, mounted>>

-----------------------------------------------------------------------------
(* Ends of the loops, in the order of the code.                            *)

LoopEnd ==
    /\ \/ pc = "vgchange" /\ i > Len(VGs) /\ Goto("pvremove", 1, 1)
       \/ pc = "pvremove" /\ i <= Len(VGs) /\ j > Len(VGs[i].pvs) /\ Goto("pvremove", i + 1, 1)
       \/ pc = "pvremove" /\ i > Len(VGs) /\ Goto("stop", 1, 1)
       \/ pc = "zero" /\ j > Len(AllDevices(RAIDs[i])) /\ Goto("stop", i + 1, 1)
       \/ pc = "stop" /\ i > Len(RAIDs) /\ Goto("inspect", 1, 1)
       \/ pc = "inspect" /\ i > Len(Disks) /\ cmd = "partition" /\ Goto("raid", 1, 1)
       \/ pc = "raid" /\ i > Len(RAIDs) /\ Goto("vg", 1, 1)
       \/ pc = "pvcreate" /\ j > Len(VGs[i].pvs) /\ Goto("vgcreate", i, 1)
       \/ pc = "lvcreate" /\ j > Len(VGs[i].lvs) /\ Goto("vg", i + 1, 1)
    /\ UNCHANGED <<cmd, errs, held, dirty, clean, torn, faults, boots, runs>>
    /\ UNCHANGED stack

\* The command returns; its exit status is 0 whatever was logged.
Finish ==
    /\ \/ cmd = "partition" /\ pc = "vg" /\ i > Len(VGs)
       \/ cmd = "wipe" /\ pc = "inspect" /\ i > Len(Disks)
    /\ Goto("done", 1, 1) /\ held' = {}
    /\ clean' = IF dirty \/ cmd = "wipe" THEN 0 ELSE IF clean = 2 THEN 2 ELSE clean + 1
    /\ UNCHANGED <<cmd, errs, dirty, torn, faults, boots, runs>>
    /\ UNCHANGED stack

-----------------------------------------------------------------------------
(* The workflow and the host around the process.                           *)

\* Mutants: the loop index is off by one; the LVM preflight, or the whole
\* teardown, is forgotten.
BeginAtZero == Goto("vgchange", 0, 1)
BeginWithoutLVM == Goto("stop", 1, 1)
BeginWithoutTeardown == Goto("inspect", 1, 1)

\* Both commands begin with TeardownVolumeGroups.
Begin == Goto("vgchange", 1, 1)

Start ==
    /\ pc \in {"idle", "done"} /\ runs < MaxRuns /\ runs' = runs + 1
    /\ cmd' \in Commands
    /\ Begin
    /\ errs' = {} /\ dirty' = FALSE
    /\ UNCHANGED <<held, clean, torn, faults, boots>> /\ UNCHANGED stack

\* The action's timeout: SIGKILL, and the host stays up.
Kill ==
    /\ pc \notin Outside /\ faults < MaxFaults /\ faults' = faults + 1
    /\ Goto("idle", 1, 1) /\ held' = {}
    /\ clean' = 0
    /\ UNCHANGED <<cmd, errs, dirty, torn, boots, runs>> /\ UNCHANGED stack

\* A reset at any time, or the first power-on.
Reboot ==
    /\ boots < MaxBoots /\ boots' = boots + 1
    /\ pc \in Outside \/ faults < MaxFaults
    /\ faults' = IF pc \in Outside THEN faults ELSE faults + 1
    /\ \E a \in Assemble, r \in Rename : Boot(a, r)
    /\ Goto("idle", 1, 1) /\ held' = {}
    /\ clean' = 0 /\ torn' = FALSE
    /\ UNCHANGED <<cmd, errs, dirty, runs>>

\* The garbage collector may close a handle nobody refers to any more, at any
\* time or never.
Finalize ==
    /\ \E d \in held : held' = held \ {d}
    /\ UNCHANGED <<cmd, pc, i, j, errs, dirty, clean, torn, faults, boots, runs>> /\ UNCHANGED stack

\* One step of the running command.
Step ==
    \/ DeactivateVolumeGroup \/ RemoveVolumeGroup \/ RemovePhysicalVolume
    \/ StopRAID \/ ZeroSuperblock
    \/ InspectDisk \/ Wipe \/ PartitionDisk
    \/ CreateRAID
    \/ CreateVolumeGroup \/ CreatePhysicalVolume \/ VgCreate \/ CreateLogicalVolume
    \/ LoopEnd \/ Finish

Next == Step \/ Finalize \/ Start \/ Kill \/ Reboot

Spec == Init /\ [][Next]_vars

\* The process runs on its own; nobody has to start, kill or reboot anything.
FairSpec == Spec /\ WF_vars(Step)

-----------------------------------------------------------------------------
(* Properties.                                                             *)

\* The layout the metadata asks for, as the later actions of the workflow
\* (format, mount, archive2disk) need it.
DisksDone(n) == \A k \in 1..n : Disks[k].device \in table \cap nodes
RAIDsDone(n) == \A k \in 1..n : /\ RAIDs[k].name \in running
                                /\ \A p \in Elems(AllDevices(RAIDs[k])) : sb[p] = RAIDs[k].name
VGsDone(n) == \A k \in 1..n : /\ \A x \in Elems(VGs[k].pvs) : content[x] = VGs[k].name
                              /\ lvs[VGs[k].name] = Len(VGs[k].lvs)
                              /\ VGs[k].lvs # <<>> => VGs[k].name \in active

Desired == DisksDone(Len(Disks)) /\ RAIDsDone(Len(RAIDs)) /\ VGsDone(Len(VGs))

Returned == pc = "done" /\ cmd = "partition"

\* Although teardown swallows every error and the exit status is always 0, the
\* log of `rootio partition` does not lie: a run that logs nothing about a
\* device, a table, an array or a volume group has produced the whole layout,
\* whatever the host looked like and whatever failed unseen on the way.
Vital == {"verify", "table", "raid", "vg"}
SilenceMeansDesired == Returned /\ errs \cap Vital = {} => Desired

\* README: the action is idempotent against a previously deployed host.  One
\* undisturbed run of `rootio partition` makes the layout, from every state
\* that earlier runs, tool failures, kills and reboots can leave.  (Not after
\* a run whose teardown failed has zeroed a disk in use, or one under an array
\* with another name: a volume group whose labels are gone cannot be
\* deactivated any more, and only a reboot frees its disks.  Nor when the
\* handle that ExamineDisk leaves open on a blank disk was in the way.)
Whole == \A d \in Disk : dev[d] = "block"
Idempotent == Returned /\ clean >= 1 /\ Whole /\ ~torn => Desired

\* The weaker promise that is left without wipe_table: the second of two
\* undisturbed runs in a row makes the layout.
SecondRunConverges == Returned /\ clean >= 2 /\ Whole /\ ~torn => Desired

\* README: arrays named in metadata are stopped before their disks are
\* rewritten.  When Wipe is about to zero the head of a disk that an array,
\* a volume group or a mount still uses, StopRAID has logged that failure;
\* unless a boot assembled the array under another name, where StopRAID does
\* not look for it.
WipeUnderLiveArrayLogged ==
    pc = "wipe" /\ DiskBusy(Disks[i].device) => "stop" \in errs \/ foreign # {}

\* Every command returns, unless it is killed: no chain of failures keeps it
\* in a loop, and every loop is left.
Terminates == (pc \notin Outside) ~> (pc \in Outside)
=============================================================================
