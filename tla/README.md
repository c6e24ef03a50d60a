# A TLA+ verification of tinkerbell-actions

The repository holds the container actions a Tinkerbell workflow runs, in
HookOS, to install a bare-metal host: partition the disks, make file systems,
unpack an operating system, configure it, boot it. Every action is a small
sequential Go program. What makes it hard is around it: it runs tools and system
calls that fail for their own reasons, on disks that carry the remains of earlier
runs, it may be killed at its timeout or lose the machine between two calls, and
three of the actions share their work with goroutines. This directory models the
actions that carry the core logic, checks them with TLC and proves some of the
results with TLAPS.

## 1. Inventory

| Component | State it keeps or changes | Operations | Talks to |
|---|---|---|---|
| `rootio partition`, `rootio wipe` | partition tables, md superblocks and arrays, LVM labels, groups and volumes | LVM teardown, RAID teardown, per disk verify/examine/wipe/partition, RAID and VG creation | kernel, mdadm, lvm; log |
| partition tables (`rootio/storage/partition.go`) | the table being built, the next sector | GPT and MBR loops | go-diskfs |
| `rootio format`, `rootio fstab` | file systems, labels, `/etc/fstab` | `FileSystemCreate`, `Render` | mkfs, `pkg/chroot` |
| `pkg/chroot` | mounts of one container | `filterExtras`, `MountTree`, `MountExtras`, `Enter` | kernel; used by archive2disk, cexec, fstab, user-manage, grub2disk, serial-console |
| `archive2disk` | the target's tree | download, extract, hard links, drain, verify | HTTP server, `pkg/chroot` |
| `image2disk` | a block device | request, copy with progress goroutine, sync, retry | HTTP server, signals |
| `cexec` | mounts, chroot, the target's `resolv.conf` | set-up, commands, deferred undo | kernel, `pkg/metadata`, `pkg/chroot` |
| `slurp` client and server | HTTP upload, image file | copy goroutine, `client.Do`, `errchan`; `imageHandler` | each other |
| `oci2disk` | a block device; one pipe and `done` channel per layer | `Writer`, the function `f`, `Commit`, pull | oras, containerd, registry |
| `writefile` | directories and one file of the target's root file system | `recursiveEnsureDir`, write, chown | |
| `user-manage` | accounts, homes, keys, `sshd_config` | `EnsureUser`, `SetPassword`, `WriteAuthorizedKeys`, `AddToGroup`, `RewriteSSHDConfig` | `pkg/chroot`, `pkg/metadata`, shadow tools |
| `serial-console` | grub's defaults, `grub.cfg` | `RewriteGrubDefaults`, grub-mkconfig | `pkg/chroot`, `pkg/metadata` |
| `grub2disk` | boot sectors or ESP of each disk, `grub.cfg`, NVRAM | BIOS or EFI installation, fallback copy | `pkg/chroot`, `pkg/metadata`, grub, efibootmgr |
| `kexec` | the running kernel | `ParseGrubCfg`, load, reboot | kernel |
| `pkg/metadata` | none | one GET, decoded | Hegel |
| `syslinux`, `qemuimg2disk`, `rootio mount`, `rootio version`, test mode | a device, or nothing that outlives the container | straight-line I/O | |

The actions interact only through the disks and through the metadata document
that all of them read: what `format` labels, `fstab` must name; what `archive2disk`
mounts, the boot must mount too; `writefile` and `user-manage` meet in `/home`; `serial-console`,
`grub2disk` and `kexec` in `grub.cfg`.

The hard behaviours, each at its line, are the `hazards` of `PROJECT.json`: errors that are
swallowed and met again several tools later; a kill or a reboot at any point; names
and signatures that come back after a reboot; mount orders; a digest that is known
after the fact; retries onto a half-written device; an unbuffered channel on either
side of which somebody may be missing; sector arithmetic on machine words.

What makes each component correct:

- **rootio**: its log does not lie (the exit status is always 0, so the log is all there
  is); running it again repairs whatever went wrong; it does not write under something
  that is in use without saying so; it returns.
- **partition tables**: disjoint, complete, as large as asked for, numbered as the rest
  of the metadata assumes.
- **the installed tree**: every file is where the booted system looks for it.
- **archive2disk, image2disk, oci2disk, slurp**: success means that all of the data arrived; an
  action ends; nobody is left waiting.
- **cexec**: commands run on the complete tree; the target's own file is put back.
- **writefile, user-manage, serial-console, grub2disk, kexec**: a workflow that finishes, after
  however many failed runs, has left what the metadata asks for; what one action makes, the next one finds.

## 2. Modules

| Module | Models | Notes |
|---|---|---|
| `BlockStack` | kernel nodes, exclusive opens, mdadm, LVM, boot | external: what rootio's tools do, taken from how they are called |
| `Rootio` | `rootio partition` and `rootio wipe` | extends `BlockStack`; `pc` is the next call, `i`, `j` the loop indices |
| `PartitionTable` | `Partition`, `MBRPartition` | |
| `InstallTree` | `format`, `fstab`, `pkg/chroot`, and where archive2disk, user-manage, grub2disk and writefile put files | a workflow of any order of actions |
| `Archive2disk` | `archive.Write`, `extractTarDirectory` | one archive, repeated runs |
| `Image2disk` | `image.Write`, the retry loop of `main` | |
| `Cexec` | `cexec`, its deferred calls | repeated steps |
| `Slurp` | `UploadMultipartFile`, `imageHandler` | two goroutines, transport, server |
| `Transfer` | the promise of a transfer: items arrive one by one, success means all of them, nothing moves after the result | abstract; `Image2disk`, `Oci2disk` and `Slurp` implement it |
| `Oci2disk` | `image.Write`, `DiskImageStore`, `DiskImage` | concurrent layers |
| `Target` | the workflow that runs an action after the other on one target, its files, failures, kills and reruns | extended by the next five |
| `WriteFile`, `UserManage`, `SerialConsole`, `Grub2disk`, `Kexec` | the action of the name | `Grub2disk` and `Kexec` extend `SerialConsole` for `grub.cfg` |
| `Configure` | the five together, and their properties | |
| `MC...` | instances for TLC | constants only |
| `RootioProof`, `PartitionTableProof`, `InstallTreeProof`, `CexecProof`, `Archive2diskProof`, `Oci2diskProof`, `ConfigureProof` | theorems | each extends the module of the name |
| `TransferProof` | theorems | of `Image2disk`, which it extends, and `Slurp` |

`PROJECT.json` maps each definition to its lines of code.

### How state and actions correspond to the code

**Rootio.** The metadata document is a constant. One action is one call of a tool; its
branches are success, refusal (the tool's rule, an operator `Can...` of `BlockStack`) and failure for a reason
of its own (`Fails`, counted by `MaxFaults`). `errs` is the set of stages that logged an
error. Wherever the code logs and goes on, so does the model; `LoopEnd` holds the order
of the loops. `held` are disks that the process still has open: an error return of
`ExamineDisk` or `Partition` does not close the disk, go-diskfs opens it with `O_EXCL`,
and only the garbage collector (`Finalize`) closes it later. `Kill` is SIGKILL;
`Reboot` assembles arrays or not, at their name or at another, and activates or mounts what
they hold. A volume label lives on the array's first member, so it survives the
array and comes back when the array is created again, unless the wiped first GiB of
the disk held it (`Near`). `dirty`, `clean` and `torn` are history variables that properties use.

**PartitionTable.** The loop over the list, entry by entry, with all sector arithmetic
modulo `Word`. `wrapped` records that some number wrapped or an open-ended partition had no room.

**InstallTree.** A path is a sequence of names. `mounts` is the container's mount stack;
`Owner(p)` is the file system a write goes to (`files` keeps it, with whether the action had the tree mounted or the root alone), `BootOwner(p)` the one the booted target
reads, given `/etc/fstab` and the labels that exist. `format` may be run again at any time;
`degraded` records that an action went on without metadata.

**Archive2disk.** A node of the tree is an entry of the archive; its state says whether
it is absent, truncated, corrupt or complete. Opening a file truncates it under all the
names that earlier runs gave it; a symbolic link whose name exists stays as it is. `tainted` is a history variable: a run on this tree had a corrupt body. Hard links are taken from `hardLinks` in any order.

**Image2disk.** An attempt is request, open, copy in chunks, handshake with the progress goroutine, sync.
`clock` counts waits; backoff looks at it only between attempts. `cut` records that a body ended early.

**Cexec.** `defers` is the stack of deferred calls; `mnt` the mounts; `leaked` the file
of `os.Create` that nobody closes, which keeps the root busy until it is collected. The container's mounts vanish with it, the
target's files stay.

**Slurp.** A write into the pipe is a rendezvous with the transport; a broken
connection closes the pipe's reading end, and a server gone silent (`GoSilent`) neither reads nor answers while the connection stands. `AfterWrite` and `AfterBroken` say where the
goroutine goes after each call; `diskFailed` records that the disk could not be opened or read.

**Transfer.** `have` counts the items that have arrived, `result` is what was reported, `flawed` stands for
what the action does not notice. Each of the three modules states `KeepsPromise` (`Slurp`: `UploadKeepsPromise`) with a refinement mapping: for
`Image2disk` the items are the chunks on the device and the flaw is a cut body, for `Oci2disk` the flaw is a
blob that is not what the registry should serve or an artifact without exactly one titled layer, and `Slurp` has its
mapping above the property. A step of the action is then a step of `Transfer` or leaves it as it is.

**Oci2disk.** Per layer, the copy loop of the pull and the function `f` of `Writer` run
concurrently. A write into the pipe is a rendezvous with a reading `f`; `Commit` closes the pipe and waits for `done`;
all layers append to one file offset. `bad` and `aborted` record what the registry did and that `f` returned early.

**Target and its actions.** `doc` is the document: plan, metadata and image. `at` is the place in the plan, `pc` the next call of that
action. Every error ends these actions, so a call succeeds, is refused (`Refuse`: the target itself is the
reason) or meets a `Fault` (a failure of its own, or a kill), which leaves any of the states
the call passes through: a directory made and not owned, a file truncated, an account without its
home. `Rerun` starts the workflow from the top. `scars` is a history variable: the leftovers
that no later run repairs and no error told of, by which properties name their exceptions. `tree` maps a path to
kind and owner; where the metadata gives a directory a file system of its own (`siblings`), an
action that mounts the root alone sees `<<"shadowed", ...>>` instead, and `grubcfg` has a
"seen" and a "hidden" file. `Menu` is what grub-mkconfig would write, line by line as far as
`ParseGrubCfg` reads it. What sshd, grub, firmware and shim make of the files (`Effective`, `GrubDefault`,
`FallbackBoots`) is the reference that the properties compare with. useradd is taken to enter an
account into all of its files at once, passwd, shadow and the user's own group, and the other tools to be repeatable. It refuses a name that a
group of the image has, and `chown user:user` one that no group has (`OwnGroup`); kexec refuses files that are not there (`Openable`).

## 3. Runs

Passing runs:

| Run | Shows | Bounds |
|---|---|---|
| `RootioWiped` | type, truthful log, idempotence, no unlogged wipe under a live array of ours, termination, all with `wipe_table`; a disk may be missing, an array may come up under another name | two disks, two members, one array, one VG with two LVs; 3 faults, 2 boots, 4 commands |
| `RootioKept` | without `wipe_table` the *second* undisturbed run is sure to converge (that the log is truthful there too is the theorem) | the same; one of the two members has its label beyond the first GiB |
| `PartitionTable` | disjoint, numbered, of the right size, complete when in order | lists of up to 3 entries with numbers 1..3, in and out of order; words of 13 bits so that wrap-around happens |
| `InstallTree` | no mount hidden; files are where the boot looks, but for those of `writefile` below a sibling; fstab resolvable | 3 nested file systems in every order, an unlabelled one, an unknown format, ESP, swap; a `writefile` on the root and one below a sibling's mount point; failing calls, a metadata service that does not answer |
| `Archive2disk` | success means unpacked, but for a wrong symbolic link that an earlier download left; a good archive unpacks | archives of 2 to 6 entries with links in front of and behind their targets; 2 faults, 3 runs |
| `Image2disk` | implements `Transfer` (success means the whole image unless the body was cut); no goroutine left, ends in time unless the server is silent, signals end it | 4 chunks, limit of 2 waits |
| `Cexec` | resolv.conf restored or logged, commands on the complete tree, clean exit | three kinds of step, two siblings, 3 faults, 3 steps |
| `Oci2disk` | success means what was served is on the device; compression makes up for the missing check; the pull ends; implements `Transfer` | 2 concurrent layers of 2 chunks, titled or not, compressed or not |
| `Configure` | files, accounts, homes, sshd, console, menu, boot files and the kexec'd kernel are as asked for, up to the exceptions below; a rerun never fails over leftovers | 98 documents, among them the complete plan; 2 faults, 3 runs |
| `Slurp` | implements `Transfer`; success means sent; both sides end when the disk is readable and the server does not stay silent | 3 chunks, failures of disk, connection and server |

Why these bounds: each failure that the properties are about needs at most a run that fails
half-way, a boot, a run that meets the remains, and a run that must repair it: that is
four commands, two boots and a fault for each of them. A second volume group or array adds another
iteration of loops whose iterations do not share devices; a second disk is needed so that a member is missing while the other is there, and is
there. Three partitions are the least for which "last", "in between" and "out of order" differ; three nested mounts likewise. Two
layers are the least that share a device. The documents of `Configure` are one for each way in which two
actions, or an action and an earlier run, can meet: a file below a home; an account of the image with and
without its home; every place of a directive in `sshd_config`, and of an Include of drop-ins that set it, or one of the two, or nothing; a user's group that is missing, or there without the user; an image without a serial console, with one, with several;
menus with submenus, chain loaders and entries without initramfs, and defaults on both sides of 8;
a shim or none; siblings. Two faults let one hit the run that meets what another left, and the third
run is then undisturbed.

Runs that are expected to end in a violation each show one disagreement between the
code and what a comment, README or log message says; `PROJECT.json` quotes both under
`findings`:

| Run | What happens |
|---|---|
| `CexecOriginal` | a killed step, and the original resolv.conf is lost |
| `SlurpDisk` | a disk error deadlocks the upload |

The passing properties carve out some further behaviour that falls short of what a reader
of the repository would expect. Each condition below can be dropped from the named
property to see a counterexample:

- `Idempotent` needs `wipe_table`: without it, a volume group on an array that the boot did
  not assemble is missed by the preflight (`lvm.go:51`), comes back with the new array and
  fails the first run. It also excludes a blank disk that the process itself holds open
  (`partition.go:48`): `ExamineDisk` returns without closing it, and `Partition` gets EBUSY.
  And it excludes what follows a Wipe of a disk that a failed teardown, or an array under
  another name, kept in use (`torn`), until the next boot.
- `RootioKept` starts from disks whose arrays carried no file system (`Leftover`); in `RootioWiped` the wipe takes
  the signature. With an old signature left on the array `pvcreate`, which gets no `--yes` (`lvm.go:25`), refuses it in every run, although
  `rootio/README.md:155` calls the action idempotent and the comment at `lvm.go:140` explains why `lvcreate` does get it.
- `WipeUnderLiveArrayLogged` excludes arrays assembled under another name (`foreign`): they
  are not stopped, nothing is logged, and Wipe zeroes their members (`raid.go:103`).
- `OrderedIsComplete` is about lists in order: an entry whose number is not the next one is
  passed over in silence (`partition.go:84`). `SizeKept` says that a GPT partition is one
  sector larger than asked for (`partition.go:82`).
- `InstalledVisible` excludes an archive2disk that went on without metadata (`degraded`,
  `archive2disk/main.go:99`), siblings without a label, which are filled and not in
  fstab (`AllLabelled`, `fstab.go:21`), and a `DEST_PATH` below a sibling's mount point (`Covered`): `writefile` mounts the root alone
  (`writefile/main.go:84`) and puts the file under the sibling, which hides it at boot. `FstabResolvable` excludes swap, for which `mkswap` gets no label
  (`filesystem.go:18`). An unknown format ends `rootio format` (`filesystem.go:66`).
- `SuccessMeansUnpacked` and `UncheckedMeansUnpacked` exclude a symbolic link that an earlier run on the same tree made from a
  corrupt body (`KeptLink`): where the name exists the code keeps what is there, wherever it leads (`utils.go:38-46`), so a clean download
  afterwards succeeds over the wrong link. Corrupt means that contents differ, of any part of the entries; names and kinds are those of the archive.
- `OrderedSucceeds` is about archives without a hard link to a hard link, which works or
  fails with the order of a Go map (`utils.go:71`), and without a symbolic link in front of its
  directory.
- `KeepsPromise` of `Image2disk` counts a body that ends early (`cut`) as a flaw that may go unnoticed: `image.go:151` takes `io.ErrUnexpectedEOF` for
  the end of the image, nothing is retried and `main.go:111` logs success.
- `EndsUnlessStalled` excludes a silent server, since no timeout is set on the request
  (`image2disk/image/image.go:96`), and holds for a positive limit: `RETRY_DURATION_MINUTES=0` is
  backoff's value for no limit (`image2disk/main.go:92`).
- `HealthyUploadReturns` and `HealthyGoroutineExits` exclude a disk that cannot be read (the run `SlurpDisk`) and a server that stays
  silent on an open connection: `http.Client{}` has no timeout (`slurp/image/image.go:44`) and the request no deadline (`:58`), so `client.Do`
  waits for the answer, or the goroutine in its write into the pipe, as long as the server does nothing.
- `UploadKeepsPromise` of `Slurp` speaks of what was sent. It does not say that the server stored anything: the status of the answer
  is not looked at, and `imageHandler` answers 200 to a failed copy (`slurp/server/main.go:59`).

- `Oci2disk`: `SuccessMeansWhole` excludes blobs that are short or altered (`bad`): `Commit` compares nothing
  (`writer.go:186`). Several titled layers interleave on the device, none is a success that wrote nothing.
  `HealthyPullReturns` excludes an `f` that returned early (`aborted`): nobody closes the reading end of its pipe, and the
  copier may wait in `Write` for ever; and a silent registry, since nothing has a timeout.
- `FilesAsAsked` excludes files below a sibling's mount point, which `writefile` shadows (`writefile/main.go:84`), and
  directories that a kill left between `Mkdir` and `Chown` (`main.go:175`). A directory may have the owner of any file below it
  (the first writefile made it), and whatever lies in a `.ssh` is handed over to the user by `chown -R`.
- `AccountsAsAsked`: an `authorized_keys` that writefile was asked for as well may belong to the owner asked for there.
- `HomesOwned` excludes a user whose `useradd` was interrupted (`users.go:79`), an image whose homes do not fit its accounts
  (`ImageFit`, `users.go:106`) and a home that writefile made first: the home then belongs to somebody else, and the
  keys in it cannot be read.
- `SSHDAsAsked` excludes files of the image with a `Match` block and no such directive in front of it, since the
  appended line belongs to the block, files with another spelling (`=`, other case) in front (`users.go:50`), and files that include drop-ins with
  such a directive in front of it. The last is the image of this repository's own templates: Ubuntu's Noble cloud image
  (`scripts/build-noble-rootfs-tarball.sh:11`) has an `sshd_config` that begins with `Include /etc/ssh/sshd_config.d/*.conf` and a
  drop-in that sets `PasswordAuthentication`. sshd takes the first value, so what `users.go:45-62` writes behind the Include has no effect, although
  `user-manage/README.md:13` says that the directives take effect on first boot.
  That the rest of the file is kept excludes a fault in the write, after which the next run rewrites an empty file (`cmd/main.go:76`).
- `ConsoleReachesKernel` excludes images without a `console=ttyS` token, which get none (`serial.go:32`), and a
  fault in the write of the defaults (`serial-console/cmd/main.go:46`).
- `DisksBoot` excludes a failed copy of `grubx64.efi`, which the shim needs and whose error is dropped
  (`grub2disk/main.go:96`), and a separate `/boot` that was not mounted
  because the metadata could not be had (`main.go:150`).
- `KexecBootsDefault` compares with grub for plain menus only (`PlainMenu`). Submenus are
  flattened, entries without an initramfs not counted (`kexec/cmd/grub/grub.go:56`), the default is read
  in base 8 (`:46`), and an index behind the entries panics (`:25`), while the comment at `:19` speaks
  of "the grub configuration that will be booted by default".

`TypeOK` is an invariant of the runs `RootioWiped`, `PartitionTable` and `InstallTree`; in the other modules with
theorems it is proved, from the inductive invariant or as a part of it.

Deadlock checking is off throughout: every action ends, and bounded workflows stop.
Liveness properties state what must not stop.

### Fairness

- `Rootio`: weak fairness of the running command's steps; nobody owes a start, a kill, a reboot or a garbage collection. The code never waits for anything but its tools, which return.
- `Image2disk`: weak fairness of the process (`Main`). A silent server disables the step that needs it, and no signal is owed.
- `Oci2disk`: weak fairness of each layer's copier and `f` (the Go scheduler, and a registry that sends, ends or fails unless it is silent) and of the return of the pull.
- `Configure` states no fairness: its actions wait for nothing but tools, and its properties are about workflows that have ended.
- `Slurp`: weak fairness of the goroutine and of the caller (the Go scheduler), of the transport's noticing a dead connection, and of a server that has the whole upload. A write into the pipe and the server's answer are disabled once the server is silent (`net = "silent"`), so a silent server owes nothing, not even the end of the connection. Failures are never owed.

## 4. Theorems

Proved for every value of the constants, from the named assumptions of the modules
(`MetadataAssumption`, `DistinctAssumption`, `RootioAssumption`, `TableAssumption`,
`InstallAssumption`, `ArchiveAssumption`, `CexecAssumption`, `Image2diskAssumption`, `SlurpAssumption`,
`Oci2diskAssumption`, and those of the documents of `Configure`, listed there), all of which TLC evaluates in the runs. Every proof module has the same layout: the inductive
invariant as a conjunction of named parts, that `Init` gives it, that each action keeps it, and what
follows from it. TLC finds each invariant to hold in the instances of the runs.

### Rootio

- **`TypeCorrect`**: `Spec => [](TypeOK /\ IndexOK)`. `IndexOK` says that at
  every call the indices point into the lists, which the typing of the next call needs.
- **`SilenceIsTruthful`**: `Spec => []SilenceMeansDesired`. The property speaks of
  the end of a run and is not inductive. The strengthening `Progress` (`Invariance`: `Spec => []Inv`) says, for every `pc`,
  which prefix of the work is done unless the matching stage is in `errs`: disks before `i`
  are partitioned, arrays before `i` run with their superblocks, groups before `i` are complete. It is
  needed that a later step does not undo an earlier one: creation steps refuse devices in use, and
  a step that is refused logs. One lemma for each phase (`DiskSteps`, `RAIDSteps`, `VGSteps`, `ControlSteps`).
- **`LiveArrayIsLogged`**: `VGsOnArrays => (Spec => []WipeUnderLiveArrayLogged)`. The invariant `Stopped` says which arrays the
  teardown has passed, so that none of ours runs at a Wipe unless "stop" is in `errs`. The hypothesis is needed and found by the proof:
  for a volume group on a plain partition `TeardownVolumeGroups` ignores the error of `vgchange`, and the partition's disk is
  zeroed in use without a word.
- **`OneRunConverges`**: `Feasible /\ Wiped => (Spec => []Idempotent)`; **`TwoRunsConverge`**:
  `Feasible /\ (Wiped \/ Plain) => (Spec => []SecondRunConverges)`. That the log is truthful is not enough here: an undisturbed
  run must have nothing to log. `Converging` says for every `pc` what is out of the way: no group active after the
  first loop and no array of ours running after the second (`TornDown`), nothing on the disks
  that were passed (`ArraysUnhindered`), no old label on the physical volumes that are still to be made (`GroupsUnhindered`, `Erased`).
  `Assured` tells when the last of these can be relied on: the wipe has taken the labels, or the run before was
  undisturbed too, has left the arrays standing, and `pvremove` of this one takes them.
  The hypotheses are conditions on the document that some documents fail, and where they do the property can be false:
  - `Feasible`: every disk is listed (nobody makes the partitions of one that is not), arrays
    and groups are valid, with names and devices of their own (two that share a device, the second is refused),
    and a physical volume is an array of the document or a partition that is no member of one.
  - `Wiped`: every disk has `wipe_table`, and each physical volume has its label where a wipe reaches (else the label comes
    back with the new array).
  - `Plain`: boots do not rename arrays, and no array carried a file system (both are listed among the exceptions above).

  `RootioWiped` satisfies `Feasible` and `Wiped`, `RootioKept` `Feasible` and `Plain`. TLC has also found `Converging` invariant for
  a group on a partition that its list names twice, and for a document that lists a disk twice with different `wipe_table`.

### Partition tables

- **`TypeCorrect`, `NumbersCorrect`, `OrderedComplete`, `DisjointCorrect`, `SizesCorrect`**: sectors stay
  in their words; entry k has number k because `partitionNumber` is always one more than
  the length of the table, and a list in order is written whole for the same reason; entries are disjoint because
  `sectorStart` lies behind every entry (`Behind`), which an open-ended entry breaks only when it is the last;
  sizes follow from the same lemma about one iteration (`AddedEntry`).

### The installed tree

- **`MountsNeverHidden`**: `Spec => []NothingHidden`. The inductive
  invariant `IInv` describes the mount stack (`Shape`): the root, then a prefix of the sorted siblings, then
  a prefix of the special directories. Sorting by depth means that a later point is never
  a proper prefix of an earlier one; distinct points make it not an equal one.
- **`TypeCorrect`**: it needs `Mounted` (which file system is the n-th mount, and that it is formatted), so that a file lies in a
  file system that exists.
- **`FstabCorrect`**: `Spec => []FstabResolvable`. `Labelled` says that the labels are those of the document on what
  has been formatted, `Rendered` that fstab is what `Render` writes.
- **`InstalledIsVisible`**: `Spec => []InstalledVisible`. `Placed` says that every file lies on the deepest
  sibling above its path (`IsHome`), or, when `writefile` wrote it, on the root; the boot comes to the same one since it mounts the same entries in the order of depth,
  and to the root where no sibling covers the path (`Covered`, the exception).
  `Complete` is needed: an action that has the metadata has all siblings in `todo`.
  `InstallAssumption` says that no path of the property lies below `/dev`, `/proc` or `/sys`,
  which the booted target covers in any case.

### cexec

- **`ResolvKept`**, **`CommandsInside`**, **`ExitsClean`**: the three properties of the run, with `TypeCorrect`. `Stacked` says which stack
  of deferred calls belongs to each place in the code. `Debt` ties it to the file: as long as `restore` is on the stack the
  backup is what the file was, and when it no longer is, the file is back or its loss logged. `Tree` gives the mounts at each
  call of the set-up; `Unwinding` says that, when no call fails, the deferred calls find what they undo. Both are
  needed for the clean exit, which depends on the order of the `defer` statements.

### archive2disk

- **`CheckedUnpacked`**, **`UncheckedUnpacked`**: `Unpacked` says that what stands before `i` in the archive is complete if the body is intact,
  `Linked` that each hard link is made or still in the map, or that a link in the map exists already and
  `os.Link` will fail on it. `Sound` keeps the map in step with `i` (every link before `i`, and none
  is made before the last entry, so no later open truncates what a link shares) and says that a verified checksum
  means an intact body; `Whole` that directories are there or not, never by halves, and that a link is a wrong one only
  after a run with a corrupt body (`tainted`). The exception of both properties (`KeptLink`) is about symbolic links only: files are
  truncated and written again, so what a bad download left in them is gone.
- **`OrderedUnpacked`**: `Spec => []OrderedSucceeds`. The property is part of the invariant: `Pristine` says that on a fresh tree no hard
  link is there before its turn, and `WellOrdered` that its target is.

### The transfers

- **`TransferProof!PromiseKept`, `TransferProof!UploadPromiseKept`, `Oci2diskProof!PromiseKept`**: `Spec => KeepsPromise`, the refinement of `Transfer` step by step: each
  action is a step of `Transfer` or leaves the mapped variables alone (`Unseen` names the actions that do).
  - `Image2disk`: what the attempt has copied is on the device (`Written`), and the loop ends at the last chunk or with a
    cut body (`Ended`).
  - `Slurp`: the goroutine's place tells how much was sent (`Position`), an answer before the end of the body comes with a dead
    connection (`Answered`), and the goroutine leaves with its error delivered or the body complete (`Finished`).
  - `Oci2disk`: for each layer, `Fed` relates copier, `f`, pipe and `done`; `Landing` says which chunks of it are on the
    device and in which order, among those of the other layers; `Alone` that a single titled layer has
    the device to itself.
- **`TransferProof!GoroutinesMet`**: `Spec => []NoGoroutineLeft`, from `Counted`: a progress goroutine runs exactly during a copy.
- **`Oci2diskProof!CorruptionFound`**, **`SuccessWhole`**: `Spec => []CompressionChecks`, `Spec => []SuccessMeansWhole`, from `Fed` and `Landing`.

### The configured target

All eight properties of `Configure` are theorems, for every set of documents (plans of any length and order, any number of
users, files, disks and siblings, `sshd_config` files, command lines and menus of any length) and any bound on faults and runs.

- **The documents.** `PlanAssumption`, `FileAssumption`, `ImageAssumption`, `UsersAssumption`, `GrubAssumption` and
  `Grub2diskAssumption` say what kind of thing each field is, that an image has the directories every Linux
  image has and the mount points of its siblings, that root is not in the list of users, and that a menu has entries and comes from grub-mkconfig
  if the image brings one. `TornAssumption`, the last conjunct of `GrubAssumption` and `KexecAssumption` say that `None`
  is no file, menu or configuration: it stands for what is not there.
- **Control** (`ControlInvariance`): a place in the plan goes with the calls of its action, a failed run starts
  over. `Behind` are the actions of this run that are through; every promise about the end is first one about them.
- **`TreeInvariance`**: `TreeInv`, the invariant of files and accounts, has `Kept` (what the image had is
  still of its kind), `Origin` (everything else was made by a writefile or a user of this document), `TreeOK` (directories lead to every file),
  `Homes` and `Dirs` (who owns a home or a directory, or which scar tells why not), `Files` (files of this run are whole and
  their last owner's), and what each call of writefile and user-manage has behind it (`InWriteFile`, `InUserManage`). The steps are
  summed up in `Later`: a tree only grows, and a node changes its kind only from torn to whole.
  **`FilesWritten`**, **`AccountsMade`** and **`HomesAreOwned`** follow from it at the end of a workflow.
- **`SSHDTakesEffect`**: `SSHDInv` says that the file is the image's, line by line, but for lines that were asked for (`Grown`), and that
  after user-manage every matching line says what was asked. That this is what sshd hears (`Effective`) follows from the first line
  in force, a least number.
- **`DisksAreBootable`**: `DiskInv` follows one grub2disk through its calls (`InGrub2disk`), keeps what it left on its disk through the
  actions on the others (`DiskDone`), and knows that the menu is as the defaults say unless serial-console is
  just between the two (`MenuMade`, `Rewriting`).
- **`ConsoleIsReached`**: `DefaultsInv` says that the file of defaults is the image's, its rewriting, or the one that a
  fault cut off. That there is one rewriting only is a lemma (`RewriteTwice`: rewriting is idempotent), and so
  is that a torn file stays torn (`TornStays`).
- **`DefaultIsBooted`**: `MenusInv` says that a menu was made from defaults that there have been, `BootInv` that what was booted is
  what kexec found. The rest is about pure functions, for menus of any length: what `FlattenSeq` makes of the items (`FlattenUnfolds`, `FlattenKeeps`,
  `PlainLines`), what the line-by-line reader holds after each line (`Reading`, `ReadingStep`), that it never has an initramfs that is not its
  kernel's (`MadeBoots`), and that in a plain menu the k-th thing kept is the k-th entry (`ReadItem`, `PlainBoots`).
  Both are recursive functions. That a recursive function exists and unfolds, and what holds of each of its values, is shown by taking the least
  index at which it would not (`LeastPlace`), since an induction theorem cannot be instantiated here.
- **`RerunsSucceed`**: `RerunSucceeds` is part of the inductive invariant. `Refusals` says that only a fault or a condition of the document or the target
  (`Refused` lists them) ends a run with an error; `NothingRefused` that none of them can be met on a `Workable` document. It needs `Origin` and
  `Kept`: a file where a directory is wanted would come from the image, from another writefile or from a user's
  keys, and `PathsFree` excludes each (`Unblocked`). The groups are the image's and those of the accounts that useradd made, so a document
  in which no new user has a group's name, and each user of the image with keys its own group, meets no refusal of useradd or chown. `DefaultsThere` and `KexecFinds` (with `Untouched`: a menu that nobody was asked to
  write is the image's) do the same for serial-console and kexec.
- **`TypeCorrect`**: `Spec => []TypeOK`, from all of these and `LoaderTypes`.

### What liveness rests on

A liveness property needs fairness, and with it `ENABLED`, which the prover does not handle. What it says beyond that is safety, and
proved: that no behaviour is infinite (an action property: a measure that every step makes smaller) and that before the end somebody
can go on (an invariant, with the strengthening that it needs).

| Liveness, checked | No behaviour is infinite | Somebody can go on |
|---|---|---|
| `Terminates` | `RootioProof!CommandIsBounded`: every step is `Forward` in the order loop, element, place in the body, inner element, and the indices stay `InLists`, also when the step is a tool's failure | seen by TLC only: a call of the code waits for nothing |
| `EndsUnlessStalled`, `SignalEnds` | `TransferProof!AttemptsAreBounded`, for a time limit other than 0, which is backoff's "no limit": the next wait comes nearer (`AttemptShrinks`), and there are `MaxElapsed + 1` of them (`Paced`) | `OnlySilenceHolds`, from `Counted`: the handshake finds its goroutine |
| `HealthyUploadReturns`, `HealthyGoroutineExits` | `UploadIsBounded`: one call or one event less (`UploadLeft`) | `OnlyDiskErrorsHang`, from `Linked`: who closed the pipe, and what the server has said. `DiskErrorUnheard` is the one deadlock, which the run `SlurpDisk` reaches; `ServerAwaited` is the exception `silent` of the properties |
| `HealthyPullReturns` | `Oci2diskProof!PullIsBounded`: one layer has less to do, the others as much as before (`LayerAdvances`) | `NoMutualWait`, from `Fed` and `Manned`. `WaitsForRegistry` and `WaitsForReader` are the exceptions `silent` and `aborted` of the property |

The predicates that say who can go on (`MainReady`, `UploadReady`, `CopierReady`, `FReady`) are written out in terms of the state; in the
instances of the runs TLC finds that where one of them holds the action is `ENABLED`. The step from the two theorems to the
liveness property is left to TLC.

### What is only model-checked

- **Fairness, and with it every liveness property as such** (`Terminates`, `EndsUnlessStalled`, `SignalEnds`, `HealthyPullReturns`,
  `HealthyUploadReturns`, `HealthyGoroutineExits`).
- **The two runs with a counterexample** (`OriginalRestored`, `UploadReturns`), which refute what they check.

Every safety property and every refinement of the passing runs is a theorem.

## 5. Not modelled

- `rootio mount`: two calls per file system without any state of its own; the mounts end with its container. Its `swapon`
  outlives it and keeps the device busy for a later `rootio partition`; for `Rootio` that is a failing tool.
- `oci2disk` opens the device with `O_CREATE` (`oci2disk/image/image.go:62`), so a missing one becomes a file of the
  container; the model takes the device to be there. That `kexec` drops the error of the reboot is modelled, without a property.
- `image2disk` panics at a `PROGRESS_INTERVAL_SECONDS` that is not positive (`image2disk/image/image.go:134`); the model takes it to be positive.
- Of an MBR table go-diskfs keeps four entries at most; `PartitionTable` is about the list that it is given.
- A compressed stream is taken to carry a checksum, which gzip and bzip2 do and zstd and xz may leave out.
- The `serial` command in grub's defaults is matched with `--speed` and `--unit` first, in this order (`serial.go:37`); a file with another order is to the model one
  without the command.
- Drop-ins of sshd's configuration are the image's; a `writefile` of the plan that makes one is not modelled.
- The `pvscan` and `vgscan` after a `vgcreate` (`lvm.go:104-110`) change nothing in the model.
- `rootio version` and the test mode, `syslinux`, `qemuimg2disk`: straight-line I/O.
- Several uploads to one slurp server (`slurp/server/main.go:41`).
- The formats of tar, gzip, GPT, PE and JSON, which belong to libraries. `pkg/metadata` is a document that is there or not.
- File modes, groups of files and log wording, except where a property is about whether something was logged; owners
  only in `Target` and its actions.

## 6. Plan

Done, in this order: `BlockStack` and `Rootio` (the largest and most destructive action),
`PartitionTable`, `InstallTree`, the actions with concurrency or recovery of their own
(`Slurp`, `Image2disk`, `Archive2disk`, `Cexec`, `Oci2disk`), their abstract specification `Transfer`, and the
configuration half of a workflow (`Target`, `WriteFile`, `UserManage`, `SerialConsole`, `Grub2disk`, `Kexec`, `Configure`).

Proved: everything of section 4, which is every safety property and every refinement of the runs, and for each liveness property
the safety facts it rests on.

Next, modules: several uploads to one slurp server; an abstract workflow that `InstallTree` implements.
