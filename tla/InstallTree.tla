----------------------------- MODULE InstallTree -----------------------------
(***************************************************************************)
(* Where the files of an installation end up.  `rootio format` makes the   *)
(* file systems of the metadata; archive2disk, `rootio fstab`, user-manage *)
(* and grub2disk mount the root and its siblings with pkg/chroot and write *)
(* into the tree, writefile mounts the root alone; at boot the target      *)
(* mounts what /etc/fstab lists.  A file is installed when it lies in the  *)
(* file system that owns its path after the boot.                          *)
(*                                                                         *)
(* A path is a sequence of names, "/" is the empty one.  Every action has  *)
(* a container of its own, whose mounts disappear with it.                 *)
(***************************************************************************)
EXTENDS Naturals, Sequences, FiniteSets

CONSTANTS
    Lists,      \* storage.filesystems of the hosts: [point, format, label]
    NoPoint,    \* the mount point "" or "none"
    Paths,      \* files the actions write in the tree
    WritePaths, \* DEST_PATHs of writefile steps
    MayDegrade, \* whether the metadata service may be unreachable
    MaxFaults,  \* bound: failing calls and kills
    MaxActions  \* bound: actions started

Special == <<"dev", "proc", "sys">>

Below(p, q) == Len(q) <= Len(p) /\ \A n \in 1..Len(q) : p[n] = q[n]

\* One root in every list, no point twice, no mount or file below /dev, /proc
\* or /sys, which the booted target covers whatever was installed there.
ASSUME InstallAssumption ==
    /\ NoPoint \notin Seq(STRING)
    /\ Lists \subseteq Seq([point : Seq(STRING) \cup {NoPoint},
                            format : {"ext4", "vfat", "swap", "btrfs"}, label : BOOLEAN])
    /\ \A l \in Lists :
        /\ \E n \in DOMAIN l : l[n].point = <<>>
        /\ \A m, n \in DOMAIN l : l[m].point = l[n].point /\ l[m].point # NoPoint => m = n
        /\ \A n \in DOMAIN l : l[n].point \in Seq(STRING) =>
              \A s \in DOMAIN Special : ~Below(l[n].point, <<Special[s]>>)
    /\ Paths \subseteq Seq(STRING) /\ WritePaths \subseteq Seq(STRING)
    /\ \A p \in Paths \cup WritePaths : \A s \in DOMAIN Special : ~Below(p, <<Special[s]>>)
    /\ MayDegrade \in BOOLEAN /\ MaxFaults \in Nat /\ MaxActions \in Nat

VARIABLES
    list,       \* the host's storage.filesystems
    formatted,  \* entries that hold a file system
    labels,     \* entries whose file system carries the label of the metadata
    hasFstab,   \* the target has an /etc/fstab written by `rootio fstab`
    fstab,      \* the entries it lists
    files,      \* <<entry, path, scope>>: the file system that a file was written to,
                \* by an action that had the whole "tree" mounted, or the "root" alone
    degraded,   \* history: some action went on without the siblings
    act,        \* the action running or run last
    pc,         \* its next call
    i,          \* index of the loop at pc
    todo,       \* what filterExtras returned
    mounts,     \* the container's mounts, in order: [point, fs]; fs 0 is a bind mount
    faults, actions

disk == <<list, formatted, labels, hasFstab, fstab, files, degraded>>
proc == <<act, pc, i, todo, mounts, faults, actions>>
vars == <<disk, proc>>

Point == Seq(STRING) \cup {<<Special[s]>> : s \in DOMAIN Special}

Entry == [point : Point, fs : Nat]

Action == {"format", "archive2disk", "fstab", "user-manage", "grub2disk", "writefile"}

TypeOK ==
    /\ list \in Lists
    /\ formatted \subseteq DOMAIN list /\ labels \subseteq formatted
    /\ hasFstab \in BOOLEAN /\ fstab \subseteq DOMAIN list
    /\ files \subseteq formatted \X (Paths \cup WritePaths) \X {"tree", "root"}
    /\ degraded \in BOOLEAN
    /\ act \in Action
    /\ pc \in {"idle", "format", "panic", "fetch", "root", "extras", "bind", "work", "done"}
    /\ i \in Nat \ {0}
    /\ todo \in Seq(DOMAIN list)
    /\ mounts \in Seq(Entry)
    /\ faults \in 0..MaxFaults /\ actions \in 0..MaxActions

Init ==
    /\ list \in Lists
    /\ formatted = {} /\ labels = {} /\ hasFstab = FALSE /\ fstab = {} /\ files = {} /\ degraded = FALSE
    /\ act = "format" /\ pc = "idle" /\ i = 1 /\ todo = <<>> /\ mounts = <<>>
    /\ faults = 0 /\ actions = 0

-----------------------------------------------------------------------------
(* The mount tree.                                                         *)

Root == CHOOSE n \in DOMAIN list : list[n].point = <<>>

\* A later mount at or above the point of an earlier one covers it.
Hidden(n) == \E m \in DOMAIN mounts : m > n /\ Below(mounts[n].point, mounts[m].point)

\* The file system that holds the file at path p in the container.
Owner(p) ==
    LET over == {n \in DOMAIN mounts : ~Hidden(n) /\ Below(p, mounts[n].point)}
    IN  mounts[CHOOSE n \in over : \A m \in over : Len(mounts[m].point) <= Len(mounts[n].point)].fs

\* The same on the booted target: the root, and the lines of /etc/fstab whose
\* label some file system carries, which the boot mounts in path order.
BootOwner(p) ==
    LET over == {n \in DOMAIN list : /\ list[n].point # NoPoint /\ Below(p, list[n].point)
                                     /\ n = Root \/ n \in fstab \cap labels}
    IN  CHOOSE n \in over : \A m \in over : Len(list[m].point) <= Len(list[n].point)

-----------------------------------------------------------------------------
Works == UNCHANGED faults
Fails == faults < MaxFaults /\ faults' = faults + 1

Goto(p) == pc' = p /\ i' = 1

Start(a) ==
    /\ pc \in {"idle", "done"} /\ actions < MaxActions /\ actions' = actions + 1
    /\ act' = a
    /\ Goto(CASE a = "format" -> "format" [] a = "writefile" -> "root" [] OTHER -> "fetch")
    /\ todo' = <<>> /\ mounts' = <<>>
    /\ UNCHANGED disk /\ Works

\* log.Fatal, or SIGKILL at any time.
Die == Goto("idle") /\ UNCHANGED <<act, todo, mounts, actions>>

-----------------------------------------------------------------------------
(* rootio format.                                                          *)

\* FileSystemCreate: mkswap gets no options, hence no label; a format it does
\* not know leaves the command nil, and the next line dereferences it.
FileSystemCreate ==
    /\ pc = "format" /\ i <= Len(list)
    /\ \/ /\ Works /\ list[i].format # "btrfs"
          /\ formatted' = formatted \cup {i}
          /\ labels' = IF list[i].label /\ list[i].format # "swap" THEN labels \cup {i} ELSE labels \ {i}
          /\ hasFstab' = (hasFstab /\ i # Root)
          /\ files' = {f \in files : f[1] # i}
          /\ i' = i + 1 /\ UNCHANGED pc
       \/ Works /\ list[i].format = "btrfs" /\ pc' = "panic" /\ UNCHANGED <<formatted, labels, hasFstab, files, i>>
       \/ Fails /\ i' = i + 1 /\ UNCHANGED <<formatted, labels, hasFstab, files, pc>>
    /\ UNCHANGED <<list, fstab, degraded, act, todo, mounts, actions>>

Formatted ==
    /\ pc = "format" /\ i > Len(list) /\ Goto("done")
    /\ UNCHANGED disk /\ UNCHANGED <<act, todo, mounts, faults, actions>>

-----------------------------------------------------------------------------
(* pkg/chroot.                                                             *)

Depth(n) == Len(list[n].point) - 1

Keep == {n \in DOMAIN list : /\ list[n].point \notin {NoPoint, <<>>}
                             /\ list[n].format \notin {"swap", "vfat"}}

\* Mutant: the sort is left out.
FilterExtrasUnsorted(t) ==
    /\ t \in [1..Cardinality(Keep) -> Keep]
    /\ \A a, b \in 1..Cardinality(Keep) : a < b => t[a] < t[b]

\* t is the stable sort of the kept entries by path depth.
FilterExtras(t) ==
    /\ t \in [1..Cardinality(Keep) -> Keep]
    /\ \A a, b \in 1..Cardinality(Keep) :
          a < b => Depth(t[a]) < Depth(t[b]) \/ (Depth(t[a]) = Depth(t[b]) /\ t[a] < t[b])

\* archive2disk and grub2disk go on without siblings when the metadata
\* cannot be fetched; the others stop.
Fetch ==
    /\ pc = "fetch"
    /\ \/ /\ \E t \in [1..Cardinality(Keep) -> Keep] : FilterExtras(t) /\ todo' = t
          /\ Goto("root") /\ UNCHANGED degraded
       \/ /\ MayDegrade /\ act \in {"archive2disk", "grub2disk"}
          /\ todo' = <<>> /\ Goto("root") /\ degraded' = TRUE
       \/ /\ MayDegrade /\ act \in {"fstab", "user-manage"}
          /\ Goto("idle") /\ UNCHANGED <<todo, degraded>>
    /\ Works /\ UNCHANGED <<list, formatted, labels, hasFstab, fstab, files, act, mounts, actions>>

Push(p, n) == mounts' = Append(mounts, [point |-> p, fs |-> n])

MountRoot ==
    /\ pc = "root"
    /\ \/ Works /\ Root \in formatted /\ Push(<<>>, Root)
          /\ Goto(IF act = "writefile" THEN "work" ELSE "extras") /\ UNCHANGED <<act, todo, actions>>
       \/ Works /\ Root \notin formatted /\ Die
       \/ Fails /\ Die
    /\ UNCHANGED disk

MountExtra ==
    /\ pc = "extras" /\ i <= Len(todo)
    /\ \/ /\ Works /\ todo[i] \in formatted /\ Push(list[todo[i]].point, todo[i])
          /\ i' = i + 1 /\ UNCHANGED <<pc, act, todo, actions>>
       \/ Works /\ todo[i] \notin formatted /\ Die
       \/ Fails /\ Die
    /\ UNCHANGED disk

\* MountTree returns to archive2disk; Enter goes on to the bind mounts.
ExtrasDone ==
    /\ pc = "extras" /\ i > Len(todo)
    /\ Goto(IF act = "archive2disk" THEN "work" ELSE "bind")
    /\ Works /\ UNCHANGED disk /\ UNCHANGED <<act, todo, mounts, actions>>

\* Mutant: the subdirectory is missing from the target of the bind mount.
BindOverRoot ==
    /\ pc = "bind" /\ i <= Len(Special)
    /\ Works /\ Push(<<>>, 0) /\ i' = i + 1 /\ UNCHANGED <<pc, act, todo, actions>>
    /\ UNCHANGED disk

BindSpecial ==
    /\ pc = "bind" /\ i <= Len(Special)
    /\ \/ Works /\ Push(<<Special[i]>>, 0) /\ i' = i + 1 /\ UNCHANGED <<pc, act, todo, actions>>
       \/ Fails /\ Die
    /\ UNCHANGED disk

\* Chroot, and Chdir to "/".
ChrootDone ==
    /\ pc = "bind" /\ i > Len(Special)
    /\ \/ Works /\ Goto("work") /\ UNCHANGED <<act, todo, mounts, actions>>
       \/ Fails /\ Die
    /\ UNCHANGED disk

-----------------------------------------------------------------------------
(* What the actions do in the tree.                                        *)

Scope == IF act = "writefile" THEN "root" ELSE "tree"

Write(p) == files' = files \cup {<<Owner(p), p, Scope>>}

\* The tarball, the users' keys, the boot loader's files: one file at a time.
WriteInTree ==
    /\ pc = "work" /\ act \in {"archive2disk", "user-manage", "grub2disk"}
    /\ \E p \in Paths : Write(p) /\ files' # files
    /\ Works /\ UNCHANGED proc /\ UNCHANGED <<list, formatted, labels, hasFstab, fstab, degraded>>

WriteFile ==
    /\ pc = "work" /\ act = "writefile"
    /\ \E p \in WritePaths : Write(p)
    /\ Goto("done")
    /\ Works /\ UNCHANGED <<list, formatted, labels, hasFstab, fstab, degraded, act, todo, mounts, actions>>

\* Mutant: entries without a label are rendered too.
RenderAll == DOMAIN list

\* fstab.Render: one line per entry that has a label in its mkfs options.
Render == {n \in DOMAIN list : list[n].label}

WriteFstab ==
    /\ pc = "work" /\ act = "fstab"
    /\ fstab' = Render /\ hasFstab' = TRUE
    /\ Goto("done")
    /\ Works /\ UNCHANGED <<list, formatted, labels, files, degraded, act, todo, mounts, actions>>

WorkDone ==
    /\ pc = "work" /\ act \in {"archive2disk", "user-manage", "grub2disk"} /\ Goto("done")
    /\ Works /\ UNCHANGED disk /\ UNCHANGED <<act, todo, mounts, actions>>

Kill == pc \notin {"idle", "done", "panic"} /\ Fails /\ Die /\ UNCHANGED disk

Step ==
    \/ FileSystemCreate \/ Formatted
    \/ Fetch \/ MountRoot \/ MountExtra \/ ExtrasDone \/ BindSpecial \/ ChrootDone
    \/ WriteInTree \/ WriteFile \/ WriteFstab \/ WorkDone

Next == Step \/ Kill \/ \E a \in Action : Start(a)

Spec == Init /\ [][Next]_vars

-----------------------------------------------------------------------------
(* Properties.                                                             *)

\* pkg/chroot: "ascending by path depth, so /var mounts before
\* /var/lib/docker".  In whatever order the metadata lists the file systems,
\* no mount ever covers one made before it.
NothingHidden == \A n \in DOMAIN mounts : ~Hidden(n)

\* The template: the tarball's /var, /home and /var/lib/docker "land on the
\* matching LVs instead of the root LV (where the /var LV mount at boot would
\* otherwise shadow them)".  After every sequence of actions, file systems
\* that were made again included, whatever was written lies where the booted
\* target looks for it, provided that the siblings have labels, that the
\* metadata was there for every action that asked, and that it is not a file
\* that writefile was given below a sibling's point: that action mounts the
\* root alone (writefile/main.go:84), and the sibling will cover its file.
\* (ESPs are not part of the tree.)
InESP(p) == \E n \in DOMAIN list : /\ list[n].format = "vfat" /\ list[n].point # NoPoint
                                   /\ Below(p, list[n].point)
Covered(f) == f[3] = "root" /\ \E n \in Keep : Below(f[2], list[n].point)
AllLabelled == \A n \in Keep : list[n].label
InstalledVisible ==
    hasFstab /\ AllLabelled /\ ~degraded =>
        \A f \in files : ~InESP(f[2]) /\ ~Covered(f) => f[1] = BootOwner(f[2])

\* Every line `rootio fstab` writes names a label that `rootio format` gave to
\* the file system, so that the boot does not wait for it, or a swap area,
\* which mkswap leaves without a label.
FstabResolvable ==
    hasFstab => \A n \in fstab \cap formatted : n \in labels \/ list[n].format = "swap"
=============================================================================
