-------------------------------- MODULE Cexec --------------------------------
(***************************************************************************)
(* cexec (cexec/main.go): mount the target's root, its sibling file        *)
(* systems and the pseudo file systems, put the host's resolv.conf over    *)
(* the target's, chroot, run the commands, and undo all of it in deferred  *)
(* functions.  Every call may fail.  The action runs in a container of its *)
(* own: its mounts disappear with it, what it did to the target's files    *)
(* does not.  A workflow has several cexec steps, and repeats them.        *)
(***************************************************************************)
EXTENDS Naturals, Sequences

CONSTANTS
    Settings,   \* environments of a step: [chroot, resolv, mirror : BOOLEAN, cmds : Nat]
    Siblings,   \* the mount points of filterExtras(extras), in its order
    MaxFaults,  \* bound: failing calls and kills
    MaxRuns     \* bound: cexec steps

ASSUME CexecAssumption ==
    /\ Settings \subseteq [chroot : BOOLEAN, resolv : BOOLEAN, mirror : BOOLEAN, cmds : Nat]
    /\ Siblings \in Seq(STRING)
    /\ \A n \in DOMAIN Siblings : Siblings[n] \notin {"root", "dev", "proc", "sys", "resolv"}
    /\ MaxFaults \in Nat /\ MaxRuns \in Nat

VARIABLES
    resolv,    \* the target's /etc/resolv.conf: "orig", "empty", "none"
    backup,    \* the target's /etc/resolv.conf.backup
    set,       \* settings of the step
    pc,        \* its next call
    k,         \* index of the loop at pc
    defers,    \* the deferred calls, last one first
    mnt,       \* mounts in the container, as the target's directory they cover
    root,      \* the process's root: "container" or "target"
    leaked,    \* the file that os.Create opened in the target is still open
    fetched,   \* the metadata was fetched
    failed,    \* cexec returns an error
    logged,    \* deferred calls whose failure was logged
    was,       \* history: resolv when the step started
    faulty,    \* history: a call failed for reasons of its own in this step
    faults, runs

files == <<resolv, backup>>
vars == <<files, set, pc, k, defers, mnt, root, leaked, fetched, failed, logged, was, faulty, faults, runs>>

\* Order of mountSpecialDirs, and of umountSpecialDirs.
SpecialDirs == IF set.resolv THEN <<"dev", "proc", "sys", "resolv">> ELSE <<"dev", "proc", "sys">>

Special == {"dev", "proc", "sys", "resolv"}

Sibs == {Siblings[n] : n \in DOMAIN Siblings}

Contents == {"orig", "empty", "none"}

TypeOK ==
    /\ resolv \in Contents /\ backup \in Contents /\ was \in Contents
    /\ set \in Settings
    /\ pc \in {"idle", "mkdir", "mount", "siblings", "backup", "create", "special", "chroot",
               "cmd", "return", "done"}
    /\ k \in Nat
    /\ pc = "cmd" => k \in 1..(set.cmds + 1)
    /\ pc = "special" => k \in 1..(Len(SpecialDirs) + 1)
    /\ pc = "siblings" => k \in 1..(Len(Siblings) + 1)
    /\ defers \in Seq({"unmount", "restore", "umountSpecial", "exitChroot"})
    /\ mnt \subseteq {"root"} \cup Special \cup Sibs
    /\ root \in {"container", "target"}
    /\ leaked \in BOOLEAN /\ fetched \in BOOLEAN /\ failed \in BOOLEAN /\ faulty \in BOOLEAN
    /\ logged \subseteq {"unmount", "restore"}
    /\ faults \in 0..MaxFaults /\ runs \in 0..MaxRuns

\* A freshly installed target; some have no resolv.conf.
Init ==
    /\ resolv \in {"orig", "none"} /\ backup = "none" /\ was = "none"
    /\ set \in Settings /\ pc = "idle" /\ k = 1 /\ defers = <<>>
    /\ mnt = {} /\ root = "container"
    /\ leaked = FALSE /\ fetched = FALSE /\ failed = FALSE /\ logged = {} /\ faulty = FALSE
    /\ faults = 0 /\ runs = 0

-----------------------------------------------------------------------------
Goto(p) == pc' = p /\ k' = 1

\* Mutant: deferred calls run first in, first out.
DeferLast(f) == defers' = Append(defers, f)

Defer(f) == defers' = <<f>> \o defers

Works == UNCHANGED <<faults, faulty>>
Fails == faults < MaxFaults /\ faults' = faults + 1 /\ faulty' = TRUE

\* Mutant: os.Exit in place of return.
ReturnErrorExit == Goto("done") /\ failed' = TRUE

\* return fmt.Errorf(...): the deferred calls come next.
ReturnError == Goto("return") /\ failed' = TRUE

Kept == UNCHANGED <<set, runs, was>>
Same == Kept /\ UNCHANGED leaked

\* An absolute path under /mountAction leads to the target.
Reachable == root = "container" /\ "root" \in mnt

Start ==
    /\ pc \in {"idle", "done"} /\ runs < MaxRuns /\ runs' = runs + 1
    /\ set' \in Settings
    /\ Goto("mkdir") /\ defers' = <<>>
    /\ mnt' = {} /\ root' = "container"
    /\ leaked' = FALSE /\ fetched' = FALSE /\ failed' = FALSE /\ logged' = {} /\ faulty' = FALSE
    /\ was' = resolv
    /\ UNCHANGED <<files, faults>>

Mkdir ==
    /\ pc = "mkdir"
    /\ \/ Works /\ Goto("mount") /\ UNCHANGED failed
       \/ Fails /\ ReturnError
    /\ Same /\ UNCHANGED <<files, defers, mnt, root, fetched, logged>>

Mount ==
    /\ pc = "mount"
    /\ \/ Works /\ mnt' = mnt \cup {"root"} /\ Defer("unmount") /\ Goto("siblings") /\ UNCHANGED failed
       \/ Fails /\ ReturnError /\ UNCHANGED <<mnt, defers>>
    /\ Same /\ UNCHANGED <<files, root, fetched, logged>>

\* Mutant: the special directories are mounted only along with resolv.conf.
PrepareLess == IF set.chroot /\ set.resolv THEN Goto("backup") ELSE Goto("cmd")

\* What follows the sibling mounts.
Prepare == IF ~set.chroot THEN Goto("cmd") ELSE IF set.resolv THEN Goto("backup") ELSE Goto("special")

\* MIRROR_HOST: fetchSiblings, whose failure is a warning.
FetchSiblings ==
    /\ pc = "siblings" /\ ~fetched
    /\ \/ Works /\ set.mirror /\ Siblings # <<>> /\ fetched' = TRUE /\ UNCHANGED <<pc, k>>
       \/ Works /\ (set.mirror => Siblings = <<>>) /\ Prepare /\ UNCHANGED fetched
       \/ Fails /\ set.mirror /\ Prepare /\ UNCHANGED fetched
    /\ Same /\ UNCHANGED <<files, defers, mnt, root, failed, logged>>

\* MountExtras, which undoes nothing when it fails half-way.
MountExtra ==
    /\ pc = "siblings" /\ fetched /\ k <= Len(Siblings)
    /\ \/ /\ Works /\ mnt' = mnt \cup {Siblings[k]}
          /\ k' = k + 1 /\ UNCHANGED <<pc, failed>>
       \/ Fails /\ ReturnError /\ UNCHANGED mnt
    /\ Same /\ UNCHANGED <<files, defers, root, fetched, logged>>

ExtrasMounted ==
    /\ pc = "siblings" /\ fetched /\ k > Len(Siblings) /\ Prepare
    /\ Same /\ Works /\ UNCHANGED <<files, defers, mnt, root, fetched, failed, logged>>

\* backupFile: a rename, over whatever the backup was.
BackupFile ==
    /\ pc = "backup"
    /\ \/ /\ Works /\ resolv # "none"
          /\ backup' = resolv /\ resolv' = "none"
          /\ Defer("restore") /\ Goto("create") /\ UNCHANGED failed
       \/ Works /\ resolv = "none" /\ ReturnError /\ UNCHANGED <<files, defers>>
       \/ Fails /\ ReturnError /\ UNCHANGED <<files, defers>>
    /\ Same /\ UNCHANGED <<mnt, root, fetched, logged>>

\* The new file is never closed.
CreateResolv ==
    /\ pc = "create"
    /\ \/ Works /\ resolv' = "empty" /\ leaked' = TRUE /\ Goto("special") /\ UNCHANGED failed
       \/ Fails /\ ReturnError /\ UNCHANGED <<resolv, leaked>>
    /\ Kept /\ UNCHANGED <<backup, defers, mnt, root, fetched, logged>>

\* mountSpecialDirs; umountSpecialDirs is deferred only after the last mount.
MountSpecialDir ==
    /\ pc = "special" /\ k <= Len(SpecialDirs)
    /\ \/ Works /\ mnt' = mnt \cup {SpecialDirs[k]} /\ k' = k + 1 /\ UNCHANGED <<pc, failed>>
       \/ Fails /\ ReturnError /\ UNCHANGED mnt
    /\ Same /\ UNCHANGED <<files, defers, root, fetched, logged>>

DeferUmount ==
    /\ pc = "special" /\ k > Len(SpecialDirs)
    /\ Defer("umountSpecial") /\ Goto("chroot")
    /\ Same /\ Works /\ UNCHANGED <<files, mnt, root, fetched, failed, logged>>

\* A failing Chdir after the Chroot leaves the process in the target.
Chroot ==
    /\ pc = "chroot"
    /\ \/ Works /\ root' = "target" /\ Defer("exitChroot") /\ Goto("cmd") /\ UNCHANGED failed
       \/ Fails /\ root' \in {"container", "target"} /\ ReturnError /\ UNCHANGED defers
    /\ Same /\ UNCHANGED <<files, mnt, fetched, logged>>

\* One command; a missing interpreter and a failing command end the loop.
RunCommand ==
    /\ pc = "cmd" /\ k <= set.cmds
    /\ \/ Works /\ k' = k + 1 /\ UNCHANGED <<pc, failed>>
       \/ Fails /\ ReturnError
    /\ Same /\ UNCHANGED <<files, defers, mnt, root, fetched, logged>>

ReturnNil ==
    /\ pc = "cmd" /\ k > set.cmds /\ Goto("return")
    /\ Same /\ Works /\ UNCHANGED <<files, defers, mnt, root, fetched, failed, logged>>

-----------------------------------------------------------------------------
(* The deferred calls.                                                     *)

Deferred(f) == pc = "return" /\ defers # <<>> /\ Head(defers) = f /\ defers' = Tail(defers)

\* The deferred exitChroot's error is dropped.
ExitChroot ==
    /\ Deferred("exitChroot")
    /\ \/ Works /\ root' = "container"
       \/ Fails /\ UNCHANGED root
    /\ Same /\ UNCHANGED <<files, pc, k, mnt, fetched, failed, logged>>

\* umountSpecialDirs stops at the first unmount that fails (a process that a
\* command left behind keeps the mount busy); its error is dropped.
UmountSpecialDirs ==
    /\ Deferred("umountSpecial")
    /\ \/ Works /\ Reachable /\ mnt' = mnt \ Special
       \/ Works /\ ~Reachable /\ UNCHANGED mnt
       \/ /\ Fails /\ Reachable
          /\ \E n \in 0..(Len(SpecialDirs) - 1) : mnt' = mnt \ {SpecialDirs[x] : x \in 1..n}
    /\ Same /\ UNCHANGED <<files, pc, k, root, fetched, failed, logged>>

\* restoreFile: a rename, which a bind mount on resolv.conf makes fail.
RestoreFile ==
    /\ Deferred("restore")
    /\ \/ /\ Works /\ Reachable /\ "resolv" \notin mnt /\ backup # "none"
          /\ resolv' = backup /\ backup' = "none" /\ UNCHANGED logged
       \/ /\ Works /\ ~(Reachable /\ "resolv" \notin mnt /\ backup # "none")
          /\ logged' = logged \cup {"restore"} /\ UNCHANGED files
       \/ Fails /\ logged' = logged \cup {"restore"} /\ UNCHANGED files
    /\ Same /\ UNCHANGED <<pc, k, mnt, root, fetched, failed>>

\* Unmount refuses a mount that has others below it (with siblings, always)
\* or a file open on it.
UnmountRoot ==
    /\ Deferred("unmount")
    /\ \/ Works /\ Reachable /\ mnt = {"root"} /\ ~leaked /\ mnt' = {} /\ UNCHANGED logged
       \/ /\ Works /\ ~(Reachable /\ mnt = {"root"} /\ ~leaked)
          /\ logged' = logged \cup {"unmount"} /\ UNCHANGED mnt
       \/ Fails /\ logged' = logged \cup {"unmount"} /\ UNCHANGED mnt
    /\ Same /\ UNCHANGED <<files, pc, k, root, fetched, failed>>

Exit ==
    /\ pc = "return" /\ defers = <<>> /\ Goto("done")
    /\ Same /\ Works /\ UNCHANGED <<files, defers, mnt, root, fetched, failed, logged>>

\* SIGKILL or a reset: the deferred calls are not run.
Kill ==
    /\ pc \notin {"idle", "done"} /\ faults < MaxFaults /\ faults' = faults + 1
    /\ Goto("idle") /\ mnt' = {} /\ defers' = <<>> /\ leaked' = FALSE
    /\ Kept /\ UNCHANGED <<files, root, fetched, failed, logged, faulty>>

\* The garbage collector may close a file nobody refers to any more, at any
\* time or never.
Finalize ==
    /\ leaked /\ leaked' = FALSE
    /\ Kept /\ Works /\ UNCHANGED <<files, pc, k, defers, mnt, root, fetched, failed, logged>>

Step ==
    \/ Mkdir \/ Mount \/ FetchSiblings \/ MountExtra \/ ExtrasMounted
    \/ BackupFile \/ CreateResolv \/ MountSpecialDir \/ DeferUmount \/ Chroot
    \/ RunCommand \/ ReturnNil
    \/ ExitChroot \/ UmountSpecialDirs \/ RestoreFile \/ UnmountRoot \/ Exit

Next == Step \/ Finalize \/ Start \/ Kill

Spec == Init /\ [][Next]_vars

-----------------------------------------------------------------------------
(* Properties.                                                             *)

Returned == pc = "done"

\* On every path out of cexec, early returns in the middle of the set-up
\* included, the target's resolv.conf is what it was, unless the log says
\* that it could not be restored.
ResolvRestored == Returned /\ "restore" \notin logged => resolv = was

\* Commands run on the finished mount tree only: chrooted into the mounted
\* target with every pseudo file system and, when the metadata was there,
\* every sibling in place.
CommandInTarget ==
    pc = "cmd" =>
        /\ "root" \in mnt
        /\ set.chroot => /\ root = "target"
                         /\ {SpecialDirs[x] : x \in DOMAIN SpecialDirs} \subseteq mnt
        /\ fetched => Sibs \subseteq mnt

\* A step in which no call fails on its own leaves the chroot and takes down
\* all it set up, in an order in which nothing is busy, except the siblings,
\* which nobody unmounts, and the root below them or below the open file; of
\* a root left mounted the log tells.
CleanExit ==
    Returned /\ ~faulty =>
        /\ root = "container"
        /\ mnt \subseteq {"root"} \cup (IF fetched THEN Sibs ELSE {})
        /\ logged = IF mnt = {} THEN {} ELSE {"unmount"}
        /\ mnt # {} => fetched \/ (set.chroot /\ set.resolv)

\* cexec/main.go "restore the original resolv.conf": a step in which nothing
\* failed leaves the original resolv.conf in place.
OriginalRestored ==
    Returned /\ ~failed /\ "restore" \notin logged /\ set.resolv => resolv = "orig"
=============================================================================
