----------------------------- MODULE CexecProof -----------------------------
(***************************************************************************)
(* For every list of siblings, all settings, and any number of steps,      *)
(* failing calls and kills: what cexec owes the target, where its commands *)
(* run and what a clean step leaves.  The argument is a picture of cexec   *)
(* at each call: the stack of deferred calls (Stacked), the mounts made so *)
(* far, exactly (Tree), who has the target's resolv.conf (Debt), and, from *)
(* the return on if no call failed, the mounts left at each height of the  *)
(* stack (Unwinding).                                                      *)
(***************************************************************************)
EXTENDS Cexec, TLAPS

\* The deferred calls, by how far the set-up got.
Rooted     == <<"unmount">> \o <<>>
Borrowed   == <<"restore">> \o Rooted
Mounted(d) == <<"umountSpecial">> \o d
Inside(d)  == <<"exitChroot">> \o Mounted(d)

\* What is below the special directories' umount.
Moved == IF set.resolv THEN Borrowed ELSE Rooted

Stacks == {<<>>, Rooted, Borrowed, Mounted(Rooted), Mounted(Borrowed), Inside(Rooted), Inside(Borrowed)}

\* Those that still hold the deferred restoreFile.
Owing == {Borrowed, Mounted(Borrowed), Inside(Borrowed)}

Stacked ==
    /\ pc \in {"idle", "mkdir", "mount", "done"} => defers = <<>>
    /\ pc \in {"siblings", "backup"} => defers = Rooted
    /\ pc = "create" => defers = Borrowed
    /\ pc = "special" => defers = Moved
    /\ pc = "chroot" => defers = Mounted(Moved)
    /\ pc = "cmd" => defers = IF set.chroot THEN Inside(Moved) ELSE Rooted
    /\ defers \in Stacks

\* What the settings have to say for cexec to get where it is.
Phase ==
    /\ pc \in {"backup", "create"} \/ leaked => set.chroot /\ set.resolv
    /\ pc \in {"special", "chroot"} => set.chroot
    /\ fetched => Siblings # <<>>
    /\ pc \notin {"idle", "return", "done"} => logged = {}
    /\ pc \in {"mkdir", "mount", "siblings", "backup", "create", "special", "chroot"} =>
           root = "container"
    /\ pc = "cmd" => root = IF set.chroot THEN "target" ELSE "container"

\* The mounts below the target's root that mountSpecialDirs did not make.
Base == {"root"} \cup (IF fetched THEN Sibs ELSE {})
Dirs == {SpecialDirs[x] : x \in DOMAIN SpecialDirs}
Made(dirs) == {dirs[x] : x \in 1..(k - 1)}

Tree ==
    /\ pc \in {"mkdir", "mount"} => mnt = {} /\ ~fetched
    /\ pc = "siblings" => mnt = {"root"} \cup Made(Siblings) /\ (fetched \/ k = 1)
    /\ pc \in {"backup", "create"} => mnt = Base
    /\ pc = "special" => mnt = Base \cup Made(SpecialDirs)
    /\ pc = "chroot" => mnt = Base \cup Dirs
    /\ pc = "cmd" => mnt = IF set.chroot THEN Base \cup Dirs ELSE Base

\* restoreFile is still due and has what it needs, or resolv.conf is back,
\* or its loss was logged.
Debt ==
    pc # "idle" => IF defers \in Owing THEN backup = was /\ was # "none"
                                       ELSE resolv = was \/ "restore" \in logged

\* Without a failing call, each deferred call finds what it undoes.
Unwinding ==
    pc \in {"return", "done"} /\ ~faulty =>
        /\ root = IF defers \in {Inside(Borrowed), Inside(Rooted)} THEN "target" ELSE "container"
        /\ defers # <<>> => logged = {}
        /\ defers \in {Inside(Borrowed), Inside(Rooted), Mounted(Borrowed), Mounted(Rooted)} =>
               mnt = Base \cup Dirs
        /\ defers \in {Borrowed, Rooted} => mnt = Base
        /\ defers = <<>> => \/ mnt = {} /\ logged = {}
                            \/ /\ mnt = Base /\ logged = {"unmount"}
                               /\ fetched \/ (set.chroot /\ set.resolv)

IInv == TypeOK /\ Stacked /\ Phase /\ Tree /\ Debt /\ Unwinding

-----------------------------------------------------------------------------
(* Facts about the operators.                                              *)

Calls == {"unmount", "restore", "umountSpecial", "exitChroot"}

\* Nothing is deferred at the start.
LEMMA EmptyStack == <<>> \in Seq(Calls)
  OBVIOUS

\* Deferring puts a call on the stack, running it takes that call off.
LEMMA PushPop ==
    ASSUME NEW f \in Calls, NEW s \in Seq(Calls)
    PROVE  /\ <<f>> \o s \in Seq(Calls)
           /\ Len(<<f>> \o s) = Len(s) + 1
           /\ Head(<<f>> \o s) = f
           /\ Tail(<<f>> \o s) = s
  <1>1. <<f>> \o s \in Seq(Calls) /\ Len(<<f>> \o s) = Len(s) + 1
    OBVIOUS
  <1>2. Head(<<f>> \o s) = f
    OBVIOUS
  <1>3. Tail(<<f>> \o s) = s
    OBVIOUS
  <1> QED
    BY <1>1, <1>2, <1>3

\* The height and the top of each stack, and what is below the top.
LEMMA StackFacts ==
    /\ Rooted \in Seq(Calls) /\ Len(Rooted) = 1 /\ Head(Rooted) = "unmount" /\ Tail(Rooted) = <<>>
    /\ Borrowed \in Seq(Calls) /\ Len(Borrowed) = 2 /\ Head(Borrowed) = "restore"
    /\ Tail(Borrowed) = Rooted
    /\ \A d \in {Rooted, Borrowed} :
          /\ Mounted(d) \in Seq(Calls) /\ Len(Mounted(d)) = Len(d) + 1
          /\ Head(Mounted(d)) = "umountSpecial" /\ Tail(Mounted(d)) = d
          /\ Inside(d) \in Seq(Calls) /\ Len(Inside(d)) = Len(d) + 2
          /\ Head(Inside(d)) = "exitChroot" /\ Tail(Inside(d)) = Mounted(d)
  <1>1. /\ "unmount" \in Calls /\ "restore" \in Calls
        /\ "umountSpecial" \in Calls /\ "exitChroot" \in Calls
        /\ <<>> \in Seq(Calls) /\ Len(<<>>) = 0
    BY DEF Calls
  <1>2. /\ Rooted \in Seq(Calls) /\ Len(Rooted) = Len(<<>>) + 1
        /\ Head(Rooted) = "unmount" /\ Tail(Rooted) = <<>>
    BY <1>1, PushPop, Zenon DEF Rooted
  <1>3. /\ Borrowed \in Seq(Calls) /\ Len(Borrowed) = Len(Rooted) + 1
        /\ Head(Borrowed) = "restore" /\ Tail(Borrowed) = Rooted
    BY <1>1, <1>2, PushPop, Zenon DEF Borrowed
  <1>4. ASSUME NEW d \in Seq(Calls)
        PROVE  /\ Mounted(d) \in Seq(Calls) /\ Len(Mounted(d)) = Len(d) + 1
               /\ Head(Mounted(d)) = "umountSpecial" /\ Tail(Mounted(d)) = d
               /\ Inside(d) \in Seq(Calls) /\ Len(Inside(d)) = Len(Mounted(d)) + 1
               /\ Head(Inside(d)) = "exitChroot" /\ Tail(Inside(d)) = Mounted(d)
    <2>1. /\ Mounted(d) \in Seq(Calls) /\ Len(Mounted(d)) = Len(d) + 1
          /\ Head(Mounted(d)) = "umountSpecial" /\ Tail(Mounted(d)) = d
      BY <1>1, PushPop, Zenon DEF Mounted
    <2>2. /\ Inside(d) \in Seq(Calls) /\ Len(Inside(d)) = Len(Mounted(d)) + 1
          /\ Head(Inside(d)) = "exitChroot" /\ Tail(Inside(d)) = Mounted(d)
      BY <1>1, <2>1, PushPop, Zenon DEF Inside
    <2> QED
      BY <2>1, <2>2
  <1>5. Len(Rooted) = 1 /\ Len(Borrowed) = 2
    BY <1>1, <1>2, <1>3
  <1>6. \A d \in {Rooted, Borrowed} : Len(Inside(d)) = Len(d) + 2
    BY <1>2, <1>3, <1>4
  <1> QED
    BY <1>2, <1>3, <1>4, <1>5, <1>6, Zenon

\* Stacks of different heights differ, and so do those with and without the
\* deferred restoreFile.
LEMMA StacksDiffer ==
    /\ \A d \in {<<>>, Rooted, Mounted(Rooted), Inside(Rooted)} : d \notin Owing
    /\ \A d \in {Borrowed, Mounted(Borrowed), Inside(Borrowed)} : d \in Owing
    /\ <<>> \notin {Rooted, Borrowed, Mounted(Borrowed), Mounted(Rooted), Inside(Borrowed), Inside(Rooted)}
    /\ \A d \in {Rooted, Borrowed} :
          d \notin {Mounted(Borrowed), Mounted(Rooted), Inside(Borrowed), Inside(Rooted)}
    /\ \A d \in {Mounted(Borrowed), Mounted(Rooted)} : d \notin {Inside(Borrowed), Inside(Rooted)}
  <1>1. /\ \A d \in {Rooted, Borrowed} :
              Head(Mounted(d)) = "umountSpecial" /\ Head(Inside(d)) = "exitChroot"
        /\ Head(Borrowed) = "restore" /\ Head(Rooted) = "unmount"
    BY StackFacts
  <1>2. /\ Len(Rooted) = 1 /\ Len(Borrowed) = 2
        /\ Len(Mounted(Borrowed)) = 3 /\ Len(Mounted(Rooted)) = 2
        /\ Len(Inside(Borrowed)) = 4 /\ Len(Inside(Rooted)) = 3
        /\ Len(<<>>) = 0
    <2>1. /\ Len(Rooted) = 1 /\ Len(Borrowed) = 2
          /\ Len(Mounted(Borrowed)) = Len(Borrowed) + 1 /\ Len(Mounted(Rooted)) = Len(Rooted) + 1
          /\ Len(Inside(Borrowed)) = Len(Borrowed) + 2 /\ Len(Inside(Rooted)) = Len(Rooted) + 2
      BY StackFacts, Zenon
    <2> QED
      BY <2>1
  <1>3. <<>> \notin {Rooted, Borrowed, Mounted(Borrowed), Mounted(Rooted), Inside(Borrowed), Inside(Rooted)}
    <2>1. \A f \in Calls, d \in Seq(Calls) : <<f>> \o d # <<>>
      OBVIOUS
    <2>2. \A d \in Seq(Calls) : Mounted(d) # <<>> /\ Inside(d) # <<>>
      <3>1. ASSUME NEW d \in Seq(Calls) PROVE Mounted(d) \in Seq(Calls)
        BY PushPop, Zenon DEF Mounted, Calls
      <3> QED
        BY <2>1, <3>1, Zenon DEF Mounted, Inside, Calls
    <2>3. Rooted # <<>> /\ Borrowed # <<>>
      BY <2>1, StackFacts, Zenon DEF Rooted, Borrowed, Calls
    <2> QED
      BY <2>2, <2>3, StackFacts, Zenon
  <1>4. /\ Rooted \notin {Borrowed, Mounted(Borrowed), Mounted(Rooted), Inside(Borrowed), Inside(Rooted)}
        /\ Mounted(Borrowed) # Mounted(Rooted) /\ Inside(Borrowed) # Inside(Rooted)
    BY <1>2
  <1>5. /\ Borrowed \notin {Mounted(Borrowed), Mounted(Rooted), Inside(Borrowed), Inside(Rooted)}
        /\ \A d, e \in {Rooted, Borrowed} : Mounted(d) # Inside(e)
    BY <1>1
  <1> QED
    BY <1>3, <1>4, <1>5, Zenon DEF Owing

\* The deferred call that runs tells the stack, up to resolv.conf.
LEMMA Pops ==
    ASSUME defers \in Stacks
    PROVE  /\ Deferred("exitChroot") => \E d \in {Rooted, Borrowed} : defers = Inside(d) /\ defers' = Mounted(d)
           /\ Deferred("umountSpecial") => \E d \in {Rooted, Borrowed} : defers = Mounted(d) /\ defers' = d
           /\ Deferred("restore") => defers = Borrowed /\ defers' = Rooted
           /\ Deferred("unmount") => defers = Rooted /\ defers' = <<>>
  BY StackFacts DEF Deferred, Stacks

\* What the set-up defers.
LEMMA Pushes ==
    /\ defers = <<>> /\ Defer("unmount") => defers' = Rooted
    /\ defers = Rooted /\ Defer("restore") => defers' = Borrowed
    /\ \A d : defers = d /\ Defer("umountSpecial") => defers' = Mounted(d)
    /\ \A d : defers = Mounted(d) /\ Defer("exitChroot") => defers' = Inside(d)
  BY Zenon DEF Defer, Rooted, Borrowed, Mounted, Inside

-----------------------------------------------------------------------------
(* The set-up.                                                             *)

\* The mounts at the start of a loop, after one more round, and at its end.
LEMMA MadeFacts ==
    ASSUME NEW dirs, DOMAIN dirs = 1..Len(dirs), Len(dirs) \in Nat, k \in Nat
    PROVE  /\ k' = 1 => Made(dirs)' = {}
           /\ k = 1 => Made(dirs) = {}
           /\ k >= 1 /\ k' = k + 1 => Made(dirs)' = Made(dirs) \cup {dirs[k]}
           /\ k = Len(dirs) + 1 => Made(dirs) = {dirs[n] : n \in DOMAIN dirs}
  BY DEF Made

\* The settings are Booleans, the lists are lists.
LEMMA Settled ==
    ASSUME TypeOK
    PROVE  /\ set.chroot \in BOOLEAN /\ set.resolv \in BOOLEAN /\ set.cmds \in Nat
           /\ DOMAIN Siblings = 1..Len(Siblings) /\ Len(Siblings) \in Nat
           /\ DOMAIN SpecialDirs = 1..Len(SpecialDirs) /\ Len(SpecialDirs) \in Nat
           /\ Dirs \subseteq Special
           /\ Sibs \cap ({"root"} \cup Special) = {}
           /\ Siblings # <<>> => Sibs # {}
  <1>1. /\ set.chroot \in BOOLEAN /\ set.resolv \in BOOLEAN /\ set.cmds \in Nat
        /\ DOMAIN Siblings = 1..Len(Siblings) /\ Len(Siblings) \in Nat
    BY CexecAssumption DEF TypeOK
  <1>2. SpecialDirs \in Seq(Special)
    <2>1. \A a, b, c \in Special : <<a, b, c>> \in Seq(Special)
      OBVIOUS
    <2>2. \A a, b, c, d \in Special : <<a, b, c, d>> \in Seq(Special)
      OBVIOUS
    <2> QED
      BY <2>1, <2>2 DEF SpecialDirs, Special
  <1>3. Sibs \cap ({"root"} \cup Special) = {}
    BY CexecAssumption DEF Sibs, Special
  <1>4. Siblings # <<>> => Sibs # {}
    BY <1>1, CexecAssumption DEF Sibs
  <1>5. /\ DOMAIN SpecialDirs = 1..Len(SpecialDirs) /\ Len(SpecialDirs) \in Nat
        /\ Dirs \subseteq Special
    BY <1>2 DEF Dirs
  <1> QED
    BY <1>1, <1>3, <1>4, <1>5
-----------------------------------------------------------------------------
(* Types.                                                                  *)

\* Every action keeps every variable's type.
LEMMA TypeStep == TypeOK /\ [Next]_vars => TypeOK'
  <1> SUFFICES ASSUME TypeOK, Next PROVE TypeOK'
    BY DEF TypeOK, vars, files, SpecialDirs
  <1> USE DEF files, Goto, ReturnError, Kept, Same, Works, Fails,
             Next, Step, Mkdir, Mount,
             FetchSiblings, Prepare, MountExtra, ExtrasMounted, BackupFile, CreateResolv,
             MountSpecialDir, DeferUmount, Chroot, RunCommand, ReturnNil, ExitChroot,
             UmountSpecialDirs, RestoreFile, UnmountRoot, Exit, Finalize, Start, Kill
  <1>1. resolv' \in Contents /\ backup' \in Contents /\ was' \in Contents
    BY DEF TypeOK, Contents
  <1>2. set' \in Settings /\ root' \in {"container", "target"} /\ logged' \subseteq {"unmount", "restore"}
    BY DEF TypeOK
  <1>3. pc' \in {"idle", "mkdir", "mount", "siblings", "backup", "create", "special", "chroot",
                "cmd", "return", "done"}
    BY DEF TypeOK
  <1>4. k' \in Nat
    BY DEF TypeOK
  <1>5. pc' = "cmd" => k' \in 1..(set'.cmds + 1)
    BY Settled DEF TypeOK
  <1>6. pc' = "special" => k' \in 1..(Len(SpecialDirs') + 1)
    BY Settled DEF TypeOK, SpecialDirs
  <1>7. pc' = "siblings" => k' \in 1..(Len(Siblings) + 1)
    BY Settled DEF TypeOK
  <1>8. defers' \in Seq({"unmount", "restore", "umountSpecial", "exitChroot"})
    <2>1. \A f \in Calls, d \in Seq(Calls) : <<f>> \o d \in Seq(Calls)
      BY PushPop
    <2>2. \A d \in Seq(Calls) : d # <<>> => Tail(d) \in Seq(Calls)
      OBVIOUS
    <2>3. defers \in Seq(Calls)
      BY DEF TypeOK, Calls
    <2>4. \/ defers' \in {defers, <<>>}
          \/ defers # <<>> /\ defers' = Tail(defers)
          \/ \E f \in Calls : defers' = <<f>> \o defers
      BY DEF Deferred, Defer, Calls
    <2> QED
      BY <2>1, <2>2, <2>3, <2>4, EmptyStack, Zenon DEF Calls
  <1>9. mnt' \subseteq {"root"} \cup Special \cup Sibs
    <2>1. /\ \A n \in 1..Len(Siblings) : Siblings[n] \in Sibs
          /\ \A n \in 1..Len(SpecialDirs) : SpecialDirs[n] \in Special
      BY Settled DEF Sibs, Dirs
    <2>2. mnt \subseteq {"root"} \cup Special \cup Sibs
      BY DEF TypeOK
    <2>3. \/ mnt' \subseteq mnt
          \/ mnt' = mnt \cup {"root"}
          \/ k \in 1..Len(Siblings) /\ mnt' = mnt \cup {Siblings[k]}
          \/ k \in 1..Len(SpecialDirs) /\ mnt' = mnt \cup {SpecialDirs[k]}
      BY Settled DEF TypeOK
    <2>4. ASSUME mnt' \subseteq mnt PROVE mnt' \subseteq {"root"} \cup Special \cup Sibs
      BY <2>2, <2>4, Zenon
    <2>5. ASSUME NEW e \in {"root"} \cup Special \cup Sibs, mnt' = mnt \cup {e}
          PROVE  mnt' \subseteq {"root"} \cup Special \cup Sibs
      BY <2>2, <2>5, Zenon
    <2> QED
      BY <2>1, <2>3, <2>4, <2>5, Zenon
  <1>10. leaked' \in BOOLEAN /\ fetched' \in BOOLEAN /\ failed' \in BOOLEAN /\ faulty' \in BOOLEAN
    BY DEF TypeOK
  <1>11. faults' \in 0..MaxFaults /\ runs' \in 0..MaxRuns
    BY CexecAssumption DEF TypeOK
  <1> QED
    BY <1>1, <1>2, <1>3, <1>4, <1>5, <1>6, <1>7, <1>8, <1>9, <1>10, <1>11, Zenon DEF TypeOK
-----------------------------------------------------------------------------
(* The steps keep the picture.                                             *)

\* Each action defers, or runs, what Stacked says.
LEMMA StackedStep == ASSUME TypeOK, Stacked, Phase, Next PROVE Stacked'
  <1> USE DEF Stacked, Phase, files, Goto, ReturnError, Kept, Same, Works, Fails
  <1>0. /\ \A d \in {Rooted, Borrowed} : d \in Stacks /\ Mounted(d) \in Stacks /\ Inside(d) \in Stacks
        /\ <<>> \in Stacks
        /\ Moved \in {Rooted, Borrowed}
        /\ set' = set => Moved' = Moved
    BY Zenon DEF Stacks, Moved
  <1>1. CASE Mkdir
    BY <1>0, <1>1 DEF Mkdir
  <1>2. CASE Mount
    BY <1>0, <1>2, Pushes DEF Mount
  <1>3. CASE FetchSiblings
    BY <1>0, <1>3 DEF FetchSiblings, Prepare, Moved
  <1>4. CASE MountExtra
    BY <1>0, <1>4 DEF MountExtra
  <1>5. CASE ExtrasMounted
    BY <1>0, <1>5 DEF ExtrasMounted, Prepare, Moved
  <1>6. CASE BackupFile
    BY <1>0, <1>6, Pushes DEF BackupFile
  <1>7. CASE CreateResolv
    BY <1>0, <1>7 DEF CreateResolv, Moved
  <1>8. CASE MountSpecialDir
    BY <1>0, <1>8 DEF MountSpecialDir, Moved
  <1>9. CASE DeferUmount
    BY <1>0, <1>9, Pushes DEF DeferUmount
  <1>10. CASE Chroot
    BY <1>0, <1>10, Pushes DEF Chroot
  <1>11. CASE RunCommand
    BY <1>0, <1>11 DEF RunCommand
  <1>12. CASE ReturnNil
    BY <1>0, <1>12 DEF ReturnNil
  <1>13. CASE ExitChroot
    BY <1>0, <1>13, Pops DEF ExitChroot, Deferred
  <1>14. CASE UmountSpecialDirs
    BY <1>0, <1>14, Pops DEF UmountSpecialDirs, Deferred
  <1>15. CASE RestoreFile
    BY <1>0, <1>15, Pops DEF RestoreFile, Deferred
  <1>16. CASE UnmountRoot
    BY <1>0, <1>16, Pops DEF UnmountRoot, Deferred
  <1>17. CASE Exit
    BY <1>0, <1>17 DEF Exit
  <1>18. CASE Finalize
    BY <1>0, <1>18 DEF Finalize, Moved
  <1>19. CASE Start
    BY <1>0, <1>19 DEF Start
  <1>20. CASE Kill
    BY <1>0, <1>20 DEF Kill
  <1> QED
    BY <1>1, <1>2, <1>3, <1>4, <1>5, <1>6, <1>7, <1>8, <1>9, <1>10, <1>11, <1>12, <1>13, <1>14, 
       <1>15, <1>16, <1>17, <1>18, <1>19, <1>20 DEF Next, Step
\* The settings decide which calls cexec makes.
LEMMA PhaseStep == ASSUME TypeOK, Phase, Next PROVE Phase'
  <1> USE DEF Phase, files, Goto, ReturnError, Kept, Same, Works, Fails
  <1>0. set.chroot \in BOOLEAN /\ set.resolv \in BOOLEAN
    BY Settled
  <1>1. CASE Mkdir
    BY <1>1, <1>0 DEF Mkdir
  <1>2. CASE Mount
    BY <1>2, <1>0 DEF Mount
  <1>3. CASE FetchSiblings
    BY <1>3, <1>0 DEF FetchSiblings, Prepare
  <1>4. CASE MountExtra
    BY <1>4, <1>0 DEF MountExtra
  <1>5. CASE ExtrasMounted
    BY <1>5, <1>0 DEF ExtrasMounted, Prepare
  <1>6. CASE BackupFile
    BY <1>6, <1>0 DEF BackupFile
  <1>7. CASE CreateResolv
    BY <1>7, <1>0 DEF CreateResolv
  <1>8. CASE MountSpecialDir
    BY <1>8, <1>0 DEF MountSpecialDir
  <1>9. CASE DeferUmount
    BY <1>9, <1>0 DEF DeferUmount
  <1>10. CASE Chroot
    BY <1>10, <1>0 DEF Chroot
  <1>11. CASE RunCommand
    BY <1>11, <1>0 DEF RunCommand
  <1>12. CASE ReturnNil
    BY <1>12, <1>0 DEF ReturnNil
  <1>13. CASE ExitChroot
    BY <1>13, <1>0 DEF ExitChroot, Deferred
  <1>14. CASE UmountSpecialDirs
    BY <1>14, <1>0 DEF UmountSpecialDirs, Deferred
  <1>15. CASE RestoreFile
    BY <1>15, <1>0 DEF RestoreFile, Deferred
  <1>16. CASE UnmountRoot
    BY <1>16, <1>0 DEF UnmountRoot, Deferred
  <1>17. CASE Exit
    BY <1>17, <1>0 DEF Exit
  <1>18. CASE Finalize
    BY <1>18, <1>0 DEF Finalize
  <1>19. CASE Start
    BY <1>19, <1>0 DEF Start
  <1>20. CASE Kill
    BY <1>20, <1>0 DEF Kill
  <1> QED
    BY <1>1, <1>2, <1>3, <1>4, <1>5, <1>6, <1>7, <1>8, <1>9, <1>10, <1>11, <1>12, <1>13, <1>14, 
       <1>15, <1>16, <1>17, <1>18, <1>19, <1>20 DEF Next, Step

\* A loop that mounts one directory after the other has made those before k.
LEMMA TreeStep == ASSUME TypeOK, Phase, Tree, Next PROVE Tree'
  <1> USE DEF Tree, files, Goto, ReturnError, Kept, Same, Works, Fails
  <1>0. /\ DOMAIN Siblings = 1..Len(Siblings) /\ Len(Siblings) \in Nat /\ k \in Nat
        /\ DOMAIN SpecialDirs = 1..Len(SpecialDirs) /\ Len(SpecialDirs) \in Nat
        /\ set' = set => SpecialDirs' = SpecialDirs /\ Dirs' = Dirs
        /\ fetched' = fetched => Base' = Base
        /\ pc = "siblings" => k \in 1..(Len(Siblings) + 1)
        /\ pc = "special" => k \in 1..(Len(SpecialDirs) + 1)
    BY Settled DEF TypeOK, SpecialDirs, Dirs, Base
  <1>m. /\ \A dirs \in {Siblings, SpecialDirs} :
              /\ k' = k => Made(dirs)' = Made(dirs)
              /\ k' = 1 => Made(dirs)' = {}
              /\ k = 1 => Made(dirs) = {}
              /\ k >= 1 /\ k' = k + 1 => Made(dirs)' = Made(dirs) \cup {dirs[k]}
        /\ k = Len(Siblings) + 1 => Made(Siblings) = Sibs
        /\ k = Len(SpecialDirs) + 1 => Made(SpecialDirs) = Dirs
    BY <1>0, MadeFacts DEF Made, Sibs, Dirs
  <1>1. CASE Mkdir
    BY <1>1, <1>0, <1>m DEF Mkdir
  <1>2. CASE Mount
    BY <1>2, <1>0, <1>m DEF Mount
  <1>3. CASE FetchSiblings
    BY <1>3, <1>0, <1>m DEF FetchSiblings, Prepare, Base
  <1>4. CASE MountExtra
    BY <1>4, <1>0, <1>m DEF MountExtra
  <1>5. CASE ExtrasMounted
    BY <1>5, <1>0, <1>m DEF ExtrasMounted, Prepare, Base
  <1>6. CASE BackupFile
    BY <1>6, <1>0, <1>m DEF BackupFile
  <1>7. CASE CreateResolv
    BY <1>7, <1>0, <1>m DEF CreateResolv
  <1>8. CASE MountSpecialDir
    BY <1>8, <1>0, <1>m DEF MountSpecialDir
  <1>9. CASE DeferUmount
    BY <1>9, <1>0, <1>m DEF DeferUmount
  <1>10. CASE Chroot
    <2>1. set.chroot /\ mnt = Base \cup Dirs /\ UNCHANGED <<mnt, set, fetched>>
      BY <1>10, Zenon DEF Chroot, Phase
    <2>2. pc' = "cmd" \/ pc' = "return"
      BY <1>10, Zenon DEF Chroot
    <2> QED
      BY <2>1, <2>2, <1>0
  <1>11. CASE RunCommand
    BY <1>11, <1>0, <1>m DEF RunCommand
  <1>12. CASE ReturnNil
    BY <1>12, <1>0, <1>m DEF ReturnNil
  <1>13. CASE ExitChroot
    BY <1>13, <1>0, <1>m DEF ExitChroot, Deferred
  <1>14. CASE UmountSpecialDirs
    BY <1>14, <1>0, <1>m DEF UmountSpecialDirs, Deferred
  <1>15. CASE RestoreFile
    BY <1>15, <1>0, <1>m DEF RestoreFile, Deferred
  <1>16. CASE UnmountRoot
    BY <1>16, <1>0, <1>m DEF UnmountRoot, Deferred
  <1>17. CASE Exit
    BY <1>17, <1>0, <1>m DEF Exit
  <1>18. CASE Finalize
    BY <1>18, <1>0, <1>m DEF Finalize
  <1>19. CASE Start
    BY <1>19, <1>0, <1>m DEF Start
  <1>20. CASE Kill
    BY <1>20, <1>0, <1>m DEF Kill
  <1> QED
    BY <1>1, <1>2, <1>3, <1>4, <1>5, <1>6, <1>7, <1>8, <1>9, <1>10, <1>11, <1>12, <1>13, <1>14, 
       <1>15, <1>16, <1>17, <1>18, <1>19, <1>20 DEF Next, Step
\* restoreFile stays due until it runs or is known to have failed.
LEMMA DebtStep == ASSUME TypeOK, Stacked, Phase, Debt, Next PROVE Debt'
  <1> USE DEF Stacked, Debt, files, Goto, ReturnError, Kept, Same, Works, Fails
  <1>1. CASE Mkdir
    BY <1>1, StacksDiffer DEF Mkdir
  <1>2. CASE Mount
    BY <1>2, StacksDiffer, Pushes DEF Mount
  <1>3. CASE FetchSiblings
    BY <1>3, StacksDiffer DEF FetchSiblings, Prepare
  <1>4. CASE MountExtra
    BY <1>4, StacksDiffer DEF MountExtra
  <1>5. CASE ExtrasMounted
    BY <1>5, StacksDiffer DEF ExtrasMounted, Prepare
  <1>6. CASE BackupFile
    BY <1>6, StacksDiffer, Pushes DEF BackupFile, Phase
  <1>7. CASE CreateResolv
    BY <1>7, StacksDiffer DEF CreateResolv
  <1>8. CASE MountSpecialDir
    BY <1>8, StacksDiffer DEF MountSpecialDir
  <1>9. CASE DeferUmount
    BY <1>9, StacksDiffer, Pushes DEF DeferUmount, Moved
  <1>10. CASE Chroot
    BY <1>10, StacksDiffer, Pushes DEF Chroot, Moved
  <1>11. CASE RunCommand
    BY <1>11, StacksDiffer DEF RunCommand
  <1>12. CASE ReturnNil
    BY <1>12, StacksDiffer DEF ReturnNil
  <1>13. CASE ExitChroot
    BY <1>13, StacksDiffer, Pops DEF ExitChroot, Deferred
  <1>14. CASE UmountSpecialDirs
    BY <1>14, StacksDiffer, Pops DEF UmountSpecialDirs, Deferred
  <1>15. CASE RestoreFile
    BY <1>15, StacksDiffer, Pops DEF RestoreFile, Deferred
  <1>16. CASE UnmountRoot
    BY <1>16, StacksDiffer, Pops DEF UnmountRoot, Deferred
  <1>17. CASE Exit
    BY <1>17, StacksDiffer DEF Exit
  <1>18. CASE Finalize
    BY <1>18, StacksDiffer DEF Finalize
  <1>19. CASE Start
    BY <1>19, StacksDiffer DEF Start
  <1>20. CASE Kill
    BY <1>20, StacksDiffer DEF Kill
  <1> QED
    BY <1>1, <1>2, <1>3, <1>4, <1>5, <1>6, <1>7, <1>8, <1>9, <1>10, <1>11, <1>12, <1>13, <1>14, 
       <1>15, <1>16, <1>17, <1>18, <1>19, <1>20 DEF Next, Step
\* The mounts of the siblings, of the pseudo file systems and of the root do
\* not cover one another.
LEMMA BaseFacts ==
    ASSUME TypeOK
    PROVE  /\ "root" \in Base /\ "resolv" \notin Base
           /\ (Base \cup Dirs) \ Special = Base
           /\ Base # {"root"} => fetched
  <1>1. Dirs \subseteq Special /\ Sibs \cap ({"root"} \cup Special) = {}
    BY Settled
  <1>2. "root" \notin Special /\ "resolv" \in Special
    BY DEF Special
  <1> QED
    BY <1>1, <1>2 DEF Base

\* While no call fails, the deferred calls take down what the set-up put up.
LEMMA UnwindingStep == ASSUME IInv, Next PROVE Unwinding'
  <1> USE DEF Unwinding, Goto, ReturnError, Kept, Same, Works, Fails
  <1>0. TypeOK /\ Stacked /\ Phase /\ Tree /\ Debt /\ Unwinding
    BY DEF IInv
  <1>1. set' = set /\ fetched' = fetched => Base' = Base /\ Dirs' = Dirs
    BY DEF Base, Dirs, SpecialDirs
  <1>2. ASSUME pc' \notin {"return", "done"} \/ faulty' PROVE Unwinding'
    BY <1>2
  <1>3. CASE Mkdir \/ Mount \/ FetchSiblings \/ MountExtra \/ ExtrasMounted
    BY <1>3, <1>2 DEF Mkdir, Mount, FetchSiblings, Prepare, MountExtra, ExtrasMounted
  <1>4. CASE CreateResolv \/ MountSpecialDir \/ DeferUmount \/ Chroot \/ RunCommand
    BY <1>4, <1>2 DEF CreateResolv, MountSpecialDir, DeferUmount, Chroot, RunCommand
  <1>5. CASE Start \/ Kill
    BY <1>5, <1>2 DEF Start, Kill
  <1>6. CASE BackupFile
    <2>1. CASE faulty' \/ pc' # "return"
      BY <2>1, <1>2, <1>6 DEF BackupFile
    <2>2. CASE faulty' = faulty /\ pc' = "return"
      <3>1. /\ UNCHANGED <<set, fetched, mnt, root, logged, defers>>
            /\ defers = Rooted /\ mnt = Base /\ root = "container" /\ logged = {}
        BY <2>2, <1>6, <1>0 DEF BackupFile, Stacked, Tree, Phase
      <3> QED
        BY <3>1, <1>1, StacksDiffer
    <2> QED
      BY <2>1, <2>2, <1>6 DEF BackupFile
  <1>7. CASE ReturnNil
    <2>1. /\ UNCHANGED <<set, fetched, mnt, root, logged, defers>> /\ logged = {}
          /\ \/ /\ set.chroot /\ defers \in {Inside(Rooted), Inside(Borrowed)}
                /\ mnt = Base \cup Dirs /\ root = "target"
             \/ defers = Rooted /\ mnt = Base /\ root = "container"
      BY <1>7, <1>0, Settled DEF ReturnNil, Stacked, Tree, Phase, Moved
    <2> QED
      BY <2>1, <1>1, StacksDiffer
  <1>8. CASE ExitChroot
    BY <1>8, <1>0, <1>1, Pops, StacksDiffer DEF ExitChroot, Deferred, Stacked
  <1>9. CASE UmountSpecialDirs
    BY <1>9, <1>0, <1>1, Pops, StacksDiffer, BaseFacts DEF UmountSpecialDirs, Deferred, Stacked, Reachable
  <1>10. CASE RestoreFile
    BY <1>10, <1>0, <1>1, Pops, StacksDiffer, BaseFacts
       DEF RestoreFile, Deferred, Stacked, Debt, Reachable
  <1>11. CASE UnmountRoot
    BY <1>11, <1>0, <1>1, Pops, StacksDiffer, BaseFacts
       DEF UnmountRoot, Deferred, Stacked, Phase, Reachable
  <1>12. CASE Exit
    BY <1>12, <1>0, <1>1, StacksDiffer DEF Exit, Stacked
  <1>13. CASE Finalize
    BY <1>13, <1>0, <1>1 DEF Finalize
  <1> QED
    BY <1>3, <1>4, <1>5, <1>6, <1>7, <1>8, <1>9, <1>10, <1>11, <1>12, <1>13 DEF Next, Step
-----------------------------------------------------------------------------
(* Results.                                                                *)

\* Before the first step nothing is mounted or deferred.
LEMMA InitIInv == Init => IInv
  <1> SUFFICES ASSUME Init PROVE IInv
    OBVIOUS
  <1>1. TypeOK
    <2>1. defers \in Seq(Calls)
      BY EmptyStack DEF Init
    <2>2. leaked \in BOOLEAN /\ fetched \in BOOLEAN /\ failed \in BOOLEAN /\ faulty \in BOOLEAN
      BY DEF Init
    <2>3. faults \in 0..MaxFaults /\ runs \in 0..MaxRuns
      BY CexecAssumption DEF Init
    <2>4. defers \in Seq({"unmount", "restore", "umountSpecial", "exitChroot"})
      BY <2>1 DEF Calls
    <2> QED
      BY <2>2, <2>3, <2>4 DEF Init, TypeOK, Contents
  <1>2. Stacked /\ Phase /\ Tree /\ Debt /\ Unwinding
    BY DEF Init, Stacked, Stacks, Phase, Tree, Debt, Unwinding
  <1> QED
    BY <1>1, <1>2 DEF IInv

\* A step of nothing keeps everything.
LEMMA StutterIInv == IInv /\ UNCHANGED vars => IInv'
  <1> SUFFICES ASSUME IInv, UNCHANGED vars PROVE IInv'
    OBVIOUS
  <1> USE DEF IInv, vars, files
  <1>1. TypeOK'
    BY TypeStep
  <1>2. UNCHANGED <<SpecialDirs, Moved, Base, Dirs>> /\ \A dirs : Made(dirs)' = Made(dirs)
    BY DEF SpecialDirs, Moved, Base, Dirs, Made
  <1>3. Stacked' /\ Phase'
    BY <1>2 DEF Stacked, Phase
  <1>4. Tree'
    BY <1>2 DEF Tree
  <1>5. Debt' /\ Unwinding'
    BY <1>2 DEF Debt, Unwinding
  <1> QED
    BY <1>1, <1>3, <1>4, <1>5

\* The picture of cexec is true at every moment.
THEOREM Invariance == Spec => []IInv
  <1>1. IInv /\ [Next]_vars => IInv'
    BY StutterIInv, TypeStep, StackedStep, PhaseStep, TreeStep, DebtStep, UnwindingStep DEF IInv
  <1> QED
    BY InitIInv, <1>1, PTL DEF Spec

\* Every variable keeps its type.
THEOREM TypeCorrect == Spec => []TypeOK
  <1>1. IInv => TypeOK
    BY DEF IInv
  <1> QED
    BY Invariance, <1>1, PTL

\* ResolvRestored: however cexec returns, the target's resolv.conf is what it
\* was or the log says that it is not.
THEOREM ResolvKept == Spec => []ResolvRestored
  <1>1. IInv => ResolvRestored
    BY StacksDiffer DEF IInv, Stacked, Debt, ResolvRestored, Returned
  <1> QED
    BY Invariance, <1>1, PTL

\* CommandInTarget: no command runs before the whole mount tree is up, nor
\* outside the target when chroot is asked for.
THEOREM CommandsInside == Spec => []CommandInTarget
  <1>1. IInv => CommandInTarget
    BY DEF IInv, Phase, Tree, CommandInTarget, Base, Dirs
  <1> QED
    BY Invariance, <1>1, PTL

\* CleanExit: the deferred calls run in an order in which none finds what it
\* undoes in use, the siblings and the open file apart.
THEOREM ExitsClean == Spec => []CleanExit
  <1>1. IInv => CleanExit
    <2> SUFFICES ASSUME IInv, Returned, ~faulty
                 PROVE  /\ root = "container"
                        /\ mnt \subseteq {"root"} \cup (IF fetched THEN Sibs ELSE {})
                        /\ logged = IF mnt = {} THEN {} ELSE {"unmount"}
                        /\ mnt # {} => fetched \/ (set.chroot /\ set.resolv)
      BY DEF CleanExit
    <2>1. defers = <<>> /\ root = "container"
      BY StacksDiffer DEF IInv, Stacked, Unwinding, Returned
    <2>2. \/ mnt = {} /\ logged = {}
          \/ mnt = Base /\ logged = {"unmount"} /\ (fetched \/ (set.chroot /\ set.resolv))
      BY <2>1 DEF IInv, Unwinding, Returned
    <2> QED
      BY <2>1, <2>2 DEF Base
  <1> QED
    BY Invariance, <1>1, PTL
=============================================================================
