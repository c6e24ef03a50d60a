----------------------------- MODULE Configure ------------------------------
(***************************************************************************)
(* The configuration half of a workflow, as in                             *)
(* docs/templates/ubuntu-noble-lvm-raid1-efi.yaml: writefile, user-manage, *)
(* serial-console, grub2disk and kexec on one target, with failures, kills *)
(* and repeated runs.  What the actions leave meets in the files that      *)
(* several of them touch (/home, grub's defaults, grub.cfg) and in what    *)
(* the next run finds.                                                     *)
(***************************************************************************)
EXTENDS WriteFile, UserManage, Grub2disk, Kexec

all == <<control, tree, scars, users, grub, loader, booted>>

Init == TargetInit /\ UserManageInit /\ SerialConsoleInit /\ Grub2diskInit /\ KexecInit

Next ==
    \/ WriteFileNext /\ UNCHANGED <<users, grub, loader, booted>>
    \/ UserManageNext /\ UNCHANGED <<grub, loader, booted>>
    \/ SerialConsoleNext /\ UNCHANGED <<users, loader, booted>>
    \/ Grub2diskNext /\ UNCHANGED <<users, booted>>
    \/ KexecNext /\ UNCHANGED <<users, loader>>
    \/ (Stop \/ Rerun) /\ UNCHANGED <<users, grub, loader, booted>>

\* The actions never wait for anything but their tools, which return.  Nobody
\* owes a fault or another run.
Spec == Init /\ [][Next]_all

TypeOK ==
    /\ TargetTypeOK /\ UserManageTypeOK
    /\ \A v \in {"seen", "hidden"} :
        \/ grubcfg[v] = None
        \/ \A i \in DOMAIN grubcfg[v] :
               grubcfg[v][i].kind \in {"set default", "menuentry", "submenu", "linux", "initrd", "other"}
    /\ \A d \in Disks : esp[d].vendor \subseteq {"shim", "grub"} /\ esp[d].beside \in BOOLEAN
    /\ nvram \subseteq Disks /\ \A d \in Disks : reads[d] \in {None, "seen", "hidden"}

-----------------------------------------------------------------------------
(* Properties.  They speak of a workflow that has come to its end.         *)

\* A kexec leaves the plan where it stands: nothing behind it runs.
Finished == status \in {"done", "booted"} /\ at = Len(doc.plan)
Planned(k) == {i \in DOMAIN doc.plan : doc.plan[i].kind = k}
Wrote == {doc.plan[i] : i \in Planned("writefile")}

\* The image has the home of each of its accounts, and of no other name.
ImageFit(u) ==
    IF u \in DOMAIN doc.image.accounts
    THEN Home(u) \in DOMAIN doc.image.tree /\ doc.image.tree[Home(u)] = Dir(doc.image.accounts[u].uid)
    ELSE Home(u) \notin DOMAIN doc.image.tree

\* A user's home is the user's own, unless the image does not fit its accounts
\* or a fault came in the middle of useradd: then the next run takes the account
\* for complete, and MkdirAll makes a home that only root can enter.
HomeOwned(u) ==
    \/ tree[Home(u)] = Dir(Uid(u))
    \/ <<"useradd", u>> \in scars
    \/ ~ImageFit(u)

\* user-manage gives a user everything in the user's .ssh.
HandedOver(p) ==
    /\ Planned("user-manage") # {}
    /\ \E i \in DOMAIN Principals :
          LET u == Principals[i].name
          IN /\ Principals[i].keys /\ u \in DOMAIN accounts
             /\ SSHDir(u) \in UpTo(p) /\ tree[p].owner = Uid(u)

\* writefile: every file it was asked for is there at boot, whole and its last
\* owner's, and so is every directory that it made, unless a fault once came
\* between the Mkdir and the Chown of that very directory.  A home that
\* user-manage made first is the user's, and so is what lies in .ssh.  Files on
\* a sibling filesystem are not: writefile puts them below its mount point.
FilesAsAsked ==
    Finished => \A i \in Planned("writefile") :
        LET a == doc.plan[i]
        IN /\ OnRootOnly(a.path) = a.path
           /\ \A j \in Planned("writefile") : j > i => doc.plan[j].path # a.path
           => /\ tree[a.path].kind = "file"
              /\ tree[a.path].owner = a.uid \/ HandedOver(a.path)
              /\ \A d \in Above(a.path) \ DOMAIN doc.image.tree :
                    \/ <<"chown", d>> \in scars
                    \/ \E b \in Wrote : d \in Above(b.path) /\ tree[d] = Dir(b.uid)
                    \/ \E u \in DOMAIN accounts : d = Home(u) /\ HomeOwned(u)
                    \/ IsDir(d) /\ HandedOver(d)

\* user-manage: whatever failed in between, a finished workflow has made every
\* account with its password, keys and group as the metadata says.  The keys are
\* the user's, unless writefile was asked for that very file.
AccountsAsAsked ==
    Finished /\ Planned("user-manage") # {} => \A i \in DOMAIN Principals :
        LET p == Principals[i] u == p.name
        IN /\ u \in DOMAIN accounts
           /\ p.pw => accounts[u].pw
           /\ p.sudo => accounts[u].sudo
           /\ p.keys => /\ tree[SSHDir(u)] = Dir(Uid(u))
                        /\ tree[KeysFile(u)].kind = "file"
                        /\ tree[KeysFile(u)].owner = Uid(u) \/ \E a \in Wrote : a.path = KeysFile(u)

\* Keys are read as the user, through the home, which must be the user's own.
\* So it is, unless writefile made it first for another.
HomesOwned ==
    Finished /\ Planned("user-manage") # {} => \A i \in DOMAIN Principals :
        LET p == Principals[i] u == p.name
        IN p.keys => \/ HomeOwned(u)
                     \/ \E a \in Wrote : OnRootOnly(a.path) = a.path /\ Home(u) \in Above(a.path)

\* The first Match line in force, or the end; and the lines in front of it that
\* set directive d.
FirstMatch(s) == IF \E i \in DOMAIN s : s[i].dir = "Match" /\ ~s[i].off
                 THEN CHOOSE i \in DOMAIN s : /\ s[i].dir = "Match" /\ ~s[i].off
                                              /\ \A j \in 1..(i - 1) : s[j].dir # "Match" \/ s[j].off
                 ELSE Len(s) + 1
InForce(s, d) == {i \in 1..(FirstMatch(s) - 1) : s[i].dir = d /\ ~s[i].off}
FirstValue(s, d) == s[CHOOSE i \in InForce(s, d) : \A j \in InForce(s, d) : i <= j].val

\* Line l includes the drop-ins and they set d.
Includes(l, d) == l.dir = "Include" /\ ~l.off /\ InForce(doc.image.dropins, d) # {}

\* What sshd takes for directive d: the first value in front of any Match block,
\* with the drop-ins read where they are included.
Heeded(s, i, d) == (s[i].dir = d /\ ~s[i].off) \/ Includes(s[i], d)
Effective(s, d) ==
    LET L == {i \in 1..(FirstMatch(s) - 1) : Heeded(s, i, d)}
        x == CHOOSE i \in L : \A j \in L : i <= j
    IN IF L = {} THEN None
       ELSE IF Includes(s[x], d) THEN FirstValue(doc.image.dropins, d) ELSE s[x].val

\* user-manage/README.md:13: the directives "take effect on first boot".  They do
\* when the file of the image has no Match block, or the directive in front of
\* it, and in front of the directive no other spelling of it and no Include of
\* drop-ins that set it.  (The cloud image of build-noble-rootfs-tarball.sh:11
\* begins with such an Include: what its drop-in says of passwords stays in
\* force, whatever users.go:45-62 writes behind it.)  The rest of the file stays
\* as it was, line by line, unless a fault hit the write: then the next run
\* reads an empty file.
SSHDAsAsked ==
    LET s == doc.image.sshd
        Plain(d) == {i \in 1..(FirstMatch(s) - 1) : Matches(s[i], d)}
        Rivals(d) == {i \in DOMAIN s : (s[i].dir = d /\ s[i].odd /\ ~s[i].off) \/ Includes(s[i], d)}
        Heard(d) == \/ Plain(d) # {} /\ \A i \in Rivals(d) : \E j \in Plain(d) : j < i
                    \/ Rivals(d) = {} /\ FirstMatch(s) = Len(s) + 1
        Asked(d) == doc.sshd # None /\ d \in DOMAIN doc.sshd /\ doc.sshd[d] # None
    IN Finished /\ Planned("user-manage") # {} =>
        /\ \A d \in {"PermitRootLogin", "PasswordAuthentication"} :
               Asked(d) /\ Heard(d) => Effective(sshd, d) = doc.sshd[d]
        /\ \/ <<"sshd", "sshd">> \in scars
           \/ /\ DOMAIN s \subseteq DOMAIN sshd
              /\ \A i \in DOMAIN s :
                     \/ sshd[i] = s[i]
                     \/ Asked(s[i].dir) /\ sshd[i] = Line(s[i].dir, doc.sshd[s[i].dir])

\* serial-console: the menu that grub finds, and the kernel that kexec boots
\* from it, has the console of the metadata and no other serial one; grub's
\* own serial port is the same.  An image without a serial console gets none,
\* and a fault in the write of the defaults loses it for good.
ConsoleReachesKernel ==
    LET c == doc.console
        asked == <<c.tty, Baud(c)>>
        ours(args) == /\ \E i \in DOMAIN args : args[i] = asked
                      /\ \A i \in DOMAIN args : IsSerial(args[i][1]) => args[i] = asked
    IN /\ Finished /\ Planned("serial-console") # {} /\ c # None
       /\ \E i \in DOMAIN doc.image.defaults.cmdline : IsSerial(doc.image.defaults.cmdline[i][1])
       /\ <<"defaults", "defaults">> \notin scars
       => /\ \A i \in DOMAIN grubcfg.seen : grubcfg.seen[i].kind = "linux" => ours(grubcfg.seen[i].args)
          /\ booted # None /\ Act.kernel = None /\ Act.args = None => ours(booted.args)
          /\ defaults.serial # None => defaults.serial = <<TTYUnit(c.tty), Baud(c)>>

\* The places in the plan whose action writes the menu that is there at boot.
SeeBoot(i) == "boot" \in doc.siblings => doc.plan[i].mirror /\ <<"siblings", i>> \notin scars
MenuMakers == (IF doc.console # None THEN Planned("serial-console") ELSE {})
              \cup {i \in Planned("grub2disk") : SeeBoot(i)}

\* grub2disk: "the firmware fallback above keeps the disk bootable either way".
\* Every disk of the plan boots, its grub finds the menu at boot, and that menu is
\* whole, with every kernel of the image and the defaults as they were left.  Two
\* things go wrong untold: the copy of grub beside the shim fails, or /boot is a
\* sibling that the last grub2disk for the disk did not mount.
DisksBoot ==
    Finished =>
        /\ MenuMakers # {} => grubcfg.seen = Menu
        /\ \A i \in Planned("grub2disk") :
              LET a == doc.plan[i]
              IN /\ a.mode = "efi" => FallbackBoots(a.disk) \/ <<"beside", a.disk>> \in scars
                 /\ reads[a.disk] # None
                 /\ SeeBoot(i) /\ (\A j \in Planned("grub2disk") : j > i => doc.plan[j].disk # a.disk)
                    => reads[a.disk] = "seen"

\* What grub boots: the item of the top level with the number of the default,
\* the first one when there is no such item, the first entry of a submenu.
GrubDefault ==
    LET m == doc.image.menu
        d == doc.image.default
        item == IF d # None /\ d + 1 \in DOMAIN m THEN m[d + 1] ELSE m[1]
    IN item.entries[1]

\* The menus that ParseGrubCfg reads as grub does.
PlainMenu ==
    /\ \A i \in DOMAIN doc.image.menu :
        LET item == doc.image.menu[i]
        IN ~item.submenu /\ item.entries[1].kernel # None /\ item.entries[1].initrd
    /\ \/ doc.image.default = None
       \/ doc.image.default < 8 /\ doc.image.default < Len(doc.image.menu)

\* kexec boots the kernel that grub would boot from the same menu, and, from any
\* menu, never the kernel of one entry with the initramfs of another.
KexecBootsDefault ==
    booted # None /\ Act.kernel = None =>
        /\ booted.kernel = booted.initrd
        /\ PlainMenu => booted.kernel = GrubDefault.kernel

\* The images, plans and metadata on which nothing stands in the way of a
\* workflow: no file where a directory is wanted, a group for each user of the
\* image and none for the new ones, a menu for kexec and the files it names.
PathsFree ==
    /\ \A a \in Wrote :
        /\ a.path \notin DOMAIN doc.image.tree
        /\ \A q \in Above(a.path) \cap DOMAIN doc.image.tree : doc.image.tree[q].kind = "dir"
        /\ \A b \in Wrote : a.path \notin Above(b.path)
        /\ \A i \in DOMAIN Principals : LET u == Principals[i].name
                                       IN a.path \notin UpTo(SSHDir(u)) /\ KeysFile(u) \notin Above(a.path)
    /\ \A i \in DOMAIN Principals : LET u == Principals[i].name
                                   IN /\ \A q \in UpTo(SSHDir(u)) \cap DOMAIN doc.image.tree : doc.image.tree[q].kind = "dir"
                                      /\ KeysFile(u) \in DOMAIN doc.image.tree => doc.image.tree[KeysFile(u)].kind = "file"
Writers == Planned("grub2disk") \cup (IF doc.console # None THEN Planned("serial-console") ELSE {})
Workable ==
    /\ PathsFree
    /\ \A i \in DOMAIN doc.users : doc.users[i].sudo => "sudo" \in doc.image.groups
    /\ \A i \in DOMAIN Principals :
        LET u == Principals[i].name
        IN /\ Principals[i].keys => OwnGroup(u)
           /\ u \in doc.image.groups => u \in DOMAIN doc.image.accounts
    /\ Planned("serial-console") # {} /\ doc.console # None => doc.image.defaults # None
    /\ \A k \in Planned("kexec") :
        IF doc.plan[k].kernel # None
        THEN doc.plan[k].initrd # None /\ {doc.plan[k].kernel, doc.plan[k].initrd} \subseteq doc.image.files
        ELSE /\ PlainMenu /\ GrubDefault.kernel \in doc.image.files
             /\ (doc.plan[k].onBoot \/ "boot" \notin doc.siblings)
             /\ (\E i \in MenuMakers : i < k) \/ (doc.image.grubcfg # None /\ Writers = {})

\* Whatever earlier runs left half done, a run without faults does not fail: no
\* leftover makes a tool or the code refuse its work.
RerunSucceeds == Workable /\ status = "failed" => disturbed
=============================================================================
