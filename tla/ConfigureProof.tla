--------------------------- MODULE ConfigureProof ---------------------------
(***************************************************************************)
(* What a finished workflow has left, for every plan, metadata and image.  *)
(***************************************************************************)
EXTENDS Configure, FiniteSetTheorems, SequenceTheorems, WellFoundedInduction, TLAPS

\* The actions of this run that are through.
Behind == IF Finished THEN DOMAIN doc.plan ELSE 1..(at - 1)
Through(k) == Planned(k) \cap Behind

-----------------------------------------------------------------------------
(* Control.                                                                *)

Calls(k) ==
    CASE k = "writefile" -> {"begin", "ensure", "write"}
      [] k = "user-manage" -> {"begin", "ensure", "password", "keys", "sudo", "sshd"}
      [] k = "serial-console" -> {"begin", "rewrite", "mkconfig"}
      [] k = "grub2disk" -> {"begin", "bios", "install", "mkconfig", "fallback", "beside", "nvram"}
      [] k = "kexec" -> {"begin", "load"}
      [] OTHER -> {"begin"}

\* A run that fails starts at the first action again.
Control ==
    /\ doc \in Documents /\ at \in DOMAIN doc.plan /\ n \in Nat
    /\ status \in {"running", "failed", "done", "booted"}
    /\ status = "failed" => at = 1
    /\ status = "done" => at = Len(doc.plan)
    /\ status \in {"failed", "done"} => pc = "begin"
    /\ pc \in Calls(Act.kind)
    /\ runs \in 1..MaxRuns /\ faults \in 0..MaxFaults /\ disturbed \in BOOLEAN

-----------------------------------------------------------------------------
(* The accounts and the tree.                                              *)

Names == {Principals[i].name : i \in DOMAIN Principals}
WrittenAt(i) == OnRootOnly(doc.plan[i].path)

\* Accounts stay, with their uid.
Accounts ==
    /\ UserManageTypeOK
    /\ \A u \in DOMAIN doc.image.accounts :
          u \in DOMAIN accounts /\ accounts[u].uid = doc.image.accounts[u].uid

\* Directories and files of the image stay what they are.
Given == DOMAIN doc.image.tree \cup MountPoints(doc)
Kept ==
    /\ Given \subseteq DOMAIN tree
    /\ \A p \in DOMAIN doc.image.tree : tree[p].kind = "dir" <=> doc.image.tree[p].kind = "dir"
    /\ \A p \in MountPoints(doc) : tree[p].kind = "dir"

\* Where the rest of the tree comes from.
OriginOf(p) ==
    \/ \E i \in Planned("writefile") : p \in Above(WrittenAt(i)) /\ tree[p].kind = "dir"
    \/ \E i \in Planned("writefile") : p = WrittenAt(i) /\ tree[p].kind # "dir"
    \/ \E u \in Names \cap DOMAIN accounts : p \in UpTo(SSHDir(u)) /\ tree[p].kind = "dir"
    \/ \E u \in Names \cap DOMAIN accounts : p = KeysFile(u) /\ tree[p].kind # "dir"
Origin == \A p \in DOMAIN tree \ Given : OriginOf(p)

TreeOK ==
    /\ tree = [p \in DOMAIN tree |-> tree[p]]
    /\ \A p \in DOMAIN tree :
        /\ p \in Seq(Name)
        /\ tree[p] \in [kind : {"dir", "file", "torn"}, owner : Nat]
        /\ \A q \in Above(p) : IsDir(q)

\* An account whose home is another's, or is missing.
HomeState(u) ==
    \/ Home(u) \in DOMAIN tree /\ tree[Home(u)] = Dir(Uid(u))
    \/ <<"useradd", u>> \in scars
    \/ ~ImageFit(u)
    \/ Home(u) \in DOMAIN tree /\ \E i \in Planned("writefile") : Home(u) \in UpTo(WrittenAt(i))

\* Who owns a directory that the image did not have.
DirFine(d) ==
    \/ <<"chown", d>> \in scars
    \/ \E i \in Planned("writefile") : d \in Above(WrittenAt(i)) /\ tree[d] = Dir(doc.plan[i].uid)
    \/ \E u \in DOMAIN accounts : d = Home(u) /\ HomeOwned(u)
    \/ HandedOver(d)
    \/ Planned("user-manage") # {} /\ \E i \in DOMAIN Principals : Principals[i].keys /\ d = SSHDir(Principals[i].name)

Homes == \A u \in DOMAIN accounts : HomeState(u)
Dirs == \A d \in DOMAIN tree \ Given : tree[d].kind = "dir" => DirFine(d)

\* A file of this run is whole, and its last owner's.
FileDone(i) ==
    LET p == WrittenAt(i)
    IN /\ p \in DOMAIN tree /\ tree[p].kind = "file"
       /\ \/ \E j \in Through("writefile") : j >= i /\ WrittenAt(j) = p /\ tree[p].owner = doc.plan[j].uid
          \/ HandedOver(p)
Files == \A i \in Through("writefile") : FileDone(i)

\* writefile on its way.
InWriteFile ==
    Act.kind = "writefile" =>
        /\ pc = "ensure" => /\ n \in 1..Len(Dest)
                            /\ \A i \in 1..(n - 1) : IsDir(Part(Dest, i))
                            /\ \A q \in Above(Dest) : ~IsFile(q)
        /\ pc = "write" => \A q \in Above(Dest) : IsDir(q)

\* user-manage, user by user and step by step.
HasKeys(i) ==
    LET u == Principals[i].name
    IN Principals[i].keys =>
        /\ SSHDir(u) \in DOMAIN tree /\ tree[SSHDir(u)] = Dir(Uid(u))
        /\ KeysFile(u) \in DOMAIN tree /\ tree[KeysFile(u)].kind = "file"
        /\ tree[KeysFile(u)].owner = Uid(u) \/ \E j \in Planned("writefile") : WrittenAt(j) = KeysFile(u)
HasAccount(i) == Principals[i].name \in DOMAIN accounts
HasPassword(i) == HasAccount(i) /\ (Principals[i].pw => accounts[Principals[i].name].pw)
HasGroup(i) == Principals[i].sudo => accounts[Principals[i].name].sudo
Served(i) == HasPassword(i) /\ HasKeys(i) /\ HasGroup(i)

InUserManage ==
    Act.kind = "user-manage" =>
        /\ pc \in {"ensure", "password", "keys", "sudo"} =>
              n \in DOMAIN Principals /\ \A i \in 1..(n - 1) : Served(i)
        /\ pc = "password" => HasAccount(n)
        /\ pc \in {"keys", "sudo"} => HasPassword(n)
        /\ pc = "sudo" => HasKeys(n)
        /\ pc = "sshd" => \A i \in DOMAIN Principals : Served(i)
Users == Through("user-manage") # {} => \A i \in DOMAIN Principals : Served(i)

TreeInv ==
    /\ Control /\ Accounts /\ Kept /\ Origin /\ TreeOK /\ Homes /\ Dirs /\ Files
    /\ InWriteFile /\ InUserManage /\ Users

-----------------------------------------------------------------------------
(* Documents.                                                              *)

LEMMA PlanFacts ==
    ASSUME doc \in Documents
    PROVE  Len(doc.plan) \in Nat \ {0} /\ DOMAIN doc.plan = 1..Len(doc.plan)
  <1>1. doc.plan \in Seq({doc.plan[i] : i \in DOMAIN doc.plan}) /\ Len(doc.plan) > 0
    BY PlanAssumption
  <1> QED
    BY <1>1

\* Principals: root first, then the users.
LEMMA PrincipalFacts ==
    ASSUME doc \in Documents
    PROVE  /\ Len(Principals) \in Nat \ {0} /\ DOMAIN Principals = 1..Len(Principals)
           /\ Principals[1] = doc.root
           /\ \A i \in DOMAIN Principals :
                 /\ Principals[i] \in [name : Name, keys : BOOLEAN, pw : BOOLEAN, sudo : BOOLEAN]
                 /\ Principals[i].sudo => \E j \in DOMAIN doc.users : doc.users[j].sudo
  <1> DEFINE User == [name : Name, keys : BOOLEAN, pw : BOOLEAN, sudo : BOOLEAN]
  <1>1. doc.root \in User /\ doc.users \in Seq(User) /\ ~doc.root.sudo
    BY UsersAssumption
  <1>2. Principals \in Seq(User)
    BY <1>1 DEF Principals
  <1>3. Len(Principals) = 1 + Len(doc.users) /\ Principals[1] = doc.root
    BY <1>1 DEF Principals
  <1>4. ASSUME NEW i \in DOMAIN Principals, Principals[i].sudo
        PROVE  \E j \in DOMAIN doc.users : doc.users[j].sudo
    <2>1. i \in 1..(1 + Len(doc.users)) /\ i # 1
      BY <1>1, <1>2, <1>3, <1>4
    <2>2. Principals[i] = doc.users[i - 1] /\ i - 1 \in DOMAIN doc.users
      BY <1>1, <2>1 DEF Principals
    <2> QED
      BY <1>4, <2>2
  <1> HIDE DEF User
  <1>5. \A i \in DOMAIN Principals : Principals[i] \in User
    BY <1>2
  <1> QED
    BY <1>1, <1>2, <1>3, <1>4, <1>5 DEF User

-----------------------------------------------------------------------------
(* Paths.                                                                  *)

Paths == Seq(Name)

\* Short paths.
LEMMA Short1 ==
    ASSUME NEW a \in Name, NEW b \in Name
    PROVE  <<a>> \in Paths /\ <<a, b>> \in Paths /\ Append(<<a>>, b) = <<a, b>>
  <1>1. <<a>> \in Paths /\ <<a, b>> \in Paths /\ Append(<<a>>, b) \in Paths
    BY DEF Paths
  <1>2. Len(Append(<<a>>, b)) = 2 /\ \A i \in 1..2 : Append(<<a>>, b)[i] = <<a, b>>[i]
    OBVIOUS
  <1> QED
    BY <1>1, <1>2, SeqEqual DEF Paths

LEMMA Short2 ==
    ASSUME NEW a \in Name, NEW b \in Name, NEW c \in Name
    PROVE  <<a, b, c>> \in Paths /\ Append(<<a, b>>, c) = <<a, b, c>>
  <1>1. <<a, b>> \in Paths /\ <<a, b, c>> \in Paths /\ Append(<<a, b>>, c) \in Paths
    BY DEF Paths
  <1>2. Len(Append(<<a, b>>, c)) = 3 /\ \A i \in 1..3 : Append(<<a, b>>, c)[i] = <<a, b, c>>[i]
    OBVIOUS
  <1> QED
    BY <1>1, <1>2, SeqEqual DEF Paths

LEMMA Short3 ==
    ASSUME NEW a \in Name, NEW b \in Name, NEW c \in Name, NEW d \in Name
    PROVE  <<a, b, c, d>> \in Paths /\ Append(<<a, b, c>>, d) = <<a, b, c, d>>
  <1>1. <<a, b, c>> \in Paths /\ <<a, b, c, d>> \in Paths /\ Append(<<a, b, c>>, d) \in Paths
    BY DEF Paths
  <1>2. Len(Append(<<a, b, c>>, d)) = 4 /\ \A i \in 1..4 : Append(<<a, b, c>>, d)[i] = <<a, b, c, d>>[i]
    OBVIOUS
  <1> QED
    BY <1>1, <1>2, SeqEqual DEF Paths

\* Part: the first i names of a path.
LEMMA PartFacts ==
    ASSUME NEW p \in Paths, NEW i \in 1..Len(p)
    PROVE  /\ Part(p, i) \in Paths /\ Len(Part(p, i)) = i
           /\ \A k \in 1..i : Part(p, i)[k] = p[k]
  BY DEF Part, Paths

\* The first names determine Part.
LEMMA PartIs ==
    ASSUME NEW p \in Paths, NEW q \in Paths, Len(q) \in 1..Len(p), \A k \in 1..Len(q) : q[k] = p[k]
    PROVE  Part(p, Len(q)) = q
  <1> DEFINE r == Part(p, Len(q))
  <1>1. r \in Paths /\ Len(r) = Len(q) /\ \A k \in 1..Len(q) : r[k] = p[k]
    BY PartFacts
  <1> HIDE DEF r
  <1>2. r = q
    BY <1>1, SeqEqual DEF Paths
  <1> QED
    BY <1>2 DEF r

\* Above and UpTo, name by name.
LEMMA AboveIff ==
    ASSUME NEW p \in Paths, NEW q \in Paths
    PROVE  q \in Above(p) <=> /\ Len(q) \in 1..(Len(p) - 1)
                             /\ \A k \in 1..Len(q) : q[k] = p[k]
  <1>1. ASSUME q \in Above(p)
        PROVE  Len(q) \in 1..(Len(p) - 1) /\ \A k \in 1..Len(q) : q[k] = p[k]
    <2>1. PICK i \in 1..(Len(p) - 1) : q = Part(p, i)
      BY <1>1 DEF Above, Part
    <2>2. i \in 1..Len(p)
      BY DEF Paths
    <2> QED
      BY <2>1, <2>2, PartFacts
  <1>2. ASSUME Len(q) \in 1..(Len(p) - 1), \A k \in 1..Len(q) : q[k] = p[k]
        PROVE  q \in Above(p)
    <2>1. Len(q) \in 1..Len(p)
      BY <1>2 DEF Paths
    <2>2. q = Part(p, Len(q))
      BY <1>2, <2>1, PartIs
    <2> QED
      BY <1>2, <2>2 DEF Above, Part
  <1> QED
    BY <1>1, <1>2

LEMMA AbovePaths ==
    ASSUME NEW p \in Paths, NEW q \in Above(p)
    PROVE  q \in Paths
  <1>1. PICK i \in 1..(Len(p) - 1) : q = Part(p, i)
    BY DEF Above, Part
  <1>2. i \in 1..Len(p)
    BY DEF Paths
  <1> QED
    BY <1>1, <1>2, PartFacts

\* What is above a directory above is above.
LEMMA AboveAbove ==
    ASSUME NEW p \in Paths, NEW q \in UpTo(p), NEW r \in Above(q)
    PROVE  r \in Above(p)
  <1>1. q \in Paths /\ r \in Paths
    BY AbovePaths DEF UpTo
  <1>2. CASE q = p
    BY <1>2
  <1>3. CASE q \in Above(p)
    <2>1. Len(q) \in 1..(Len(p) - 1) /\ Len(r) \in 1..(Len(q) - 1)
      BY <1>1, <1>3, AboveIff
    <2>2. Len(p) \in Nat /\ Len(r) \in 1..(Len(p) - 1)
      BY <2>1 DEF Paths
    <2>3. \A k \in 1..Len(r) : r[k] = q[k] /\ q[k] = p[k]
      BY <1>1, <1>3, <2>1, AboveIff
    <2> QED
      BY <1>1, <2>2, <2>3, AboveIff
  <1> QED
    BY <1>2, <1>3 DEF UpTo

\* The parts of a path.
LEMMA PartAbove ==
    ASSUME NEW p \in Paths, NEW i \in 1..(Len(p) - 1)
    PROVE  /\ Part(p, i) \in Above(p) /\ Part(p, i) \in Paths
           /\ Above(Part(p, i)) = {Part(p, j) : j \in 1..(i - 1)}
  <1>1. i \in 1..Len(p) /\ Len(p) \in Nat
    BY DEF Paths
  <1>2. Part(p, i) \in Paths /\ Len(Part(p, i)) = i /\ \A k \in 1..i : Part(p, i)[k] = p[k]
    BY <1>1, PartFacts
  <1>3. ASSUME NEW j \in 1..(i - 1)
        PROVE  Part(Part(p, i), j) = Part(p, j)
    <2>1. j \in 1..Len(p) /\ j \in 1..i
      BY <1>1
    <2>2. /\ Part(p, j) \in Paths /\ Len(Part(p, j)) = j /\ \A k \in 1..j : Part(p, j)[k] = p[k]
          /\ Part(Part(p, i), j) \in Paths /\ Len(Part(Part(p, i), j)) = j
          /\ \A k \in 1..j : Part(Part(p, i), j)[k] = Part(p, i)[k]
      BY <1>2, <2>1, PartFacts
    <2> QED
      BY <1>2, <2>1, <2>2, SeqEqual DEF Paths
  <1>4. Above(Part(p, i)) = {Part(Part(p, i), j) : j \in 1..(i - 1)}
    BY <1>2 DEF Above, Part
  <1> QED
    BY <1>2, <1>3, <1>4 DEF Above, Part

\* The paths of user-manage.
LEMMA UserPaths ==
    ASSUME NEW u \in Name
    PROVE  /\ u = "root" => Home(u) = <<"root">> /\ SSHDir(u) = <<"root", ".ssh">>
                             /\ KeysFile(u) = <<"root", ".ssh", "authorized_keys">>
           /\ u # "root" => Home(u) = <<"home", u>> /\ SSHDir(u) = <<"home", u, ".ssh">>
                             /\ KeysFile(u) = <<"home", u, ".ssh", "authorized_keys">>
           /\ Home(u) \in Paths /\ SSHDir(u) \in Paths /\ KeysFile(u) \in Paths
  <1>1. /\ "root" \in Name /\ "home" \in Name /\ ".ssh" \in Name /\ "authorized_keys" \in Name
    BY DEF Name
  <1>2. CASE u = "root"
    <2>1. Home(u) = <<"root">>
      BY <1>2 DEF Home
    <2>2. <<"root">> \in Paths /\ <<"root", ".ssh">> \in Paths /\ Append(<<"root">>, ".ssh") = <<"root", ".ssh">>
      BY <1>1, Short1
    <2>3. /\ <<"root", ".ssh", "authorized_keys">> \in Paths
          /\ Append(<<"root", ".ssh">>, "authorized_keys") = <<"root", ".ssh", "authorized_keys">>
      BY <1>1, Short2
    <2> QED
      BY <1>2, <2>1, <2>2, <2>3 DEF SSHDir, KeysFile
  <1>3. CASE u # "root"
    <2>1. Home(u) = <<"home", u>>
      BY <1>3 DEF Home
    <2>2. <<"home", u>> \in Paths
      BY <1>1, Short1
    <2>3. <<"home", u, ".ssh">> \in Paths /\ Append(<<"home", u>>, ".ssh") = <<"home", u, ".ssh">>
      BY <1>1, Short2
    <2>4. /\ <<"home", u, ".ssh", "authorized_keys">> \in Paths
          /\ Append(<<"home", u, ".ssh">>, "authorized_keys") = <<"home", u, ".ssh", "authorized_keys">>
      BY <1>1, Short3
    <2> QED
      BY <1>3, <2>1, <2>2, <2>3, <2>4 DEF SSHDir, KeysFile
  <1> QED
    BY <1>2, <1>3

LEMMA UpToIff ==
    ASSUME NEW p \in Paths, Len(p) > 0, NEW q \in Paths
    PROVE  q \in UpTo(p) <=> /\ Len(q) \in 1..Len(p)
                            /\ \A k \in 1..Len(q) : q[k] = p[k]
  <1>1. Len(p) \in Nat /\ Len(q) \in Nat
    BY DEF Paths
  <1>2. ASSUME Len(q) = Len(p), \A k \in 1..Len(q) : q[k] = p[k]
        PROVE  q = p
    BY <1>2, SeqEqual DEF Paths
  <1> QED
    BY <1>1, <1>2, AboveIff DEF UpTo

LEMMA AboveAppend ==
    ASSUME NEW p \in Paths, Len(p) > 0, NEW x \in Name
    PROVE  Above(Append(p, x)) = UpTo(p)
  <1> DEFINE r == Append(p, x)
  <1>1. r \in Paths /\ Len(r) = Len(p) + 1 /\ Len(p) \in Nat /\ \A k \in 1..Len(p) : r[k] = p[k]
    BY DEF Paths
  <1> HIDE DEF r
  <1>2. ASSUME NEW q \in Paths
        PROVE  q \in Above(r) <=> q \in UpTo(p)
    <2>1. q \in Above(r) <=> Len(q) \in 1..(Len(r) - 1) /\ \A k \in 1..Len(q) : q[k] = r[k]
      BY <1>1, AboveIff
    <2>2. q \in UpTo(p) <=> Len(q) \in 1..Len(p) /\ \A k \in 1..Len(q) : q[k] = p[k]
      BY UpToIff
    <2> QED
      BY <1>1, <2>1, <2>2
  <1>3. Above(r) \subseteq Paths /\ UpTo(p) \subseteq Paths
    BY <1>1, AbovePaths DEF UpTo
  <1>4. Above(r) = UpTo(p)
    BY <1>2, <1>3
  <1> QED
    BY <1>4 DEF r

LEMMA AboveUserPaths ==
    ASSUME NEW u \in Name
    PROVE  /\ Above(Home(u)) = IF u = "root" THEN {} ELSE {<<"home">>}
           /\ Above(SSHDir(u)) = Above(Home(u)) \cup {Home(u)}
           /\ Above(KeysFile(u)) = Above(SSHDir(u)) \cup {SSHDir(u)}
  <1>1. /\ "root" \in Name /\ "home" \in Name /\ ".ssh" \in Name /\ "authorized_keys" \in Name
    BY DEF Name
  <1>2. Home(u) \in Paths /\ SSHDir(u) \in Paths /\ Len(Home(u)) > 0 /\ Len(SSHDir(u)) > 0
    BY UserPaths
  <1>3. ASSUME NEW a \in Name
        PROVE  <<a>> \in Paths /\ Len(<<a>>) = 1 /\ Above(<<a>>) = {}
    <2>1. <<a>> \in Paths
      BY Short1
    <2>2. Len(<<a>>) = 1 /\ 1..(Len(<<a>>) - 1) = {}
      OBVIOUS
    <2> QED
      BY <2>1, <2>2 DEF Above
  <1>4. Above(Home(u)) = IF u = "root" THEN {} ELSE {<<"home">>}
    <2>1. CASE u = "root"
      BY <1>1, <1>3, <2>1 DEF Home
    <2>2. CASE u # "root"
      <3>1. Home(u) = Append(<<"home">>, u)
        BY <1>1, <2>2, Short1 DEF Home
      <3>2. <<"home">> \in Paths /\ Len(<<"home">>) > 0 /\ Above(<<"home">>) = {}
        BY <1>1, <1>3
      <3>3. Above(Append(<<"home">>, u)) = UpTo(<<"home">>)
        BY <3>2, AboveAppend
      <3> QED
        BY <2>2, <3>1, <3>2, <3>3 DEF UpTo
    <2> QED
      BY <2>1, <2>2
  <1>5. Above(SSHDir(u)) = UpTo(Home(u))
    BY <1>1, <1>2, AboveAppend DEF SSHDir
  <1>6. Above(KeysFile(u)) = UpTo(SSHDir(u))
    BY <1>1, <1>2, AboveAppend DEF KeysFile
  <1> QED
    BY <1>4, <1>5, <1>6 DEF UpTo

\* The paths of two users have only /home in common.
LEMMA UserPathsApart ==
    ASSUME NEW u \in Name, NEW v \in Name
    PROVE  /\ Home(u) \in UpTo(SSHDir(v)) => u = v
           /\ Home(u) # KeysFile(v)
           /\ SSHDir(u) \in UpTo(SSHDir(v)) => u = v
           /\ SSHDir(u) \in UpTo(KeysFile(v)) => u = v
           /\ SSHDir(u) \notin UpTo(Home(v))
           /\ KeysFile(u) \notin UpTo(SSHDir(v))
           /\ KeysFile(u) = KeysFile(v) => u = v
           /\ Home(u) # <<"home">> /\ SSHDir(u) # <<"home">>
  <1>1. CASE u = "root" /\ v = "root"
    BY <1>1, UserPaths, AboveUserPaths DEF UpTo
  <1>2. CASE u # "root" /\ v = "root"
    BY <1>2, UserPaths, AboveUserPaths DEF UpTo
  <1>3. CASE u = "root" /\ v # "root"
    BY <1>3, UserPaths, AboveUserPaths DEF UpTo
  <1>4. CASE u # "root" /\ v # "root"
    BY <1>4, UserPaths, AboveUserPaths DEF UpTo
  <1> QED
    BY <1>1, <1>2, <1>3, <1>4

\* Where writefile writes: at the path, or below the mount point.
LEMMA WrittenFacts ==
    ASSUME doc \in Documents, NEW i \in Planned("writefile")
    PROVE  /\ WrittenAt(i) \in Paths /\ Len(WrittenAt(i)) > 0
           /\ doc.plan[i].uid \in Nat
           /\ doc.plan[i].path \in Paths /\ Len(doc.plan[i].path) > 0 /\ doc.plan[i].path[1] # "shadowed"
           /\ WrittenAt(i) = doc.plan[i].path \/ WrittenAt(i)[1] = "shadowed"
  <1> DEFINE p == doc.plan[i].path
  <1>1. i \in DOMAIN doc.plan /\ doc.plan[i].kind = "writefile"
    BY DEF Planned
  <1>2. p \in Paths /\ Len(p) > 0 /\ p[1] # "shadowed" /\ doc.plan[i].uid \in Nat
    BY <1>1, FileAssumption DEF Paths
  <1>3. WrittenAt(i) = p \/ WrittenAt(i) = <<"shadowed">> \o p
    BY DEF WrittenAt, OnRootOnly
  <1> HIDE DEF p
  <1>4. <<"shadowed">> \in Paths
    BY DEF Paths, Name
  <1>5. /\ <<"shadowed">> \o p \in Paths /\ Len(<<"shadowed">> \o p) > 0
        /\ (<<"shadowed">> \o p)[1] = "shadowed"
    BY <1>2, <1>4 DEF Paths
  <1> QED
    BY <1>2, <1>3, <1>5 DEF p

\* What depends on the document alone.
LEMMA DocFrame ==
    ASSUME doc' = doc
    PROVE  /\ Principals' = Principals /\ Names' = Names
           /\ \A k : Planned(k)' = Planned(k)
           /\ \A i : WrittenAt(i)' = WrittenAt(i)
           /\ \A u : ImageFit(u)' = ImageFit(u)
           /\ MountPoints(doc)' = MountPoints(doc) /\ Given' = Given
  <1>1. Principals' = Principals
    BY DEF Principals
  <1>2. \A i : WrittenAt(i)' = WrittenAt(i)
    BY DEF WrittenAt, OnRootOnly
  <1> QED
    BY <1>1, <1>2 DEF Names, Planned, ImageFit, MountPoints, Given

LEMMA NameFacts ==
    ASSUME doc \in Documents
    PROVE  Names \subseteq Name /\ \A i \in DOMAIN Principals : Principals[i].name \in Names
  BY PrincipalFacts DEF Names

-----------------------------------------------------------------------------
(* Control.                                                                *)

LEMMA BeginIsACall == \A k : "begin" \in Calls(k)
  BY DEF Calls

LEMMA GoKeepsControl ==
    ASSUME Control, status = "running", NEW p \in Calls(Act.kind), NEW i \in Nat, Go(p, i)
    PROVE  Control'
  BY DEF Control, Go, Act

LEMMA DoneKeepsControl ==
    ASSUME Control, status = "running", ActionDone
    PROVE  Control'
  <1>1. at' \in DOMAIN doc.plan
    BY PlanFacts DEF Control, ActionDone
  <1> QED
    BY <1>1, PlanFacts, BeginIsACall DEF Control, ActionDone, Act

LEMMA ExitKeepsControl ==
    ASSUME Control, Refuse \/ Fault
    PROVE  Control'
  <1>1. 1 \in DOMAIN doc.plan
    BY PlanFacts DEF Control
  <1>2. faults' \in 0..MaxFaults
    BY TargetAssumption DEF Control, Refuse, Fault
  <1>3. disturbed' \in BOOLEAN
    BY DEF Control, Refuse, Fault
  <1> QED
    BY <1>1, <1>2, <1>3, BeginIsACall DEF Control, Refuse, Fault, Exit, Act

LEMMA SlipKeepsControl ==
    ASSUME Control, status = "running", Slip, pc' \in Calls(Act.kind), n' \in Nat
    PROVE  Control'
  BY TargetAssumption DEF Control, Slip, Act

\* Every action of the plan's actions is a call, the last one or an error.
LEMMA InitControl == Init => Control
  <1> SUFFICES ASSUME Init PROVE Control
    OBVIOUS
  <1>1. doc \in Documents /\ 1 \in DOMAIN doc.plan
    BY PlanFacts DEF Init, TargetInit
  <1>2. runs \in 1..MaxRuns /\ faults \in 0..MaxFaults
    BY TargetAssumption DEF Init, TargetInit
  <1>3. disturbed \in BOOLEAN
    BY DEF Init, TargetInit
  <1>4. at = 1 /\ pc = "begin" /\ n = 0 /\ status = "running"
    BY DEF Init, TargetInit
  <1> QED
    BY <1>1, <1>2, <1>3, <1>4, BeginIsACall DEF Control

LEMMA WriteFileControl == Control /\ WriteFileNext => Control'
  <1> SUFFICES ASSUME Control, WriteFileNext PROVE Control'
    OBVIOUS
  <1> USE GoKeepsControl, DoneKeepsControl, ExitKeepsControl DEF At, Calls
  <1>0. n \in Nat /\ n + 1 \in Nat
    BY DEF Control
  <1>1. CASE BeginWriteFile
    BY <1>1 DEF BeginWriteFile
  <1>2. CASE EnsureDir
    BY <1>0, <1>2 DEF EnsureDir
  <1>3. CASE DirsEnsured
    BY <1>3 DEF DirsEnsured
  <1>4. CASE WriteContents
    BY <1>4 DEF WriteContents
  <1> QED
    BY <1>1, <1>2, <1>3, <1>4 DEF WriteFileNext

LEMMA UserManageControl == Control /\ UserManageNext => Control'
  <1> SUFFICES ASSUME Control, UserManageNext PROVE Control'
    OBVIOUS
  <1> USE GoKeepsControl, DoneKeepsControl, ExitKeepsControl DEF At, Calls
  <1>0. n \in Nat /\ n + 1 \in Nat
    BY DEF Control
  <1>1. CASE BeginUserManage
    BY <1>1 DEF BeginUserManage
  <1>2. CASE EnsureUser
    BY <1>0, <1>2 DEF EnsureUser
  <1>3. CASE SetPassword
    BY <1>0, <1>3 DEF SetPassword
  <1>4. CASE WriteAuthorizedKeys
    BY <1>0, <1>4 DEF WriteAuthorizedKeys
  <1>5. CASE AddToGroup
    BY <1>0, <1>5 DEF AddToGroup
  <1>6. CASE UpdateSSHD
    BY <1>6 DEF UpdateSSHD
  <1> QED
    BY <1>1, <1>2, <1>3, <1>4, <1>5, <1>6 DEF UserManageNext

LEMMA SerialConsoleControl == Control /\ SerialConsoleNext => Control'
  <1> SUFFICES ASSUME Control, SerialConsoleNext PROVE Control'
    OBVIOUS
  <1> USE GoKeepsControl, DoneKeepsControl, ExitKeepsControl DEF At, Calls
  <1>1. CASE BeginSerialConsole
    BY <1>1 DEF BeginSerialConsole
  <1>2. CASE RewriteDefaults
    BY <1>2 DEF RewriteDefaults
  <1>3. CASE RunMkConfig
    BY <1>3 DEF RunMkConfig, MkConfig
  <1> QED
    BY <1>1, <1>2, <1>3 DEF SerialConsoleNext

LEMMA Grub2diskControl == Control /\ Grub2diskNext => Control'
  <1> SUFFICES ASSUME Control, Grub2diskNext PROVE Control'
    OBVIOUS
  <1> USE GoKeepsControl, DoneKeepsControl, ExitKeepsControl, SlipKeepsControl DEF At, Calls
  <1>0. n \in Nat
    BY DEF Control
  <1>1. CASE BeginGrub2disk
    BY <1>1 DEF BeginGrub2disk
  <1>2. CASE DoBIOS
    BY <1>0, <1>2 DEF DoBIOS
  <1>3. CASE GrubInstall
    BY <1>0, <1>3 DEF GrubInstall
  <1>4. CASE UpdateGrub
    BY <1>0, <1>4 DEF UpdateGrub, MkConfig
  <1>5. CASE CopyFallback
    BY <1>0, <1>5 DEF CopyFallback
  <1>6. CASE CopyGrub
    BY <1>0, <1>6 DEF CopyGrub
  <1>7. CASE RegisterNVRAM
    BY <1>7 DEF RegisterNVRAM
  <1> QED
    BY <1>1, <1>2, <1>3, <1>4, <1>5, <1>6, <1>7 DEF Grub2diskNext

LEMMA KexecControl == Control /\ KexecNext => Control'
  <1> SUFFICES ASSUME Control, KexecNext PROVE Control'
    OBVIOUS
  <1> USE GoKeepsControl, DoneKeepsControl, ExitKeepsControl DEF At, Calls
  <1>1. CASE BeginKexec
    BY <1>1 DEF BeginKexec
  <1>2. CASE LoadAndReboot
    <2>1. CASE status' = "booted" /\ UNCHANGED <<doc, at, pc, n, runs, faults, disturbed>>
      BY <2>1 DEF Control, Act
    <2> QED
      BY <1>2, <2>1 DEF LoadAndReboot
  <1> QED
    BY <1>1, <1>2 DEF KexecNext

LEMMA StopControl == Control /\ (Stop \/ Rerun) => Control'
  <1> SUFFICES ASSUME Control, Stop \/ Rerun PROVE Control'
    OBVIOUS
  <1>1. CASE Stop
    BY <1>1, ExitKeepsControl DEF Stop
  <1>2. CASE Rerun
    <2>1. runs' \in 1..MaxRuns
      BY <1>2, TargetAssumption DEF Rerun, Control
    <2>2. disturbed' \in BOOLEAN
      BY <1>2 DEF Rerun
    <2> QED
      BY <1>2, <2>1, <2>2 DEF Rerun, Control, Act
  <1> QED
    BY <1>1, <1>2

\* Control is inductive.
LEMMA ControlStep == Control /\ [Next]_all => Control'
  <1> SUFFICES ASSUME Control, [Next]_all PROVE Control'
    OBVIOUS
  <1>1. CASE UNCHANGED all
    BY <1>1 DEF all, control, Control, Act
  <1> QED
    BY <1>1, WriteFileControl, UserManageControl, SerialConsoleControl, Grub2diskControl, KexecControl, StopControl DEF Next

\* The control of a workflow, for every document: the action at hand, its kind, its
\* program counter and its index fit one another, and what is behind it has exited.
THEOREM ControlInvariance == Spec => []Control
  BY InitControl, ControlStep, PTL DEF Spec

-----------------------------------------------------------------------------
(* What a step may do to accounts, directories and the traces of faults.   *)

Later ==
    /\ doc' = doc
    /\ \A u \in DOMAIN accounts : u \in DOMAIN accounts' /\ accounts'[u].uid = accounts[u].uid
    /\ DOMAIN tree \subseteq DOMAIN tree'
    /\ \A p \in DOMAIN tree : tree'[p].kind = "dir" <=> tree[p].kind = "dir"
    /\ \A p \in DOMAIN tree : tree[p].kind = "dir" => tree'[p] = tree[p] \/ HandedOver(p)'
    /\ \A x : /\ <<"useradd", x>> \in scars => <<"useradd", x>> \in scars'
              /\ <<"chown", x>> \in scars => <<"chown", x>> \in scars'

LEMMA KeptStep == Kept /\ Later => Kept'
  <1> SUFFICES ASSUME Kept, Later PROVE Kept'
    OBVIOUS
  <1>1. Given' = Given /\ MountPoints(doc)' = MountPoints(doc) /\ doc' = doc
    BY DocFrame DEF Later
  <1>2. Given \subseteq DOMAIN tree'
    BY DEF Kept, Later
  <1>3. \A p \in Given : tree'[p].kind = "dir" <=> tree[p].kind = "dir"
    BY DEF Kept, Later
  <1> QED
    BY <1>1, <1>2, <1>3 DEF Kept, Given

LEMMA OriginStep ==
    ASSUME Origin, Later, \A p \in DOMAIN tree' \ DOMAIN tree : OriginOf(p)'
    PROVE  Origin'
  <1>1. /\ Given' = Given /\ Names' = Names /\ Planned("writefile")' = Planned("writefile")
        /\ \A i : WrittenAt(i)' = WrittenAt(i)
    BY DocFrame DEF Later
  <1>2. ASSUME NEW p \in DOMAIN tree', p \notin Given
        PROVE  OriginOf(p)'
    <2>1. CASE p \in DOMAIN tree
      <3>1. OriginOf(p) /\ (tree'[p].kind = "dir" <=> tree[p].kind = "dir")
        BY <1>2, <2>1 DEF Origin, Later
      <3>2. DOMAIN accounts \subseteq DOMAIN accounts'
        BY DEF Later
      <3> QED
        BY <1>1, <3>1, <3>2 DEF OriginOf
    <2> QED
      BY <2>1
  <1> QED
    BY <1>1, <1>2 DEF Origin

LEMMA TreeOKStep ==
    ASSUME TreeOK, Later, tree' = [p \in DOMAIN tree' |-> tree'[p]],
           \A p \in DOMAIN tree' : tree'[p] \in [kind : {"dir", "file", "torn"}, owner : Nat],
           \A p \in DOMAIN tree' \ DOMAIN tree :
              p \in Paths /\ \A q \in Above(p) : q \in DOMAIN tree' /\ tree'[q].kind = "dir"
    PROVE  TreeOK'
  <1>1. ASSUME NEW p \in DOMAIN tree'
        PROVE  p \in Paths /\ \A q \in Above(p) : IsDir(q)'
    <2>1. CASE p \in DOMAIN tree
      <3>1. p \in Paths /\ \A q \in Above(p) : IsDir(q)
        BY <2>1 DEF TreeOK, Paths
      <3> QED
        BY <3>1 DEF IsDir, Later
    <2> QED
      BY <2>1 DEF IsDir
  <1> QED
    BY <1>1 DEF TreeOK, Paths

\* A home is nobody's .ssh.
LEMMA HomeStays ==
    ASSUME doc \in Documents, Later, NEW u \in Name, Home(u) \in DOMAIN tree, tree[Home(u)].kind = "dir"
    PROVE  tree'[Home(u)] = tree[Home(u)]
  <1>1. \A i \in DOMAIN Principals : SSHDir(Principals[i].name) \notin UpTo(Home(u))
    BY UserPathsApart, NameFacts
  <1>2. Principals' = Principals
    BY DocFrame DEF Later
  <1>3. ~HandedOver(Home(u))'
    BY <1>1, <1>2 DEF HandedOver
  <1> QED
    BY <1>3 DEF Later

LEMMA HomesStep ==
    ASSUME doc \in Documents, Accounts, Homes, Later,
           \A u \in DOMAIN accounts' \ DOMAIN accounts : HomeState(u)'
    PROVE  Homes'
  <1>1. /\ Planned("writefile")' = Planned("writefile")
        /\ \A i : WrittenAt(i)' = WrittenAt(i)
        /\ \A u : ImageFit(u)' = ImageFit(u)
    BY DocFrame DEF Later
  <1>2. ASSUME NEW u \in DOMAIN accounts
        PROVE  HomeState(u)'
    <2>0. u \in Name /\ Uid(u)' = Uid(u) /\ HomeState(u)
      BY DEF Accounts, UserManageTypeOK, Later, Uid, Homes
    <2>1. CASE Home(u) \in DOMAIN tree /\ tree[Home(u)] = Dir(Uid(u))
      <3>1. tree[Home(u)].kind = "dir"
        BY <2>1 DEF Dir
      <3>2. tree'[Home(u)] = tree[Home(u)]
        BY <2>0, <2>1, <3>1, HomeStays
      <3>3. Home(u) \in DOMAIN tree'
        BY <2>1 DEF Later
      <3> QED
        BY <2>0, <2>1, <3>2, <3>3 DEF HomeState, Dir
    <2>2. CASE <<"useradd", u>> \in scars
      BY <2>2 DEF HomeState, Later
    <2>3. CASE ~ImageFit(u)
      BY <1>1, <2>3 DEF HomeState
    <2>4. CASE Home(u) \in DOMAIN tree /\ \E i \in Planned("writefile") : Home(u) \in UpTo(WrittenAt(i))
      BY <1>1, <2>4 DEF HomeState, Later
    <2> QED
      BY <2>0, <2>1, <2>2, <2>3, <2>4 DEF HomeState
  <1> QED
    BY <1>2 DEF Homes

LEMMA DirsStep ==
    ASSUME doc \in Documents, Accounts, Dirs, Later,
           \A d \in DOMAIN tree' \ DOMAIN tree : d \notin Given /\ tree'[d].kind = "dir" => DirFine(d)'
    PROVE  Dirs'
  <1>1. /\ Planned("writefile")' = Planned("writefile") /\ Planned("user-manage")' = Planned("user-manage")
        /\ \A i : WrittenAt(i)' = WrittenAt(i)
        /\ \A u : ImageFit(u)' = ImageFit(u)
        /\ Given' = Given /\ Principals' = Principals /\ doc' = doc
    BY DocFrame DEF Later
  <1>2. ASSUME NEW d \in DOMAIN tree, d \notin Given, tree'[d].kind = "dir"
        PROVE  DirFine(d)'
    <2>0. tree[d].kind = "dir" /\ DirFine(d)
      BY <1>2 DEF Later, Dirs
    <2>1. CASE HandedOver(d)'
      BY <2>1 DEF DirFine
    <2>2. CASE tree'[d] = tree[d]
      <3>1. CASE <<"chown", d>> \in scars
        BY <3>1 DEF DirFine, Later
      <3>2. CASE \E i \in Planned("writefile") : d \in Above(WrittenAt(i)) /\ tree[d] = Dir(doc.plan[i].uid)
        BY <1>1, <2>2, <3>2 DEF DirFine, Dir
      <3>3. ASSUME NEW u \in DOMAIN accounts, d = Home(u), HomeOwned(u)
            PROVE  DirFine(d)'
        <4>1. u \in DOMAIN accounts' /\ Uid(u)' = Uid(u)
          BY DEF Later, Uid
        <4>2. HomeOwned(u)'
          BY <1>1, <2>2, <3>3, <4>1 DEF HomeOwned, Dir, Later
        <4> QED
          BY <3>3, <4>1, <4>2 DEF DirFine
      <3>4. CASE HandedOver(d)
        <4>1. PICK i \in DOMAIN Principals :
                 /\ Principals[i].keys /\ Principals[i].name \in DOMAIN accounts
                 /\ SSHDir(Principals[i].name) \in UpTo(d) /\ tree[d].owner = Uid(Principals[i].name)
          BY <3>4 DEF HandedOver
        <4>2. Uid(Principals[i].name)' = Uid(Principals[i].name) /\ Principals[i].name \in DOMAIN accounts'
          BY <1>1, <4>1 DEF Later, Uid
        <4>3. HandedOver(d)'
          BY <1>1, <2>2, <3>4, <4>1, <4>2 DEF HandedOver
        <4> QED
          BY <4>3 DEF DirFine
      <3>5. CASE Planned("user-manage") # {} /\ \E i \in DOMAIN Principals : Principals[i].keys /\ d = SSHDir(Principals[i].name)
        BY <1>1, <3>5 DEF DirFine
      <3> QED
        BY <2>0, <3>1, <3>2, <3>3, <3>4, <3>5 DEF DirFine
    <2> QED
      BY <1>2, <2>0, <2>1, <2>2 DEF Later
  <1> QED
    BY <1>1, <1>2 DEF Dirs

-----------------------------------------------------------------------------
(* What an undisturbed step does to the files and accounts of this run.    *)

Whole ==
    \A p \in DOMAIN tree : tree[p].kind = "file" =>
        /\ tree'[p].kind = "file"
        /\ \/ tree'[p].owner = tree[p].owner
           \/ HandedOver(p)'
           \/ \E j \in Through("writefile")' :
                 (\A i \in Behind : i <= j) /\ p = WrittenAt(j) /\ tree'[p].owner = doc.plan[j].uid

Richer ==
    \A u \in DOMAIN accounts : /\ accounts[u].pw => accounts'[u].pw
                               /\ accounts[u].sudo => accounts'[u].sudo

\* The steps of the control.
LEMMA GoBehind ==
    ASSUME NEW p, NEW i, Go(p, i)
    PROVE  /\ doc' = doc /\ at' = at /\ status' = status /\ Act' = Act /\ Behind' = Behind
           /\ pc' = p /\ n' = i
  BY DEF Go, Act, Behind, Finished

LEMMA DoneBehind ==
    ASSUME Control, status = "running", ActionDone
    PROVE  doc' = doc /\ pc' = "begin" /\ Behind = 1..(at - 1) /\ Behind' = Behind \cup {at}
  <1>1. at \in 1..Len(doc.plan) /\ Len(doc.plan) \in Nat /\ DOMAIN doc.plan = 1..Len(doc.plan)
    BY PlanFacts DEF Control
  <1>2. CASE at = Len(doc.plan)
    BY <1>1, <1>2 DEF ActionDone, Behind, Finished
  <1>3. CASE at # Len(doc.plan)
    BY <1>1, <1>3 DEF ActionDone, Behind, Finished
  <1> QED
    BY <1>2, <1>3

LEMMA ExitBehind ==
    ASSUME Refuse \/ Fault
    PROVE  doc' = doc /\ pc' = "begin" /\ Behind' = {} /\ status' = "failed" /\ at' = 1
  BY DEF Refuse, Fault, Exit, Behind, Finished

LEMMA RunningBehind ==
    ASSUME Control, status = "running"
    PROVE  Behind = 1..(at - 1) /\ at \in Nat
  BY PlanFacts DEF Control, Behind, Finished

\* Files of this run stay done.
LEMMA FileStep ==
    ASSUME doc \in Documents, Later, Whole, Behind \subseteq Behind',
           NEW i \in Through("writefile"), FileDone(i)
    PROVE  FileDone(i)'
  <1>0. PICK p : p = WrittenAt(i)
    OBVIOUS
  <1>1. /\ Planned("writefile")' = Planned("writefile") /\ Principals' = Principals
        /\ \A j : WrittenAt(j)' = WrittenAt(j)
        /\ Planned("user-manage")' = Planned("user-manage") /\ doc' = doc
    BY DocFrame DEF Later
  <1>2. p \in DOMAIN tree /\ tree[p].kind = "file" /\ p \in DOMAIN tree' /\ tree'[p].kind = "file"
    BY <1>0 DEF FileDone, Whole, Later
  <1>3. i \in Behind /\ Through("writefile") \subseteq Through("writefile")'
    BY <1>1 DEF Through
  <1>4. CASE HandedOver(p)'
    BY <1>0, <1>1, <1>2, <1>4 DEF FileDone, HandedOver
  <1>5. ASSUME NEW j \in Through("writefile")', \A k \in Behind : k <= j, p = WrittenAt(j),
               tree'[p].owner = doc.plan[j].uid
        PROVE  FileDone(i)'
    <2>1. i <= j
      BY <1>3, <1>5
    <2>2. i \in Nat /\ j \in Nat
      BY <1>1, <1>3, PlanFacts DEF Through, Planned
    <2> QED
      BY <1>0, <1>1, <1>2, <1>5, <2>1, <2>2 DEF FileDone
  <1>6. CASE tree'[p].owner = tree[p].owner
    <2>1. CASE \E j \in Through("writefile") : j >= i /\ WrittenAt(j) = p /\ tree[p].owner = doc.plan[j].uid
      BY <1>0, <1>1, <1>2, <1>3, <1>6, <2>1 DEF FileDone
    <2>2. CASE HandedOver(p)
      <3>1. PICK k \in DOMAIN Principals :
               /\ Principals[k].keys /\ Principals[k].name \in DOMAIN accounts
               /\ SSHDir(Principals[k].name) \in UpTo(p) /\ tree[p].owner = Uid(Principals[k].name)
        BY <2>2 DEF HandedOver
      <3>2. Uid(Principals[k].name)' = Uid(Principals[k].name) /\ Principals[k].name \in DOMAIN accounts'
        BY <1>1, <3>1 DEF Later, Uid
      <3>3. HandedOver(p)'
        BY <1>1, <1>6, <2>2, <3>1, <3>2 DEF HandedOver
      <3> QED
        BY <1>4, <3>3
    <2> QED
      BY <1>0, <2>1, <2>2 DEF FileDone
  <1> QED
    BY <1>2, <1>4, <1>5, <1>6 DEF Whole

\* What user-manage has done for a user stays done.
LEMMA ServedStep ==
    ASSUME doc \in Documents, TreeOK', Later, Whole, Richer, NEW i \in DOMAIN Principals, HasAccount(i)
    PROVE  /\ HasAccount(i)'
           /\ HasPassword(i) => HasPassword(i)'
           /\ HasKeys(i) => HasKeys(i)'
           /\ HasGroup(i) => HasGroup(i)'
           /\ Served(i) => Served(i)'
  <1>0. PICK u : u = Principals[i].name
    OBVIOUS
  <1>1. /\ Planned("writefile")' = Planned("writefile") /\ Principals' = Principals
        /\ \A j : WrittenAt(j)' = WrittenAt(j)
    BY DocFrame DEF Later
  <1>2. u \in DOMAIN accounts /\ u \in DOMAIN accounts' /\ u \in Name
    BY <1>0, NameFacts DEF HasAccount, Later
  <1>3. HasAccount(i)'
    BY <1>0, <1>1, <1>2 DEF HasAccount
  <1>4. HasPassword(i) => HasPassword(i)'
    BY <1>0, <1>1, <1>2, <1>3 DEF HasPassword, Richer
  <1>5. HasGroup(i) => HasGroup(i)'
    BY <1>0, <1>1, <1>2 DEF HasGroup, Richer
  <1>6. ASSUME HasKeys(i)
        PROVE  HasKeys(i)'
    <2>0. SUFFICES ASSUME Principals[i].keys PROVE HasKeys(i)'
      BY <1>1 DEF HasKeys
    <2>1. /\ SSHDir(u) \in DOMAIN tree /\ tree[SSHDir(u)] = Dir(Uid(u))
          /\ KeysFile(u) \in DOMAIN tree /\ tree[KeysFile(u)].kind = "file"
          /\ tree[KeysFile(u)].owner = Uid(u) \/ \E j \in Planned("writefile") : WrittenAt(j) = KeysFile(u)
      BY <1>0, <1>6, <2>0 DEF HasKeys
    <2>2. Uid(u)' = Uid(u)
      BY <1>1, <1>2 DEF Uid, Later
    <2>3. ASSUME NEW p \in UpTo(KeysFile(u)), HandedOver(p)', p = SSHDir(u) \/ p = KeysFile(u)
          PROVE  tree'[p].owner = Uid(u)
      <3>1. PICK k \in DOMAIN Principals :
               SSHDir(Principals[k].name) \in UpTo(p) /\ tree'[p].owner = Uid(Principals[k].name)'
        BY <1>1, <2>3 DEF HandedOver
      <3>2. Principals[k].name = u
        BY <1>2, <2>3, <3>1, NameFacts, UserPathsApart
      <3> QED
        BY <1>1, <2>2, <3>1, <3>2
    <2>4. SSHDir(u) \in DOMAIN tree' /\ KeysFile(u) \in DOMAIN tree' /\ SSHDir(u) \in UpTo(KeysFile(u)) /\ KeysFile(u) \in UpTo(KeysFile(u))
      BY <1>2, <2>1, AboveUserPaths DEF Later, UpTo
    <2>5. tree'[SSHDir(u)] = Dir(Uid(u))
      <3>1. tree[SSHDir(u)].kind = "dir" /\ tree[SSHDir(u)].owner = Uid(u)
        BY <2>1 DEF Dir
      <3>2. tree'[SSHDir(u)].kind = "dir"
        BY <2>1, <3>1 DEF Later
      <3>3. tree'[SSHDir(u)].owner = Uid(u)
        BY <2>1, <2>3, <2>4, <3>1 DEF Later
      <3>4. tree'[SSHDir(u)] \in [kind : {"dir", "file", "torn"}, owner : Nat]
        BY <2>4 DEF TreeOK
      <3> QED
        BY <3>2, <3>3, <3>4 DEF Dir
    <2>6. tree'[KeysFile(u)].kind = "file"
      BY <2>1 DEF Whole
    <2>7. tree'[KeysFile(u)].owner = Uid(u) \/ \E j \in Planned("writefile") : WrittenAt(j) = KeysFile(u)
      <3>1. CASE tree'[KeysFile(u)].owner = tree[KeysFile(u)].owner
        BY <2>1, <3>1
      <3>2. CASE HandedOver(KeysFile(u))'
        BY <2>3, <2>4, <3>2
      <3>3. CASE \E j \in Through("writefile")' : KeysFile(u) = WrittenAt(j)
        BY <1>1, <3>3 DEF Through
      <3> QED
        BY <2>1, <3>1, <3>2, <3>3 DEF Whole
    <2> QED
      BY <1>0, <1>1, <2>2, <2>4, <2>5, <2>6, <2>7 DEF HasKeys, Dir
  <1> QED
    BY <1>3, <1>4, <1>5, <1>6 DEF Served

-----------------------------------------------------------------------------
(* The actions that leave accounts and files alone.                        *)

ScarsStay ==
    \A x : /\ <<"useradd", x>> \in scars => <<"useradd", x>> \in scars'
           /\ <<"chown", x>> \in scars => <<"chown", x>> \in scars'

LEMMA BeginPlaces ==
    ASSUME pc' = "begin"
    PROVE  InWriteFile' /\ InUserManage'
  BY DEF InWriteFile, InUserManage

LEMMA QuietLater ==
    ASSUME doc' = doc, tree' = tree, accounts' = accounts, ScarsStay
    PROVE  Later /\ Whole /\ Richer
  BY DEF Later, Whole, Richer, ScarsStay

\* With tree and accounts unchanged.
LEMMA QuietTree ==
    ASSUME TreeInv, doc' = doc, tree' = tree, accounts' = accounts, ScarsStay
    PROVE  Kept' /\ Origin' /\ TreeOK' /\ Homes' /\ Dirs'
  <1>1. Later /\ doc \in Documents
    BY QuietLater DEF TreeInv, Control
  <1>2. Kept'
    BY <1>1, KeptStep DEF TreeInv
  <1>3. Origin'
    BY <1>1, OriginStep DEF TreeInv
  <1>4. TreeOK'
    BY DEF TreeOK, TreeInv, IsDir
  <1>5. Homes'
    BY <1>1, HomesStep DEF TreeInv
  <1>6. Dirs'
    BY <1>1, DirsStep DEF TreeInv
  <1> QED
    BY <1>2, <1>3, <1>4, <1>5, <1>6

LEMMA Elsewhere ==
    ASSUME TreeInv, Control', doc' = doc, tree' = tree, UNCHANGED users, ScarsStay,
           Through("writefile")' \in {{}, Through("writefile")},
           Through("user-manage")' \subseteq Through("user-manage"),
           InWriteFile', InUserManage'
    PROVE  TreeInv'
  <1>1. doc \in Documents /\ accounts' = accounts /\ sshd' = sshd
    BY DEF TreeInv, Control, users
  <1>2. Kept' /\ Origin' /\ TreeOK' /\ Homes' /\ Dirs'
    BY <1>1, QuietTree
  <1>3. Accounts'
    BY <1>1 DEF TreeInv, Accounts, UserManageTypeOK
  <1>4. /\ Planned("writefile")' = Planned("writefile") /\ Principals' = Principals
        /\ \A j : WrittenAt(j)' = WrittenAt(j)
        /\ Planned("user-manage")' = Planned("user-manage")
    BY DocFrame
  <1>5. ASSUME NEW i \in Through("writefile")'
        PROVE  FileDone(i)'
    <2>1. FileDone(i) /\ Through("writefile")' = Through("writefile")
      BY <1>5 DEF TreeInv, Files
    <2> QED
      BY <1>1, <1>4, <1>5, <2>1 DEF FileDone, HandedOver, Uid
  <1>6. Files'
    BY <1>5 DEF Files
  <1>7. Users'
    <2>1. \A i \in DOMAIN Principals : Served(i) => Served(i)'
      BY <1>1, <1>4 DEF Served, HasPassword, HasAccount, HasKeys, HasGroup, Uid
    <2> QED
      BY <1>4, <2>1 DEF Users, TreeInv
  <1> QED
    BY <1>2, <1>3, <1>6, <1>7 DEF TreeInv

\* One step of a running action's control.
Move ==
    \/ \E p, i : Go(p, i)
    \/ ActionDone \/ Refuse \/ Fault \/ Slip
    \/ status' = "booted" /\ UNCHANGED <<doc, at, pc, n, runs, faults, disturbed>>

LEMMA MoveBehind ==
    ASSUME Control, status = "running", Move
    PROVE  /\ doc' = doc
           /\ \/ Behind' = {} /\ pc' = "begin"
              \/ Behind' = Behind /\ Act' = Act /\ at' = at
              \/ Behind' = Behind \cup {at} /\ pc' = "begin"
              \/ Behind' = Behind \cup {at} /\ Act' = Act /\ at' = at
  <1>1. CASE \E p, i : Go(p, i)
    BY <1>1, GoBehind
  <1>2. CASE ActionDone
    BY <1>2, DoneBehind
  <1>3. CASE Refuse \/ Fault
    BY <1>3, ExitBehind
  <1>4. CASE Slip
    BY <1>4 DEF Slip, Behind, Finished, Act
  <1>5. CASE status' = "booted" /\ UNCHANGED <<doc, at, pc, n, runs, faults, disturbed>>
    <2>1. Behind = 1..(at - 1) /\ at \in 1..Len(doc.plan) /\ DOMAIN doc.plan = 1..Len(doc.plan) /\ Len(doc.plan) \in Nat
      BY RunningBehind, PlanFacts DEF Control
    <2>2. CASE at = Len(doc.plan)
      BY <1>5, <2>1, <2>2 DEF Behind, Finished, Act
    <2>3. CASE at # Len(doc.plan)
      BY <1>5, <2>1, <2>3 DEF Behind, Finished, Act
    <2> QED
      BY <2>2, <2>3
  <1> QED
    BY <1>1, <1>2, <1>3, <1>4, <1>5 DEF Move

LEMMA OtherAction ==
    ASSUME Control, status = "running", Move, Act.kind \notin {"writefile", "user-manage"}
    PROVE  /\ doc' = doc
           /\ Through("writefile")' \in {{}, Through("writefile")}
           /\ Through("user-manage")' \subseteq Through("user-manage")
           /\ InWriteFile' /\ InUserManage'
  <1>1. doc' = doc
    BY MoveBehind
  <1>2. at \notin Planned("writefile") /\ at \notin Planned("user-manage")
    BY DEF Planned, Act
  <1>3. Planned("writefile")' = Planned("writefile") /\ Planned("user-manage")' = Planned("user-manage")
    BY <1>1, DocFrame
  <1>4. InWriteFile' /\ InUserManage'
    <2>1. CASE pc' = "begin"
      BY <2>1, BeginPlaces
    <2>2. CASE Act' = Act
      BY <2>2 DEF InWriteFile, InUserManage
    <2> QED
      BY <2>1, <2>2, MoveBehind
  <1>5. Behind' \in {{}, Behind, Behind \cup {at}}
    BY MoveBehind
  <1> QED
    BY <1>1, <1>2, <1>3, <1>4, <1>5 DEF Through

LEMMA SerialConsoleTree == TreeInv /\ SerialConsoleNext /\ UNCHANGED users => TreeInv'
  <1> SUFFICES ASSUME TreeInv, SerialConsoleNext, UNCHANGED users PROVE TreeInv'
    OBVIOUS
  <1>0. Control /\ Control'
    BY SerialConsoleControl DEF TreeInv
  <1>1. CASE BeginSerialConsole
    <2>1. status = "running" /\ Act.kind = "serial-console" /\ Move
      BY <1>1 DEF BeginSerialConsole, At, Move
    <2> QED
      BY <1>0, <1>1, <2>1, OtherAction, Elsewhere DEF BeginSerialConsole, ScarsStay
  <1>2. CASE RewriteDefaults
    <2>1. status = "running" /\ Act.kind = "serial-console" /\ Move
      BY <1>2 DEF RewriteDefaults, At, Move
    <2> QED
      BY <1>0, <1>2, <2>1, OtherAction, Elsewhere DEF RewriteDefaults, ScarsStay
  <1>3. CASE RunMkConfig
    <2>1. status = "running" /\ Act.kind = "serial-console" /\ Move
      BY <1>3 DEF RunMkConfig, MkConfig, At, Move
    <2> QED
      BY <1>0, <1>3, <2>1, OtherAction, Elsewhere DEF RunMkConfig, ScarsStay
  <1> QED
    BY <1>1, <1>2, <1>3 DEF SerialConsoleNext

LEMMA Grub2diskTree == TreeInv /\ Grub2diskNext /\ UNCHANGED users => TreeInv'
  <1> SUFFICES ASSUME TreeInv, Grub2diskNext, UNCHANGED users PROVE TreeInv'
    OBVIOUS
  <1>0. Control /\ Control'
    BY Grub2diskControl DEF TreeInv
  <1>1. status = "running" /\ Act.kind = "grub2disk" /\ Move
    BY DEF Grub2diskNext, BeginGrub2disk, DoBIOS, GrubInstall, UpdateGrub, MkConfig, CopyFallback, CopyGrub,
           RegisterNVRAM, At, Move
  <1>2. tree' = tree
    BY DEF Grub2diskNext, BeginGrub2disk, DoBIOS, GrubInstall, UpdateGrub, CopyFallback, CopyGrub, RegisterNVRAM
  <1>3. ScarsStay
    BY DEF Grub2diskNext, BeginGrub2disk, DoBIOS, GrubInstall, UpdateGrub, CopyFallback, CopyGrub, RegisterNVRAM, ScarsStay
  <1> QED
    BY <1>0, <1>1, <1>2, <1>3, OtherAction, Elsewhere

LEMMA KexecTree == TreeInv /\ KexecNext /\ UNCHANGED users => TreeInv'
  <1> SUFFICES ASSUME TreeInv, KexecNext, UNCHANGED users PROVE TreeInv'
    OBVIOUS
  <1>0. Control /\ Control'
    BY KexecControl DEF TreeInv
  <1>1. status = "running" /\ Act.kind = "kexec" /\ Move
    BY DEF KexecNext, BeginKexec, LoadAndReboot, At, Move
  <1>2. tree' = tree /\ ScarsStay
    BY DEF KexecNext, BeginKexec, LoadAndReboot, ScarsStay
  <1> QED
    BY <1>0, <1>1, <1>2, OtherAction, Elsewhere

\* A failed run, and the next one.
LEMMA StopTree == TreeInv /\ (Stop \/ Rerun) /\ UNCHANGED users => TreeInv'
  <1> SUFFICES ASSUME TreeInv, Stop \/ Rerun, UNCHANGED users PROVE TreeInv'
    OBVIOUS
  <1>0. Control /\ Control' /\ tree' = tree /\ ScarsStay
    BY StopControl DEF TreeInv, Stop, Rerun, ScarsStay
  <1>1. doc' = doc /\ pc' = "begin" /\ Behind' = {}
    <2>1. CASE Stop
      BY <2>1, ExitBehind DEF Stop
    <2>2. CASE Rerun
      BY <1>0, <2>2 DEF Rerun, Control, Behind, Finished
    <2> QED
      BY <2>1, <2>2
  <1> QED
    BY <1>0, <1>1, BeginPlaces, Elsewhere DEF Through

-----------------------------------------------------------------------------
(* The steps of writefile.                                                 *)

\* What is left to show of a step that changes the tree or the accounts.
LEMMA TreeStep ==
    ASSUME TreeInv, Control', Accounts', TreeOK', Later,
           \A p \in DOMAIN tree' \ DOMAIN tree : OriginOf(p)' /\ (tree'[p].kind = "dir" => DirFine(p)'),
           \A u \in DOMAIN accounts' \ DOMAIN accounts : HomeState(u)',
           \/ Behind' = {}
           \/ /\ Whole /\ Richer /\ Behind \subseteq Behind'
              /\ \A i \in Through("writefile")' \ Through("writefile") : FileDone(i)'
              /\ Through("user-manage")' \subseteq Through("user-manage") \/ \A i \in DOMAIN Principals : Served(i)',
           InWriteFile', InUserManage'
    PROVE  TreeInv'
  <1>1. doc \in Documents /\ Accounts /\ Kept /\ Origin /\ Homes /\ Dirs /\ Files /\ Users
    BY DEF TreeInv, Control
  <1>2. Kept' /\ Origin' /\ Homes' /\ Dirs'
    BY <1>1, KeptStep, OriginStep, HomesStep, DirsStep
  <1>3. Principals' = Principals /\ doc' = doc
    BY DocFrame DEF Later
  <1>4. Files'
    <2>1. ASSUME NEW i \in Through("writefile")', i \in Through("writefile"), Behind' # {}
          PROVE  FileDone(i)'
      BY <1>1, <2>1, FileStep DEF Files
    <2> QED
      BY <2>1 DEF Files, Through
  <1>5. Users'
    <2>1. ASSUME Behind' # {}, NEW i \in DOMAIN Principals, Served(i)
          PROVE  Served(i)'
      BY <1>1, <2>1, ServedStep DEF Served, HasPassword
    <2>2. CASE Behind' = {}
      BY <2>2 DEF Users, Through
    <2>3. CASE Behind' # {} /\ Through("user-manage")' \subseteq Through("user-manage")
      BY <1>1, <1>3, <2>1, <2>3 DEF Users
    <2>4. CASE \A i \in DOMAIN Principals : Served(i)'
      BY <1>3, <2>4 DEF Users
    <2> QED
      BY <2>2, <2>3, <2>4
  <1> QED
    BY <1>2, <1>4, <1>5 DEF TreeInv

LEMMA PutLater ==
    ASSUME doc' = doc, ScarsStay, TreeOK,
           \A u \in DOMAIN accounts : u \in DOMAIN accounts' /\ accounts'[u].uid = accounts[u].uid,
           NEW p \in Paths, NEW node \in [kind : {"dir", "file", "torn"}, owner : Nat],
           tree' = Put(tree, p, node), \A q \in Above(p) : IsDir(q),
           p \notin DOMAIN tree \/ (tree[p].kind # "dir" /\ node.kind # "dir")
    PROVE  /\ Later /\ TreeOK'
           /\ DOMAIN tree' = DOMAIN tree \cup {p} /\ tree'[p] = node
           /\ \A q \in DOMAIN tree : q # p => tree'[q] = tree[q]
  <1>1. /\ DOMAIN tree' = DOMAIN tree \cup {p} /\ tree'[p] = node
        /\ \A q \in DOMAIN tree : q # p => tree'[q] = tree[q]
    BY DEF Put
  <1>2. Later
    BY <1>1 DEF Later, ScarsStay
  <1>3. \A q \in DOMAIN tree' : tree'[q] \in [kind : {"dir", "file", "torn"}, owner : Nat]
    BY <1>1 DEF TreeOK
  <1>4. \A q \in DOMAIN tree' \ DOMAIN tree : q \in Paths /\ \A r \in Above(q) : r \in DOMAIN tree' /\ tree'[r].kind = "dir"
    BY <1>1, <1>2 DEF IsDir, Later
  <1>5. tree' = [q \in DOMAIN tree' |-> tree'[q]]
    BY DEF Put
  <1> QED
    BY <1>1, <1>2, <1>3, <1>4, <1>5, TreeOKStep

LEMMA DestFacts ==
    ASSUME Control, Act.kind = "writefile"
    PROVE  /\ at \in Planned("writefile") /\ Dest = WrittenAt(at) /\ Dest \in Paths /\ Len(Dest) \in Nat \ {0}
           /\ Act.uid \in Nat /\ Act = doc.plan[at]
           /\ Above(Dest) = {Part(Dest, j) : j \in 1..(Len(Dest) - 1)}
  <1>1. at \in Planned("writefile") /\ Dest = WrittenAt(at) /\ doc \in Documents
    BY DEF Control, Planned, Dest, WrittenAt, Act
  <1>2. WrittenAt(at) \in Paths /\ Len(WrittenAt(at)) > 0 /\ doc.plan[at].uid \in Nat
    BY <1>1, WrittenFacts
  <1>3. Len(WrittenAt(at)) \in Nat \ {0}
    BY <1>2 DEF Paths
  <1> QED
    BY <1>1, <1>2, <1>3 DEF Act, Above, Part

LEMMA BeginWriteFileTree == TreeInv /\ BeginWriteFile /\ UNCHANGED users => TreeInv'
  <1> SUFFICES ASSUME TreeInv, BeginWriteFile, UNCHANGED users PROVE TreeInv'
    OBVIOUS
  <1>0. Control /\ Control' /\ status = "running" /\ Act.kind = "writefile" /\ tree' = tree /\ ScarsStay
    BY WriteFileControl DEF TreeInv, WriteFileNext, BeginWriteFile, At, ScarsStay
  <1>1. CASE Refuse
    BY <1>0, <1>1, ExitBehind, BeginPlaces, Elsewhere DEF Through
  <1>2. ASSUME NEW p, NEW i, Go(p, i),
               p = "write" => \A q \in Above(Dest) : IsDir(q),
               p = "ensure" => i = 1 /\ \A q \in Above(Dest) : ~IsFile(q)
        PROVE  TreeInv'
    <2>1. doc' = doc /\ Act' = Act /\ Behind' = Behind /\ pc' = p /\ n' = i
      BY <1>2, GoBehind
    <2>2. Dest' = Dest
      BY <2>1 DEF Dest, OnRootOnly
    <2>3. InWriteFile'
      BY <1>0, <1>2, <2>1, <2>2, DestFacts DEF InWriteFile, IsDir, IsFile
    <2>4. InUserManage'
      BY <1>0, <2>1 DEF InUserManage
    <2>5. Through("writefile")' = Through("writefile") /\ Through("user-manage")' = Through("user-manage")
      BY <2>1, DocFrame DEF Through
    <2> QED
      BY <1>0, <2>1, <2>3, <2>4, <2>5, Elsewhere
  <1>3. CASE IsDir(Parent(Dest)) /\ Go("write", 0)
    <2>1. ASSUME NEW q \in Above(Dest)
          PROVE  IsDir(q)
      <3>1. Len(Dest) - 1 \in 1..(Len(Dest) - 1) /\ Parent(Dest) = Part(Dest, Len(Dest) - 1)
        BY <1>0, DestFacts DEF Parent
      <3>2. Above(Parent(Dest)) = {Part(Dest, j) : j \in 1..(Len(Dest) - 1 - 1)}
        BY <1>0, <3>1, DestFacts, PartAbove
      <3>3. \A r \in Above(Parent(Dest)) : IsDir(r)
        BY <1>3 DEF TreeInv, TreeOK, IsDir
      <3>4. PICK j \in 1..(Len(Dest) - 1) : q = Part(Dest, j)
        BY <1>0, DestFacts
      <3>5. CASE j = Len(Dest) - 1
        BY <1>3, <3>1, <3>4, <3>5
      <3>6. CASE j # Len(Dest) - 1
        <4>1. j \in 1..(Len(Dest) - 1 - 1)
          BY <1>0, <3>6, DestFacts
        <4> QED
          BY <3>2, <3>3, <3>4, <4>1
      <3> QED
        BY <3>5, <3>6
    <2> QED
      BY <1>2, <1>3, <2>1
  <1>4. CASE (\A q \in Above(Dest) : ~IsFile(q)) /\ Go("ensure", 1)
    BY <1>2, <1>4
  <1> QED
    BY <1>1, <1>3, <1>4 DEF BeginWriteFile

LEMMA AccountsStay ==
    ASSUME Accounts, doc' = doc, UNCHANGED users
    PROVE  Accounts'
  BY DEF Accounts, UserManageTypeOK, users

\* The next place of a loop in writefile.
LEMMA NextInWriteFile ==
    ASSUME Control, status = "running", Act.kind = "writefile", NEW p, NEW i, Go(p, i)
    PROVE  /\ doc' = doc /\ Act' = Act /\ Behind' = Behind /\ at' = at /\ pc' = p /\ n' = i /\ Dest' = Dest
           /\ InUserManage'
           /\ Through("writefile")' = Through("writefile") /\ Through("user-manage")' = Through("user-manage")
  <1>1. doc' = doc /\ Act' = Act /\ Behind' = Behind /\ at' = at /\ pc' = p /\ n' = i
    BY GoBehind
  <1>2. Dest' = Dest
    BY <1>1 DEF Dest, OnRootOnly
  <1>3. InUserManage'
    BY <1>1 DEF InUserManage
  <1>4. Through("writefile")' = Through("writefile") /\ Through("user-manage")' = Through("user-manage")
    BY <1>1, DocFrame DEF Through
  <1> QED
    BY <1>1, <1>2, <1>3, <1>4

LEMMA EnsureDirTree == TreeInv /\ EnsureDir /\ UNCHANGED users => TreeInv'
  <1> SUFFICES ASSUME TreeInv, EnsureDir, UNCHANGED users PROVE TreeInv'
    OBVIOUS
  <1>0. /\ Control /\ Control' /\ status = "running" /\ Act.kind = "writefile" /\ pc = "ensure" /\ n < Len(Dest)
        /\ doc \in Documents /\ accounts' = accounts /\ TreeOK /\ InWriteFile /\ Accounts
    BY WriteFileControl DEF TreeInv, WriteFileNext, EnsureDir, At, users, Control
  <1>1. PICK d : d = Part(Dest, n)
    OBVIOUS
  <1>2. /\ n \in 1..(Len(Dest) - 1) /\ \A i \in 1..(n - 1) : IsDir(Part(Dest, i))
        /\ \A q \in Above(Dest) : ~IsFile(q)
    BY <1>0, DestFacts DEF InWriteFile
  <1>3. d \in Above(Dest) /\ d \in Paths /\ \A q \in Above(d) : IsDir(q)
    BY <1>0, <1>1, <1>2, DestFacts, PartAbove
  <1>4. Accounts'
    <2>1. doc' = doc
      BY DEF EnsureDir, Go, Fault, Exit
    <2> QED
      BY <1>0, <2>1, AccountsStay
  \* Every step to the next directory.
  <1>5. ASSUME Later, IsDir(d)', Go("ensure", n + 1), \A q \in DOMAIN tree' \ DOMAIN tree : q = d /\ tree'[d].kind = "dir"
        PROVE  InWriteFile'
    <2>1. Act' = Act /\ pc' = "ensure" /\ n' = n + 1 /\ Dest' = Dest
      BY <1>0, <1>5, NextInWriteFile
    <2>2. n + 1 \in 1..Len(Dest)
      BY <1>0, <1>2, DestFacts
    <2>4. ASSUME NEW q \in Above(Dest)
          PROVE  ~IsFile(q)'
      BY <1>2, <1>5 DEF IsFile, Later, IsDir
    <2>5. Above(Dest)' = Above(Dest) /\ Len(Dest)' = Len(Dest)
      BY <2>1 DEF Above
    <2>6. \A i \in 1..(n' - 1) : IsDir(Part(Dest, i))'
      <3>1. \A i \in 1..n : Part(Dest, i) \in DOMAIN tree' /\ tree'[Part(Dest, i)].kind = "dir"
        BY <1>1, <1>2, <1>5 DEF IsDir, Later
      <3>2. \A i : Part(Dest, i)' = Part(Dest, i)
        BY <2>1 DEF Part
      <3>3. n' - 1 = n
        BY <1>2, <2>1
      <3> QED
        BY <3>1, <3>2, <3>3 DEF IsDir
    <2>7. \A q \in Above(Dest)' : ~IsFile(q)'
      BY <2>4, <2>5
    <2>8. n' \in 1..Len(Dest')
      BY <2>1, <2>2
    <2>9. (pc' = "write") = FALSE
      BY <2>1
    <2> QED
      BY <2>1, <2>6, <2>7, <2>8, <2>9 DEF InWriteFile
  <1>6. CASE IsDir(d) /\ Go("ensure", n + 1) /\ UNCHANGED <<tree, scars>>
    <2>1. ScarsStay /\ Later
      BY <1>0, <1>6, GoBehind, QuietLater DEF ScarsStay
    <2>2. InWriteFile'
      BY <1>5, <1>6, <2>1 DEF IsDir
    <2> QED
      BY <1>0, <1>6, <2>1, <2>2, NextInWriteFile, Elsewhere
  <1>7. ASSUME ~IsDir(d), ScarsStay, doc' = doc, NEW u \in Nat, tree' = Put(tree, d, Dir(u))
        PROVE  /\ Later /\ TreeOK' /\ tree'[d] = Dir(u) /\ DOMAIN tree' \ DOMAIN tree = {d} /\ Whole /\ Richer
               /\ OriginOf(d)'
    <2>1. Dir(u) \in [kind : {"dir", "file", "torn"}, owner : Nat] /\ Dir(u).kind = "dir"
      BY DEF Dir
    <2>2. d \notin DOMAIN tree
      BY <1>2, <1>3, <1>7 DEF IsFile, IsDir
    <2>3. /\ Later /\ TreeOK'
          /\ DOMAIN tree' = DOMAIN tree \cup {d} /\ tree'[d] = Dir(u)
          /\ \A q \in DOMAIN tree : q # d => tree'[q] = tree[q]
      BY <1>0, <1>3, <1>7, <2>1, <2>2, PutLater
    <2>4. Whole /\ Richer
      BY <1>0, <2>2, <2>3 DEF Whole, Richer
    <2>5. OriginOf(d)'
      <3>1. at \in Planned("writefile") /\ WrittenAt(at) = Dest
        BY <1>0, DestFacts
      <3>2. d \in Above(Dest) /\ tree'[d].kind = "dir"
        BY <1>3, <2>1, <2>3
      <3>3. \E i \in Planned("writefile")' : d \in Above(WrittenAt(i)') /\ tree'[d].kind = "dir"
        BY <1>7, <3>1, <3>2, DocFrame
      <3> QED
        BY <3>3 DEF OriginOf
    <2> QED
      BY <2>2, <2>3, <2>4, <2>5
  <1>8. CASE ~IsDir(d) /\ tree' = Put(tree, d, Dir(Act.uid)) /\ Go("ensure", n + 1) /\ UNCHANGED scars
    <2>1. ScarsStay /\ doc' = doc /\ Act.uid \in Nat
      BY <1>0, <1>8, GoBehind, DestFacts DEF ScarsStay
    <2>2. /\ Later /\ TreeOK' /\ tree'[d] = Dir(Act.uid) /\ DOMAIN tree' \ DOMAIN tree = {d} /\ Whole /\ Richer
          /\ OriginOf(d)'
      BY <1>7, <1>8, <2>1
    <2>3. DirFine(d)'
      <3>1. at \in Planned("writefile") /\ d \in Above(WrittenAt(at)) /\ tree'[d] = Dir(doc.plan[at].uid)
        BY <1>0, <1>3, <2>2, DestFacts
      <3>2. \E i \in Planned("writefile")' : d \in Above(WrittenAt(i)') /\ tree'[d] = Dir(doc'.plan[i].uid)
        BY <2>1, <3>1, DocFrame
      <3> QED
        BY <3>2 DEF DirFine, Dir
    <2>4. d \in DOMAIN tree' /\ IsDir(d)'
      BY <2>2 DEF IsDir, Dir
    <2>5. InWriteFile'
      BY <1>5, <1>8, <2>2, <2>4 DEF IsDir
    <2>6. /\ InUserManage' /\ Behind' = Behind
          /\ Through("writefile")' = Through("writefile") /\ Through("user-manage")' = Through("user-manage")
      BY <1>0, <1>8, NextInWriteFile
    <2> QED
      BY <1>0, <1>4, <2>2, <2>3, <2>5, <2>6, TreeStep
  <1>9. CASE ~IsDir(d) /\ tree' = Put(tree, d, Dir(0)) /\ scars' = scars \cup {<<"chown", d>>} /\ Fault
    <2>1. ScarsStay /\ doc' = doc /\ Behind' = {} /\ pc' = "begin"
      BY <1>9, ExitBehind DEF ScarsStay
    <2>2. /\ Later /\ TreeOK' /\ tree'[d] = Dir(0) /\ DOMAIN tree' \ DOMAIN tree = {d} /\ OriginOf(d)'
      BY <1>7, <1>9, <2>1
    <2>3. DirFine(d)'
      BY <1>9 DEF DirFine
    <2> QED
      BY <1>0, <1>4, <2>1, <2>2, <2>3, BeginPlaces, TreeStep
  <1> QED
    BY <1>1, <1>6, <1>8, <1>9 DEF EnsureDir

LEMMA DirsEnsuredTree == TreeInv /\ DirsEnsured /\ UNCHANGED users => TreeInv'
  <1> SUFFICES ASSUME TreeInv, DirsEnsured, UNCHANGED users PROVE TreeInv'
    OBVIOUS
  <1>0. /\ Control /\ Control' /\ status = "running" /\ Act.kind = "writefile" /\ pc = "ensure" /\ n = Len(Dest)
        /\ tree' = tree /\ ScarsStay /\ InWriteFile /\ Go("write", 0)
    BY WriteFileControl DEF TreeInv, WriteFileNext, DirsEnsured, At, ScarsStay
  <1>1. /\ doc' = doc /\ Act' = Act /\ pc' = "write" /\ Dest' = Dest /\ InUserManage'
        /\ Through("writefile")' = Through("writefile") /\ Through("user-manage")' = Through("user-manage")
    BY <1>0, NextInWriteFile
  <1>2. \A q \in Above(Dest) : IsDir(q)
    BY <1>0, DestFacts DEF InWriteFile
  <1>3. InWriteFile'
    BY <1>0, <1>1, <1>2 DEF InWriteFile, IsDir
  <1> QED
    BY <1>0, <1>1, <1>3, Elsewhere

LEMMA WriteContentsTree == TreeInv /\ WriteContents /\ UNCHANGED users => TreeInv'
  <1> SUFFICES ASSUME TreeInv, WriteContents, UNCHANGED users PROVE TreeInv'
    OBVIOUS
  <1>0. /\ Control /\ Control' /\ status = "running" /\ Act.kind = "writefile" /\ pc = "write"
        /\ doc \in Documents /\ accounts' = accounts /\ TreeOK /\ InWriteFile /\ Accounts /\ scars' = scars /\ ScarsStay
    BY WriteFileControl DEF TreeInv, WriteFileNext, WriteContents, At, users, Control, ScarsStay
  <1>1. PICK p : p = Dest
    OBVIOUS
  <1>2. p = WrittenAt(at) /\ at \in Planned("writefile") /\ p \in Paths /\ Act.uid \in Nat /\ Act = doc.plan[at] /\ \A q \in Above(p) : IsDir(q)
    BY <1>0, <1>1, DestFacts DEF InWriteFile
  <1>3. Accounts'
    <2>1. doc' = doc
      BY DEF WriteContents, Refuse, ActionDone, Fault, Exit
    <2> QED
      BY <1>0, <2>1, AccountsStay
  <1>4. CASE Refuse /\ UNCHANGED tree
    BY <1>0, <1>4, ExitBehind, BeginPlaces, Elsewhere DEF Through
  <1>5. ASSUME ~IsDir(p), doc' = doc, NEW node \in [kind : {"file", "torn"}, owner : Nat], tree' = Put(tree, p, node)
        PROVE  /\ Later /\ TreeOK' /\ tree'[p] = node /\ DOMAIN tree' = DOMAIN tree \cup {p} /\ Richer
               /\ \A q \in DOMAIN tree : q # p => tree'[q] = tree[q]
               /\ OriginOf(p)' /\ tree'[p].kind # "dir"
    <2>1. node \in [kind : {"dir", "file", "torn"}, owner : Nat] /\ node.kind # "dir"
      OBVIOUS
    <2>2. p \notin DOMAIN tree \/ (tree[p].kind # "dir" /\ node.kind # "dir")
      BY <1>5, <2>1 DEF IsDir
    <2>3. /\ Later /\ TreeOK'
          /\ DOMAIN tree' = DOMAIN tree \cup {p} /\ tree'[p] = node
          /\ \A q \in DOMAIN tree : q # p => tree'[q] = tree[q]
      BY <1>0, <1>2, <1>5, <2>1, <2>2, PutLater
    <2>4. Richer
      BY <1>0 DEF Richer
    <2>5. OriginOf(p)'
      <3>1. \E i \in Planned("writefile")' : p = WrittenAt(i)' /\ tree'[p].kind # "dir"
        BY <1>2, <1>5, <2>1, <2>3, DocFrame
      <3> QED
        BY <3>1 DEF OriginOf
    <2> QED
      BY <2>1, <2>3, <2>4, <2>5
  <1>6. CASE ~IsDir(p) /\ tree' = Put(tree, p, File(Act.uid)) /\ ActionDone
    <2>1. doc' = doc /\ pc' = "begin" /\ Behind = 1..(at - 1) /\ Behind' = Behind \cup {at} /\ at \in Nat
      BY <1>0, <1>6, DoneBehind, RunningBehind
    <2>2. File(Act.uid) \in [kind : {"file", "torn"}, owner : Nat]
      BY <1>2 DEF File
    <2>3. /\ Later /\ TreeOK' /\ tree'[p] = File(Act.uid) /\ DOMAIN tree' = DOMAIN tree \cup {p} /\ Richer
          /\ \A q \in DOMAIN tree : q # p => tree'[q] = tree[q]
          /\ OriginOf(p)' /\ tree'[p].kind # "dir"
      BY <1>5, <1>6, <2>1, <2>2
    <2>4. tree'[p].kind = "file" /\ tree'[p].owner = doc.plan[at].uid
      BY <1>2, <2>3 DEF File
    <2>5. /\ Planned("writefile")' = Planned("writefile") /\ Planned("user-manage")' = Planned("user-manage")
          /\ \A i : WrittenAt(i)' = WrittenAt(i)
      BY <2>1, DocFrame
    <2>6. at \in Through("writefile")' /\ \A i \in Behind : i <= at
      BY <1>2, <2>1, <2>5 DEF Through
    <2>7. Whole
      BY <1>2, <2>3, <2>4, <2>6 DEF Whole
    <2>8. Through("writefile")' = Through("writefile") \cup {at} /\ Through("user-manage")' = Through("user-manage")
      <3>1. at \notin Planned("user-manage")
        BY <1>0 DEF Planned, Act
      <3> QED
        BY <1>2, <2>1, <2>5, <3>1 DEF Through
    <2>9. \A i : i = at => FileDone(i)'
      <3>0. TAKE a
      <3>9. HAVE a = at
      <3>1. WrittenAt(a)' = p /\ p \in DOMAIN tree' /\ a \in Nat
        BY <1>2, <2>1, <2>3, <2>5, <3>9
      <3>2. a >= a /\ a \in Through("writefile")' /\ tree'[p].owner = doc'.plan[a].uid
        BY <2>1, <2>4, <2>6, <3>9, <3>1
      <3>3. \E j \in Through("writefile")' : j >= a /\ WrittenAt(j)' = p /\ tree'[p].owner = doc'.plan[j].uid
        BY <3>1, <3>2
      <3> QED
        BY <2>4, <3>1, <3>3 DEF FileDone
    <2> QED
      BY <1>0, <1>3, <2>1, <2>3, <2>7, <2>8, <2>9, BeginPlaces, TreeStep
  <1>7. CASE /\ ~IsDir(p) /\ Fault
             /\ \E node \in {Torn(OwnerOr(tree, p, 0)), File(OwnerOr(tree, p, 0))} : tree' = Put(tree, p, node)
    <2>1. doc' = doc /\ pc' = "begin" /\ Behind' = {}
      BY <1>7, ExitBehind
    <2>2. OwnerOr(tree, p, 0) \in Nat
      BY <1>0 DEF OwnerOr, TreeOK
    <2>3. PICK node \in {Torn(OwnerOr(tree, p, 0)), File(OwnerOr(tree, p, 0))} : tree' = Put(tree, p, node)
      BY <1>7
    <2>4. node \in [kind : {"file", "torn"}, owner : Nat]
      BY <2>2 DEF Torn, File
    <2>5. /\ Later /\ TreeOK' /\ DOMAIN tree' = DOMAIN tree \cup {p}
          /\ OriginOf(p)' /\ tree'[p].kind # "dir"
      BY <1>5, <1>7, <2>1, <2>3, <2>4
    <2> QED
      BY <1>0, <1>3, <2>1, <2>5, BeginPlaces, TreeStep
  <1> QED
    BY <1>1, <1>4, <1>6, <1>7 DEF WriteContents

LEMMA WriteFileTree == TreeInv /\ WriteFileNext /\ UNCHANGED users => TreeInv'
  BY BeginWriteFileTree, EnsureDirTree, DirsEnsuredTree, WriteContentsTree DEF WriteFileNext

-----------------------------------------------------------------------------
(* The steps of user-manage.                                               *)

LEMMA NextInUserManage ==
    ASSUME Control, status = "running", Act.kind = "user-manage", NEW p, NEW i, Go(p, i)
    PROVE  /\ doc' = doc /\ Act' = Act /\ Behind' = Behind /\ at' = at /\ pc' = p /\ n' = i
           /\ InWriteFile'
           /\ Through("writefile")' = Through("writefile") /\ Through("user-manage")' = Through("user-manage")
  <1>1. doc' = doc /\ Act' = Act /\ Behind' = Behind /\ at' = at /\ pc' = p /\ n' = i
    BY GoBehind
  <1>2. InWriteFile'
    BY <1>1 DEF InWriteFile
  <1>3. Through("writefile")' = Through("writefile") /\ Through("user-manage")' = Through("user-manage")
    BY <1>1, DocFrame DEF Through
  <1> QED
    BY <1>1, <1>2, <1>3

LEMMA WhoFacts ==
    ASSUME TreeInv, Act.kind = "user-manage", pc \in {"ensure", "password", "keys", "sudo"}
    PROVE  /\ n \in DOMAIN Principals /\ n \in Nat /\ Who = Principals[n] /\ Who.name \in Name /\ Who.name \in Names
           /\ Who.keys \in BOOLEAN /\ \A i \in 1..(n - 1) : i \in DOMAIN Principals /\ Served(i)
           /\ at \in Planned("user-manage")
  <1>1. doc \in Documents /\ InUserManage /\ at \in DOMAIN doc.plan
    BY DEF TreeInv, Control
  <1>2. n \in DOMAIN Principals /\ \A i \in 1..(n - 1) : Served(i)
    BY <1>1 DEF InUserManage
  <1>3. n \in Nat /\ \A i \in 1..(n - 1) : i \in DOMAIN Principals
    BY <1>1, <1>2, PrincipalFacts
  <1>4. Who.name \in Name /\ Who.keys \in BOOLEAN /\ Who.name \in Names
    BY <1>1, <1>2, PrincipalFacts, NameFacts DEF Who
  <1> QED
    BY <1>1, <1>2, <1>3, <1>4 DEF Who, Planned, Act

LEMMA BeginUserManageTree == TreeInv /\ BeginUserManage => TreeInv'
  <1> SUFFICES ASSUME TreeInv, BeginUserManage PROVE TreeInv'
    OBVIOUS
  <1>0. /\ Control /\ Control' /\ status = "running" /\ Act.kind = "user-manage" /\ Go("password", 1)
        /\ tree' = tree /\ ScarsStay /\ UNCHANGED users /\ doc \in Documents /\ Accounts
    BY UserManageControl DEF TreeInv, UserManageNext, BeginUserManage, At, ScarsStay, Control
  <1>1. /\ doc' = doc /\ Act' = Act /\ pc' = "password" /\ n' = 1 /\ InWriteFile'
        /\ Through("writefile")' = Through("writefile") /\ Through("user-manage")' = Through("user-manage")
    BY <1>0, NextInUserManage
  <1>2. 1 \in DOMAIN Principals /\ Principals[1].name = "root"
    <2>1. 1 \in DOMAIN Principals /\ Principals[1] = doc.root
      BY <1>0, PrincipalFacts
    <2>2. doc.root.name = "root"
      BY <1>0, UsersAssumption
    <2> QED
      BY <2>1, <2>2
  <1>3. "root" \in DOMAIN accounts
    <2>1. "root" \in DOMAIN doc.image.accounts
      BY <1>0, UsersAssumption
    <2> QED
      BY <1>0, <2>1 DEF Accounts
  <1>4. Principals' = Principals /\ accounts' = accounts
    BY <1>0, <1>1, DocFrame DEF users
  <1>5. HasAccount(1)'
    BY <1>2, <1>3, <1>4 DEF HasAccount
  <1>6. InUserManage'
    BY <1>1, <1>2, <1>4, <1>5 DEF InUserManage
  <1> QED
    BY <1>0, <1>1, <1>6, Elsewhere

\* /home is there, and root's home.
LEMMA BaseDirs ==
    ASSUME TreeInv
    PROVE  /\ <<"home">> \in Given /\ <<"root">> \in Given
           /\ IsDir(<<"home">>) /\ IsDir(<<"root">>)
           /\ \A u \in Name : u # "root" => Home(u) \notin MountPoints(doc)
  <1>1. doc \in Documents /\ Kept
    BY DEF TreeInv, Control
  <1>2. /\ <<"home">> \in DOMAIN doc.image.tree /\ doc.image.tree[<<"home">>].kind = "dir"
        /\ <<"root">> \in DOMAIN doc.image.tree /\ doc.image.tree[<<"root">>].kind = "dir"
    BY <1>1, ImageAssumption
  <1>3. \A u \in Name : u # "root" => Home(u) \notin MountPoints(doc)
    BY DEF MountPoints, Home
  <1> QED
    BY <1>1, <1>2, <1>3 DEF Given, Kept, IsDir

\* A name without an account: nothing but the image or a file of the plan has
\* put something at its home.
LEMMA NoAccountHome ==
    ASSUME TreeInv, NEW u \in Name, u \notin DOMAIN accounts, Home(u) \in DOMAIN tree
    PROVE  ~ImageFit(u) \/ \E i \in Planned("writefile") : Home(u) \in UpTo(WrittenAt(i))
  <1>1. doc \in Documents /\ Accounts /\ Origin /\ Names \subseteq Name
    BY NameFacts DEF TreeInv, Control
  <1>2. u \notin DOMAIN doc.image.accounts
    BY <1>1 DEF Accounts
  <1>3. u # "root"
    BY <1>1, <1>2, UsersAssumption
  <1>4. CASE Home(u) \in DOMAIN doc.image.tree
    BY <1>2, <1>4 DEF ImageFit
  <1>5. CASE Home(u) \notin DOMAIN doc.image.tree
    <2>1. Home(u) \notin Given
      BY <1>3, <1>5, BaseDirs DEF Given
    <2>2. OriginOf(Home(u))
      BY <1>1, <2>1 DEF Origin
    <2>3. ASSUME NEW v \in Names \cap DOMAIN accounts
          PROVE  Home(u) \notin UpTo(SSHDir(v)) /\ Home(u) # KeysFile(v)
      <3>1. v \in Name /\ v # u
        BY <1>1
      <3> QED
        BY <3>1, UserPathsApart
    <2> QED
      BY <2>2, <2>3 DEF OriginOf, UpTo
  <1> QED
    BY <1>4, <1>5

LEMMA EnsureUserTree == TreeInv /\ EnsureUser => TreeInv'
  <1> SUFFICES ASSUME TreeInv, EnsureUser PROVE TreeInv'
    OBVIOUS
  <1>0. /\ Control /\ Control' /\ status = "running" /\ Act.kind = "user-manage" /\ pc = "ensure" /\ doc \in Documents
        /\ Accounts /\ TreeOK /\ sshd' = sshd
    BY UserManageControl DEF TreeInv, UserManageNext, EnsureUser, At, Control
  <1>1. PICK u : u = Who.name
    OBVIOUS
  <1>2. /\ n \in DOMAIN Principals /\ Who = Principals[n] /\ u \in Name /\ u \in Names
        /\ \A i \in 1..(n - 1) : i \in DOMAIN Principals /\ Served(i)
    BY <1>0, <1>1, WhoFacts
  <1>3. CASE u \in DOMAIN accounts /\ Go("password", n) /\ UNCHANGED <<tree, scars, accounts>>
    <2>1. /\ doc' = doc /\ Act' = Act /\ pc' = "password" /\ n' = n /\ InWriteFile'
          /\ Through("writefile")' = Through("writefile") /\ Through("user-manage")' = Through("user-manage")
      BY <1>0, <1>3, NextInUserManage
    <2>2. Principals' = Principals /\ \A j : WrittenAt(j)' = WrittenAt(j) /\ Planned("writefile")' = Planned("writefile")
      BY <2>1, DocFrame
    <2>3. HasAccount(n)' /\ \A i \in 1..(n - 1) : Served(i)'
      BY <1>1, <1>2, <1>3, <2>1, <2>2 DEF HasAccount, Served, HasPassword, HasKeys, HasGroup, Uid
    <2>4. InUserManage'
      BY <1>2, <2>1, <2>2, <2>3 DEF InUserManage
    <2>5. ScarsStay /\ UNCHANGED users
      BY <1>0, <1>3 DEF ScarsStay, users
    <2> QED
      BY <1>0, <1>3, <2>1, <2>4, <2>5, Elsewhere
  <1>4. ASSUME u \notin DOMAIN accounts, accounts' = Put(accounts, u, NewAccount), doc' = doc
        PROVE  /\ Accounts' /\ DOMAIN accounts' = DOMAIN accounts \cup {u} /\ Richer
               /\ accounts'[u] = NewAccount /\ NewAccount.uid \in Nat /\ Uid(u)' = NewAccount.uid
               /\ \A v \in DOMAIN accounts : v \in DOMAIN accounts' /\ accounts'[v] = accounts[v]
    <2>1. IsFiniteSet(DOMAIN accounts)
      BY <1>0 DEF Accounts, UserManageTypeOK
    <2>2. Cardinality(DOMAIN accounts \ {"root"}) \in Nat
      BY <2>1, FS_Subset, FS_CardinalityType
    <2>3. NewAccount.uid \in Nat /\ NewAccount \in [uid : Nat, pw : BOOLEAN, sudo : BOOLEAN]
      BY <2>2 DEF NewAccount
    <2>4. /\ DOMAIN accounts' = DOMAIN accounts \cup {u} /\ accounts'[u] = NewAccount
          /\ \A v \in DOMAIN accounts : v \in DOMAIN accounts' /\ accounts'[v] = accounts[v]
      BY <1>4 DEF Put
    <2>5. IsFiniteSet(DOMAIN accounts')
      BY <2>1, <2>4, FS_AddElement
    <2>6. accounts' \in [DOMAIN accounts' -> [uid : Nat, pw : BOOLEAN, sudo : BOOLEAN]]
      <3>1. \A v \in DOMAIN accounts' : accounts'[v] \in [uid : Nat, pw : BOOLEAN, sudo : BOOLEAN]
        BY <1>0, <2>3, <2>4 DEF Accounts, UserManageTypeOK
      <3>2. accounts' = [v \in DOMAIN accounts' |-> accounts'[v]]
        BY <1>4 DEF Put
      <3> QED
        BY <3>1, <3>2
    <2>7. UserManageTypeOK'
      BY <1>0, <1>2, <2>4, <2>5, <2>6 DEF Accounts, UserManageTypeOK
    <2>8. Accounts'
      BY <1>0, <1>4, <2>4, <2>7 DEF Accounts
    <2> QED
      BY <2>3, <2>4, <2>8 DEF Richer, Uid
  <1>5. CASE /\ u \notin DOMAIN accounts /\ accounts' = Put(accounts, u, NewAccount)
             /\ tree' = IF Home(u) \in DOMAIN tree THEN tree ELSE Put(tree, Home(u), Dir(NewAccount.uid))
             /\ Go("password", n) /\ UNCHANGED scars
    <2>1. /\ doc' = doc /\ Act' = Act /\ pc' = "password" /\ n' = n /\ InWriteFile' /\ Behind' = Behind
          /\ Through("writefile")' = Through("writefile") /\ Through("user-manage")' = Through("user-manage")
          /\ ScarsStay
      BY <1>0, <1>5, NextInUserManage DEF ScarsStay
    <2>2. /\ Accounts' /\ DOMAIN accounts' = DOMAIN accounts \cup {u} /\ Richer
          /\ accounts'[u] = NewAccount /\ NewAccount.uid \in Nat /\ Uid(u)' = NewAccount.uid
          /\ \A v \in DOMAIN accounts : v \in DOMAIN accounts' /\ accounts'[v] = accounts[v]
      BY <1>4, <1>5, <2>1
    <2>3. /\ Principals' = Principals /\ \A j : WrittenAt(j)' = WrittenAt(j) /\ Planned("writefile")' = Planned("writefile")
          /\ Names' = Names /\ \A v : ImageFit(v)' = ImageFit(v)
      BY <2>1, DocFrame
    <2>4. /\ Later /\ Whole /\ TreeOK' /\ HomeState(u)'
          /\ \A p \in DOMAIN tree' \ DOMAIN tree : OriginOf(p)' /\ DirFine(p)'
      <3>1. CASE Home(u) \in DOMAIN tree
        <4>1. tree' = tree
          BY <1>5, <3>1
        <4>2. Later /\ Whole
          BY <2>1, <2>2, <4>1 DEF Later, Whole, ScarsStay
        <4>3. TreeOK'
          BY <1>0, <4>1 DEF TreeOK, IsDir
        <4>4. ~ImageFit(u) \/ \E i \in Planned("writefile") : Home(u) \in UpTo(WrittenAt(i))
          BY <1>2, <1>5, <3>1, NoAccountHome
        <4>5. HomeState(u)'
          BY <2>3, <3>1, <4>1, <4>4 DEF HomeState
        <4> QED
          BY <4>1, <4>2, <4>3, <4>5
      <3>2. CASE Home(u) \notin DOMAIN tree
        <4>1. tree' = Put(tree, Home(u), Dir(NewAccount.uid))
          BY <1>5, <3>2
        <4>2. Home(u) \in Paths /\ \A q \in Above(Home(u)) : IsDir(q)
          BY <1>2, UserPaths, AboveUserPaths, BaseDirs
        <4>3. Dir(NewAccount.uid) \in [kind : {"dir", "file", "torn"}, owner : Nat] /\ Dir(NewAccount.uid).kind = "dir"
          BY <2>2 DEF Dir
        <4>4. /\ Later /\ TreeOK'
              /\ DOMAIN tree' = DOMAIN tree \cup {Home(u)} /\ tree'[Home(u)] = Dir(NewAccount.uid)
              /\ \A q \in DOMAIN tree : q # Home(u) => tree'[q] = tree[q]
          BY <1>0, <2>1, <2>2, <3>2, <4>1, <4>2, <4>3, PutLater
        <4>5. Whole
          BY <3>2, <4>4 DEF Whole
        <4>6. HomeState(u)'
          BY <2>2, <4>4 DEF HomeState, Dir
        <4>7. OriginOf(Home(u))'
          <5>1. Home(u) \in UpTo(SSHDir(u))
            BY <1>2, AboveUserPaths DEF UpTo
          <5>2. \E v \in Names' \cap DOMAIN accounts' : Home(u) \in UpTo(SSHDir(v)) /\ tree'[Home(u)].kind = "dir"
            BY <1>2, <2>2, <2>3, <4>3, <4>4, <5>1
          <5> QED
            BY <5>2 DEF OriginOf
        <4>8. DirFine(Home(u))'
          <5>1. HomeOwned(u)' /\ u \in DOMAIN accounts'
            BY <2>2, <4>4 DEF HomeOwned, Dir
          <5> QED
            BY <5>1 DEF DirFine
        <4> QED
          BY <4>4, <4>5, <4>6, <4>7, <4>8
      <3> QED
        BY <3>1, <3>2
    <2>5. HasAccount(n)' /\ \A i \in 1..(n - 1) : Served(i)'
      <3>1. HasAccount(n)'
        BY <1>1, <1>2, <2>1, <2>2, <2>3 DEF HasAccount
      <3>2. ASSUME NEW i \in 1..(n - 1)
            PROVE  Served(i)'
        BY <1>0, <1>2, <2>2, <2>4, ServedStep DEF Served, HasPassword
      <3> QED
        BY <3>1, <3>2
    <2>6. InUserManage'
      BY <1>2, <2>1, <2>3, <2>5 DEF InUserManage
    <2> QED
      BY <1>0, <2>1, <2>2, <2>4, <2>6, TreeStep
  <1>6. CASE /\ u \notin DOMAIN accounts /\ accounts' = Put(accounts, u, NewAccount)
             /\ Fault /\ scars' = scars \cup {<<"useradd", u>>} /\ UNCHANGED tree
    <2>1. doc' = doc /\ pc' = "begin" /\ Behind' = {} /\ ScarsStay
      BY <1>6, ExitBehind DEF ScarsStay
    <2>2. /\ Accounts' /\ DOMAIN accounts' = DOMAIN accounts \cup {u}
          /\ \A v \in DOMAIN accounts : v \in DOMAIN accounts' /\ accounts'[v] = accounts[v]
      BY <1>4, <1>6, <2>1
    <2>3. Later
      BY <1>6, <2>1, <2>2 DEF Later, ScarsStay
    <2>4. TreeOK'
      BY <1>0, <1>6 DEF TreeOK, IsDir
    <2>5. HomeState(u)'
      BY <1>6 DEF HomeState
    <2> QED
      BY <1>0, <1>6, <2>1, <2>2, <2>3, <2>4, <2>5, BeginPlaces, TreeStep
  <1>7. CASE Refuse /\ UNCHANGED <<tree, scars, accounts>>
    BY <1>0, <1>7, ExitBehind, BeginPlaces, Elsewhere DEF Through, ScarsStay, users
  <1> QED
    BY <1>1, <1>3, <1>5, <1>6, <1>7 DEF EnsureUser

\* A step that only adds a password or a group to one account.
LEMMA AccountLater ==
    ASSUME TreeInv, doc' = doc, tree' = tree, ScarsStay, sshd' = sshd, NEW u \in DOMAIN accounts,
           NEW r \in [uid : Nat, pw : BOOLEAN, sudo : BOOLEAN], accounts' = [accounts EXCEPT ![u] = r],
           r.uid = accounts[u].uid, accounts[u].pw => r.pw, accounts[u].sudo => r.sudo
    PROVE  Accounts' /\ Later /\ Whole /\ Richer /\ TreeOK' /\ DOMAIN accounts' = DOMAIN accounts
  <1>1. /\ DOMAIN accounts' = DOMAIN accounts /\ accounts'[u] = r
        /\ \A v \in DOMAIN accounts : v # u => accounts'[v] = accounts[v]
    OBVIOUS
  <1>2. Accounts /\ TreeOK
    BY DEF TreeInv
  <1>3. Later /\ Whole /\ Richer
    BY <1>1 DEF Later, Whole, Richer, ScarsStay
  <1>4. TreeOK'
    BY <1>2 DEF TreeOK, IsDir
  <1>5. UserManageTypeOK'
    BY <1>1, <1>2 DEF Accounts, UserManageTypeOK
  <1>6. Accounts'
    BY <1>1, <1>2, <1>5 DEF Accounts
  <1> QED
    BY <1>1, <1>3, <1>4, <1>6

LEMMA SetPasswordTree == TreeInv /\ SetPassword => TreeInv'
  <1> SUFFICES ASSUME TreeInv, SetPassword PROVE TreeInv'
    OBVIOUS
  <1>0. /\ Control /\ Control' /\ status = "running" /\ Act.kind = "user-manage" /\ pc = "password" /\ doc \in Documents
        /\ Accounts /\ TreeOK /\ sshd' = sshd /\ tree' = tree /\ ScarsStay /\ Go("keys", n)
    BY UserManageControl DEF TreeInv, UserManageNext, SetPassword, At, Control, ScarsStay
  <1>1. PICK u : u = Who.name
    OBVIOUS
  <1>2. /\ n \in DOMAIN Principals /\ Who = Principals[n] /\ u \in Name
        /\ \A i \in 1..(n - 1) : i \in DOMAIN Principals /\ Served(i)
    BY <1>0, <1>1, WhoFacts
  <1>3. u \in DOMAIN accounts /\ HasAccount(n)
    BY <1>0, <1>1, <1>2 DEF TreeInv, InUserManage, HasAccount
  <1>4. /\ doc' = doc /\ Act' = Act /\ pc' = "keys" /\ n' = n /\ InWriteFile' /\ Behind' = Behind
        /\ Through("writefile")' = Through("writefile") /\ Through("user-manage")' = Through("user-manage")
    BY <1>0, NextInUserManage
  <1>5. Principals' = Principals
    BY <1>4, DocFrame
  <1>6. accounts' = IF Who.pw THEN [accounts EXCEPT ![u] = [@ EXCEPT !.pw = TRUE]] ELSE accounts
    BY <1>1 DEF SetPassword
  <1>7. accounts[u] \in [uid : Nat, pw : BOOLEAN, sudo : BOOLEAN]
    BY <1>0, <1>3 DEF Accounts, UserManageTypeOK
  <1>8. Accounts' /\ Later /\ Whole /\ Richer /\ TreeOK' /\ DOMAIN accounts' = DOMAIN accounts
    <2>1. CASE Who.pw
      <3>1. PICK r : r = [accounts[u] EXCEPT !.pw = TRUE]
        OBVIOUS
      <3>2. r \in [uid : Nat, pw : BOOLEAN, sudo : BOOLEAN] /\ r.uid = accounts[u].uid /\ r.pw /\ r.sudo = accounts[u].sudo
        BY <1>7, <3>1
      <3>3. accounts' = [accounts EXCEPT ![u] = r]
        BY <1>6, <2>1, <3>1
      <3> QED
        BY <1>0, <1>3, <1>4, <3>2, <3>3, AccountLater
    <2>2. CASE ~Who.pw
      <3>1. accounts' = accounts
        BY <1>6, <2>2
      <3> QED
        BY <1>0, <1>4, <3>1, QuietLater DEF TreeOK, IsDir, Accounts, UserManageTypeOK
    <2> QED
      BY <2>1, <2>2
  <1>9. HasPassword(n)'
    <2>1. u \in DOMAIN accounts' /\ Principals'[n].name = u
      BY <1>1, <1>2, <1>3, <1>5, <1>8
    <2>2. Principals'[n].pw => accounts'[u].pw
      BY <1>2, <1>3, <1>5, <1>6, <1>7
    <2> QED
      BY <1>4, <2>1, <2>2 DEF HasPassword, HasAccount
  <1>10. ASSUME NEW i \in 1..(n - 1)
         PROVE  Served(i)'
    BY <1>0, <1>2, <1>8, ServedStep DEF Served, HasPassword
  <1>11. InUserManage'
    BY <1>2, <1>4, <1>5, <1>9, <1>10 DEF InUserManage
  <1> QED
    BY <1>0, <1>4, <1>8, <1>11, TreeStep

LEMMA AddToGroupTree == TreeInv /\ AddToGroup => TreeInv'
  <1> SUFFICES ASSUME TreeInv, AddToGroup PROVE TreeInv'
    OBVIOUS
  <1>0. /\ Control /\ Control' /\ status = "running" /\ Act.kind = "user-manage" /\ pc = "sudo" /\ doc \in Documents
        /\ Accounts /\ TreeOK /\ sshd' = sshd /\ tree' = tree /\ ScarsStay
    BY UserManageControl DEF TreeInv, UserManageNext, AddToGroup, At, Control, ScarsStay
  <1>1. PICK u : u = Who.name
    OBVIOUS
  <1>2. /\ n \in DOMAIN Principals /\ n \in Nat /\ Who = Principals[n] /\ u \in Name
        /\ \A i \in 1..(n - 1) : i \in DOMAIN Principals /\ Served(i)
    BY <1>0, <1>1, WhoFacts
  <1>3. u \in DOMAIN accounts /\ HasPassword(n) /\ HasKeys(n)
    BY <1>0, <1>1, <1>2 DEF TreeInv, InUserManage, HasAccount, HasPassword
  <1>4. CASE Refuse /\ UNCHANGED accounts
    <2>1. UNCHANGED users
      BY <1>0, <1>4 DEF users
    <2> QED
      BY <1>0, <1>4, <2>1, ExitBehind, BeginPlaces, Elsewhere DEF Through
  <1>5. CASE /\ accounts' = IF Who.sudo THEN [accounts EXCEPT ![Who.name].sudo = TRUE] ELSE accounts
             /\ IF n < Len(Principals) THEN Go("ensure", n + 1) ELSE Go("sshd", 0)
    <2>0. \/ Go("ensure", n + 1) /\ n < Len(Principals)
          \/ Go("sshd", 0) /\ ~(n < Len(Principals))
      BY <1>5
    <2>1. PICK p, i : /\ Go(p, i)
                      /\ \/ (p = "ensure" /\ i = n + 1 /\ n < Len(Principals))
                         \/ (p = "sshd" /\ ~(n < Len(Principals)))
      <3>1. CASE Go("ensure", n + 1) /\ n < Len(Principals)
        BY <3>1
      <3>2. CASE Go("sshd", 0) /\ ~(n < Len(Principals))
        BY <3>2
      <3> QED
        BY <2>0, <3>1, <3>2
    <2>2. PICK k : k = n
      OBVIOUS
    <2>4. /\ doc' = doc /\ Act' = Act /\ pc' = p /\ n' = i /\ InWriteFile' /\ Behind' = Behind
          /\ Through("writefile")' = Through("writefile") /\ Through("user-manage")' = Through("user-manage")
      BY <1>0, <2>1, NextInUserManage
    <2>5. Principals' = Principals
      BY <2>4, DocFrame
    <2>6. accounts' = IF Who.sudo THEN [accounts EXCEPT ![u] = [@ EXCEPT !.sudo = TRUE]] ELSE accounts
      BY <1>1, <1>5
    <2>7. accounts[u] \in [uid : Nat, pw : BOOLEAN, sudo : BOOLEAN]
      BY <1>0, <1>3 DEF Accounts, UserManageTypeOK
    <2>8. Accounts' /\ Later /\ Whole /\ Richer /\ TreeOK' /\ DOMAIN accounts' = DOMAIN accounts
      <3>1. CASE Who.sudo
        <4>1. PICK r : r = [accounts[u] EXCEPT !.sudo = TRUE]
          OBVIOUS
        <4>2. r \in [uid : Nat, pw : BOOLEAN, sudo : BOOLEAN] /\ r.uid = accounts[u].uid /\ r.sudo /\ r.pw = accounts[u].pw
          BY <2>7, <4>1
        <4>3. accounts' = [accounts EXCEPT ![u] = r]
          BY <2>6, <3>1, <4>1
        <4> QED
          BY <1>0, <1>3, <2>4, <4>2, <4>3, AccountLater
      <3>2. CASE ~Who.sudo
        <4>1. accounts' = accounts
          BY <2>6, <3>2
        <4> QED
          BY <1>0, <2>4, <4>1, QuietLater DEF TreeOK, IsDir, Accounts, UserManageTypeOK
      <3> QED
        BY <3>1, <3>2
    <2>9. HasGroup(k)'
      <3>1. Principals'[k].name = u /\ (Principals'[k].sudo => accounts'[u].sudo)
        BY <1>1, <1>2, <1>3, <2>2, <2>5, <2>6, <2>7
      <3> QED
        BY <3>1 DEF HasGroup
    <2>10. \A j \in 1..n : Served(j)'
      <3>1. Served(k)'
        BY <1>0, <1>2, <1>3, <2>2, <2>8, <2>9, ServedStep DEF Served, HasPassword
      <3>2. ASSUME NEW j \in 1..(n - 1)
            PROVE  Served(j)'
        BY <1>0, <1>2, <2>8, ServedStep DEF Served, HasPassword
      <3>3. \A j \in 1..n : j = k \/ j \in 1..(n - 1)
        BY <1>2, <2>2
      <3> QED
        BY <3>1, <3>2, <3>3
    <2>11. InUserManage'
      <3>1. Len(Principals) \in Nat /\ DOMAIN Principals = 1..Len(Principals) /\ n \in 1..Len(Principals)
        BY <1>0, <1>2, PrincipalFacts
      <3>2. CASE p = "ensure" /\ i = n + 1 /\ n < Len(Principals)
        <4>1. n + 1 \in DOMAIN Principals /\ (n + 1) - 1 = n
          BY <1>2, <3>1, <3>2
        <4> QED
          BY <2>4, <2>5, <2>10, <3>2, <4>1 DEF InUserManage
      <3>3. CASE p = "sshd" /\ ~(n < Len(Principals))
        <4>1. DOMAIN Principals = 1..n
          BY <1>2, <3>1, <3>3
        <4> QED
          BY <2>4, <2>5, <2>10, <3>3, <4>1 DEF InUserManage
      <3> QED
        BY <2>1, <3>2, <3>3
    <2> QED
      BY <1>0, <2>4, <2>8, <2>11, TreeStep
  <1> QED
    BY <1>4, <1>5 DEF AddToGroup

\* What MkdirAll, WriteFile and chown -R may leave, in whole or in part.
LEMMA KeysLater ==
    ASSUME TreeInv, doc' = doc, accounts' = accounts, ScarsStay, Act.kind = "user-manage", pc = "keys", Who.keys,
           NEW u \in Name, u = Who.name,
           \A q \in UpTo(SSHDir(u)) : ~IsFile(q), ~IsDir(KeysFile(u)),
           tree' = [p \in DOMAIN tree' |-> tree'[p]],
           DOMAIN tree \cup UpTo(SSHDir(u)) \subseteq DOMAIN tree',
           DOMAIN tree' \subseteq DOMAIN tree \cup UpTo(SSHDir(u)) \cup {KeysFile(u)},
           \A p \in DOMAIN tree' : tree'[p] \in [kind : {"dir", "file", "torn"}, owner : Nat],
           \A p \in DOMAIN tree : tree'[p].kind = "dir" <=> tree[p].kind = "dir",
           \A p \in DOMAIN tree : tree[p].kind = "dir" =>
               tree'[p] = tree[p] \/ (SSHDir(u) \in UpTo(p) /\ tree'[p].owner = Uid(u)),
           \A p \in UpTo(SSHDir(u)) \ DOMAIN tree : tree'[p].kind = "dir",
           KeysFile(u) \in DOMAIN tree' => tree'[KeysFile(u)].kind # "dir"
    PROVE  /\ Later /\ TreeOK'
           /\ \A p \in DOMAIN tree' \ DOMAIN tree : OriginOf(p)' /\ (tree'[p].kind = "dir" => DirFine(p)')
           /\ \A p \in DOMAIN tree' : SSHDir(u) \in UpTo(p) /\ tree'[p].owner = Uid(u) => HandedOver(p)'
  <1>0. doc \in Documents /\ Accounts /\ TreeOK /\ Homes
    BY DEF TreeInv, Control
  <1>1. /\ n \in DOMAIN Principals /\ n \in Nat /\ Who = Principals[n] /\ u \in Names
        /\ at \in Planned("user-manage")
    BY WhoFacts
  <1>2. u \in DOMAIN accounts
    BY <1>1 DEF TreeInv, InUserManage, HasPassword, HasAccount
  <1>3. /\ Principals' = Principals /\ \A j : WrittenAt(j)' = WrittenAt(j) /\ Planned("writefile")' = Planned("writefile")
        /\ Names' = Names /\ \A v : ImageFit(v)' = ImageFit(v)
        /\ Planned("user-manage")' = Planned("user-manage")
    BY DocFrame
  <1>4. ASSUME NEW p \in DOMAIN tree', SSHDir(u) \in UpTo(p), tree'[p].owner = Uid(u)
        PROVE  HandedOver(p)'
    <2>1. Uid(u)' = Uid(u)
      BY DEF Uid
    <2>2. /\ Planned("user-manage")' # {} /\ n \in DOMAIN Principals' /\ Principals'[n].keys
          /\ Principals'[n].name = u /\ u \in DOMAIN accounts' /\ tree'[p].owner = Uid(u)'
      BY <1>1, <1>2, <1>3, <1>4, <2>1
    <2> QED
      BY <1>4, <2>2 DEF HandedOver
  <1>5. Later
    <2>1. \A p \in DOMAIN tree : tree[p].kind = "dir" => tree'[p] = tree[p] \/ HandedOver(p)'
      BY <1>4
    <2> QED
      BY <2>1 DEF Later, ScarsStay
  <1>6. \A p \in UpTo(SSHDir(u)) : p \in DOMAIN tree' /\ tree'[p].kind = "dir"
    BY DEF IsFile
  <1>7. TreeOK'
    <2>1. ASSUME NEW p \in DOMAIN tree' \ DOMAIN tree
          PROVE  p \in Paths /\ \A q \in Above(p) : q \in DOMAIN tree' /\ tree'[q].kind = "dir"
      <3>1. SSHDir(u) \in Paths /\ KeysFile(u) \in Paths /\ Above(KeysFile(u)) = UpTo(SSHDir(u))
        BY UserPaths, AboveUserPaths DEF UpTo
      <3>2. CASE p = KeysFile(u)
        BY <1>6, <3>1, <3>2
      <3>3. CASE p \in UpTo(SSHDir(u))
        <4>1. p \in Paths
          BY <3>1, <3>3, AbovePaths DEF UpTo
        <4>2. \A q \in Above(p) : q \in Above(SSHDir(u))
          BY <3>1, <3>3, AboveAbove
        <4> QED
          BY <1>6, <4>1, <4>2 DEF UpTo
      <3> QED
        BY <3>2, <3>3
    <2> QED
      BY <1>0, <1>5, <2>1, TreeOKStep
  <1>8. ASSUME NEW p \in DOMAIN tree' \ DOMAIN tree
        PROVE  OriginOf(p)'
    <2>1. CASE p = KeysFile(u)
      <3>1. \E v \in Names' \cap DOMAIN accounts' : p = KeysFile(v) /\ tree'[p].kind # "dir"
        BY <1>1, <1>2, <1>3, <2>1
      <3> QED
        BY <3>1 DEF OriginOf
    <2>2. CASE p \in UpTo(SSHDir(u))
      <3>1. \E v \in Names' \cap DOMAIN accounts' : p \in UpTo(SSHDir(v)) /\ tree'[p].kind = "dir"
        BY <1>1, <1>2, <1>3, <1>6, <2>2
      <3> QED
        BY <3>1 DEF OriginOf
    <2> QED
      BY <2>1, <2>2
  <1>9. ASSUME NEW p \in DOMAIN tree' \ DOMAIN tree, tree'[p].kind = "dir"
        PROVE  DirFine(p)'
    <2>1. p \in UpTo(SSHDir(u))
      BY <1>9
    <2>2. p # <<"home">>
      BY BaseDirs DEF IsDir
    <2>3. p = SSHDir(u) \/ p = Home(u)
      BY <2>1, <2>2, AboveUserPaths DEF UpTo
    <2>4. CASE p = SSHDir(u)
      <3>1. Planned("user-manage")' # {} /\ \E i \in DOMAIN Principals' : Principals'[i].keys /\ p = SSHDir(Principals'[i].name)
        BY <1>1, <1>3, <2>4
      <3> QED
        BY <3>1 DEF DirFine
    <2>5. CASE p = Home(u)
      <3>1. <<"useradd", u>> \in scars \/ ~ImageFit(u)
        BY <1>0, <1>2, <2>5 DEF Homes, HomeState
      <3>2. HomeOwned(u)'
        BY <1>3, <3>1 DEF HomeOwned, ScarsStay
      <3> QED
        BY <1>2, <2>5, <3>2 DEF DirFine
    <2> QED
      BY <2>3, <2>4, <2>5
  <1> QED
    BY <1>4, <1>5, <1>7, <1>8, <1>9

LEMMA WriteAuthorizedKeysTree == TreeInv /\ WriteAuthorizedKeys => TreeInv'
  <1> SUFFICES ASSUME TreeInv, WriteAuthorizedKeys PROVE TreeInv'
    OBVIOUS
  <1>0. /\ Control /\ Control' /\ status = "running" /\ Act.kind = "user-manage" /\ pc = "keys" /\ doc \in Documents
        /\ Accounts /\ TreeOK /\ accounts' = accounts /\ sshd' = sshd /\ UNCHANGED users /\ ScarsStay
    BY UserManageControl DEF TreeInv, UserManageNext, WriteAuthorizedKeys, At, Control, ScarsStay, users
  <1>1. PICK u : u = Who.name
    OBVIOUS
  <1>2. /\ n \in DOMAIN Principals /\ Who = Principals[n] /\ u \in Name
        /\ \A i \in 1..(n - 1) : i \in DOMAIN Principals /\ Served(i)
    BY <1>0, <1>1, WhoFacts
  <1>3. u \in DOMAIN accounts /\ HasPassword(n) /\ HasAccount(n)
    BY <1>0, <1>1, <1>2 DEF TreeInv, InUserManage, HasAccount, HasPassword
  <1>4. Accounts'
    <2>1. doc' = doc
      BY DEF WriteAuthorizedKeys, Refuse, Go, Fault, Exit
    <2> QED
      BY <1>0, <2>1, AccountsStay
  <1> DEFINE dirs == [p \in DOMAIN tree \cup UpTo(SSHDir(u)) |-> IF p \in DOMAIN tree THEN tree[p] ELSE Dir(0)]
             Written(node) == Put(dirs, KeysFile(u), node)
             whole == Written(File(OwnerOr(tree, KeysFile(u), 0)))
             torn == Written(Torn(OwnerOr(tree, KeysFile(u), 0)))
             owned == [p \in DOMAIN whole |-> IF SSHDir(u) \in UpTo(p) THEN [whole[p] EXCEPT !.owner = Uid(u)] ELSE whole[p]]
             blocked == (\E q \in UpTo(SSHDir(u)) : IsFile(q)) \/ IsDir(KeysFile(u))
  \* The next step, with the keys of this user.
  <1>5. ASSUME Go("sudo", n), Later, Whole, Richer, TreeOK', HasKeys(n)',
               \A p \in DOMAIN tree' \ DOMAIN tree : OriginOf(p)' /\ (tree'[p].kind = "dir" => DirFine(p)')
        PROVE  TreeInv'
    <2>1. /\ doc' = doc /\ Act' = Act /\ pc' = "sudo" /\ n' = n /\ InWriteFile' /\ Behind' = Behind
          /\ Through("writefile")' = Through("writefile") /\ Through("user-manage")' = Through("user-manage")
      BY <1>0, <1>5, NextInUserManage
    <2>2. Principals' = Principals
      BY <2>1, DocFrame
    <2>3. HasPassword(n)'
      <3>1. PICK k : k = n
        OBVIOUS
      <3>2. HasPassword(k)'
        BY <1>0, <1>2, <1>3, <1>5, <3>1, ServedStep
      <3> QED
        BY <2>1, <3>1, <3>2
    <2>4. ASSUME NEW i \in 1..(n - 1)
          PROVE  Served(i)'
      BY <1>0, <1>2, <1>5, ServedStep DEF Served, HasPassword
    <2>6. InUserManage'
      BY <1>2, <1>5, <2>1, <2>2, <2>3, <2>4 DEF InUserManage
    <2> QED
      BY <1>0, <1>4, <1>5, <2>1, <2>6, TreeStep
  <1>6. CASE ~Who.keys /\ Go("sudo", n) /\ UNCHANGED tree
    <2>1. doc' = doc
      BY <1>6 DEF Go
    <2>2. Later /\ Whole /\ Richer /\ TreeOK'
      BY <1>0, <1>6, <2>1, QuietLater DEF TreeOK, IsDir
    <2>3. HasKeys(n)'
      <3>1. Principals' = Principals /\ n' = n
        BY <1>6, <2>1, DocFrame DEF Go
      <3> QED
        BY <1>2, <1>6, <3>1 DEF HasKeys
    <2> QED
      BY <1>5, <1>6, <2>2, <2>3
  <1>7. CASE Refuse /\ UNCHANGED tree
    BY <1>0, <1>7, ExitBehind, BeginPlaces, Elsewhere DEF Through
  <1>8. /\ DOMAIN dirs = DOMAIN tree \cup UpTo(SSHDir(u))
        /\ \A p \in DOMAIN dirs : dirs[p] = IF p \in DOMAIN tree THEN tree[p] ELSE Dir(0)
        /\ dirs = [p \in DOMAIN dirs |-> dirs[p]]
    OBVIOUS
  <1>9. \A p \in DOMAIN dirs : dirs[p] \in [kind : {"dir", "file", "torn"}, owner : Nat]
    BY <1>0, <1>8 DEF TreeOK, Dir
  <1>10. OwnerOr(tree, KeysFile(u), 0) \in Nat
    BY <1>0 DEF OwnerOr, TreeOK
  <1>11. KeysFile(u) \notin UpTo(SSHDir(u)) /\ SSHDir(u) \in UpTo(KeysFile(u)) /\ SSHDir(u) \in UpTo(SSHDir(u))
    BY <1>2, UserPathsApart, AboveUserPaths DEF UpTo
  <1>12. Uid(u) \in Nat
    BY <1>0, <1>3 DEF Accounts, UserManageTypeOK, Uid
  <1> HIDE DEF dirs
  <1>13. ASSUME NEW node
         PROVE  /\ DOMAIN Written(node) = DOMAIN dirs \cup {KeysFile(u)} /\ Written(node)[KeysFile(u)] = node
                /\ \A p \in DOMAIN dirs : p # KeysFile(u) => Written(node)[p] = dirs[p]
                /\ Written(node) = [p \in DOMAIN Written(node) |-> Written(node)[p]]
    BY DEF Put
  <1> HIDE DEF Written
  <1>14. CASE Who.keys /\ ~blocked /\ tree' = owned /\ Go("sudo", n)
    <2>1. doc' = doc /\ n' = n
      BY <1>14 DEF Go
    <2>2. PICK node : node = File(OwnerOr(tree, KeysFile(u), 0))
      OBVIOUS
    <2>3. node.kind = "file" /\ node \in [kind : {"dir", "file", "torn"}, owner : Nat] /\ whole = Written(node)
      BY <1>10, <2>2 DEF File
    <2>4. /\ DOMAIN whole = DOMAIN dirs \cup {KeysFile(u)} /\ whole[KeysFile(u)] = node
          /\ \A p \in DOMAIN dirs : p # KeysFile(u) => whole[p] = dirs[p]
      BY <1>13, <2>3
    <2> HIDE DEF whole
    <2>5. \A p \in DOMAIN whole : whole[p] \in [kind : {"dir", "file", "torn"}, owner : Nat]
      BY <1>9, <2>3, <2>4
    <2>6. /\ DOMAIN tree' = DOMAIN whole
          /\ \A p \in DOMAIN whole : tree'[p] = IF SSHDir(u) \in UpTo(p) THEN [whole[p] EXCEPT !.owner = Uid(u)] ELSE whole[p]
          /\ tree' = [p \in DOMAIN tree' |-> tree'[p]]
      BY <1>14
    <2>7. ASSUME NEW p \in DOMAIN whole
          PROVE  /\ tree'[p] \in [kind : {"dir", "file", "torn"}, owner : Nat] /\ tree'[p].kind = whole[p].kind
                 /\ tree'[p].owner = IF SSHDir(u) \in UpTo(p) THEN Uid(u) ELSE whole[p].owner
                 /\ SSHDir(u) \notin UpTo(p) => tree'[p] = whole[p]
      BY <1>12, <2>5, <2>6
    <2>8. \A p \in DOMAIN tree : whole[p] = tree[p] \/ (p = KeysFile(u) /\ whole[p].kind = "file" /\ tree[p].kind # "dir")
      BY <1>8, <1>14, <2>3, <2>4 DEF IsDir
    <2>9. \A p \in UpTo(SSHDir(u)) : p \in DOMAIN tree' /\ tree'[p].kind = "dir"
      <3>1. \A p \in UpTo(SSHDir(u)) : dirs[p].kind = "dir" /\ p \in DOMAIN dirs /\ p # KeysFile(u)
        BY <1>8, <1>11, <1>14 DEF IsFile, Dir
      <3> QED
        BY <2>4, <2>6, <2>7, <3>1
    <2>10. tree'[KeysFile(u)].kind = "file" /\ KeysFile(u) \in DOMAIN tree'
      BY <2>3, <2>4, <2>6, <2>7
    <2>11. \A p \in DOMAIN tree : tree'[p].kind = "dir" <=> tree[p].kind = "dir"
      BY <1>8, <2>4, <2>7, <2>8, <2>10
    <2>12. \A p \in DOMAIN tree : tree[p].kind = "dir" => tree'[p] = tree[p] \/ (SSHDir(u) \in UpTo(p) /\ tree'[p].owner = Uid(u))
      BY <1>8, <2>4, <2>7, <2>8
    <2>13. /\ \A q \in UpTo(SSHDir(u)) : ~IsFile(q)
           /\ ~IsDir(KeysFile(u))
      BY <1>14
    <2>14. /\ DOMAIN tree \cup UpTo(SSHDir(u)) \subseteq DOMAIN tree'
           /\ DOMAIN tree' \subseteq DOMAIN tree \cup UpTo(SSHDir(u)) \cup {KeysFile(u)}
      BY <1>8, <2>4, <2>6
    <2>15. /\ Later /\ TreeOK'
           /\ \A p \in DOMAIN tree' \ DOMAIN tree : OriginOf(p)' /\ (tree'[p].kind = "dir" => DirFine(p)')
           /\ \A p \in DOMAIN tree' : SSHDir(u) \in UpTo(p) /\ tree'[p].owner = Uid(u) => HandedOver(p)'
      BY <1>0, <1>1, <1>2, <1>14, <2>1, <2>6, <2>7, <2>9, <2>10, <2>11, <2>12, <2>13, <2>14, KeysLater
    <2>16. Whole
      <3>1. ASSUME NEW p \in DOMAIN tree, tree[p].kind = "file"
            PROVE  tree'[p].kind = "file" /\ (tree'[p].owner = tree[p].owner \/ HandedOver(p)')
        <4>1. p \in DOMAIN whole /\ tree'[p].kind = "file"
          BY <1>8, <2>4, <2>7, <2>8, <3>1
        <4>2. CASE SSHDir(u) \in UpTo(p)
          BY <2>6, <2>7, <2>15, <4>1, <4>2
        <4>3. CASE SSHDir(u) \notin UpTo(p)
          BY <1>11, <2>7, <2>8, <4>1, <4>3
        <4> QED
          BY <4>1, <4>2, <4>3
      <3> QED
        BY <3>1 DEF Whole
    <2>17. Richer
      BY <1>0 DEF Richer
    <2>18. HasKeys(n)'
      <3>1. Principals' = Principals /\ Uid(u)' = Uid(u)
        BY <1>0, <2>1, DocFrame DEF Uid
      <3>2. SSHDir(u) \in DOMAIN tree' /\ tree'[SSHDir(u)] = Dir(Uid(u))
        <4>1. SSHDir(u) \in DOMAIN tree' /\ tree'[SSHDir(u)].kind = "dir"
          BY <1>11, <2>9
        <4>2. /\ tree'[SSHDir(u)].owner = Uid(u)
              /\ tree'[SSHDir(u)] \in [kind : {"dir", "file", "torn"}, owner : Nat]
          BY <1>11, <2>6, <2>7, <4>1
        <4> QED
          BY <4>1, <4>2 DEF Dir
      <3>3. tree'[KeysFile(u)].owner = Uid(u)
        BY <1>11, <2>6, <2>7, <2>10
      <3>4. Principals'[n].name = u
        BY <1>1, <1>2, <3>1
      <3> QED
        BY <2>1, <2>10, <3>1, <3>2, <3>3, <3>4 DEF HasKeys, Dir
    <2> QED
      BY <1>5, <1>14, <2>15, <2>16, <2>17, <2>18
  <1>15. CASE Who.keys /\ ~blocked /\ (Fault \/ Refuse) /\ tree' \in {dirs, torn, whole}
    <2>1. doc' = doc /\ pc' = "begin" /\ Behind' = {}
      BY <1>15, ExitBehind
    <2>2. ASSUME NEW node \in [kind : {"file", "torn"}, owner : Nat], tree' = Written(node)
          PROVE  /\ DOMAIN tree' = DOMAIN dirs \cup {KeysFile(u)} /\ tree'[KeysFile(u)] = node
                 /\ \A p \in DOMAIN dirs : p # KeysFile(u) => tree'[p] = dirs[p]
                 /\ tree' = [p \in DOMAIN tree' |-> tree'[p]]
                 /\ node.kind # "dir" /\ node \in [kind : {"dir", "file", "torn"}, owner : Nat]
      BY <1>13, <2>2
    <2>3. /\ File(OwnerOr(tree, KeysFile(u), 0)) \in [kind : {"file", "torn"}, owner : Nat]
          /\ Torn(OwnerOr(tree, KeysFile(u), 0)) \in [kind : {"file", "torn"}, owner : Nat]
      BY <1>10 DEF File, Torn
    <2>4. tree' = dirs \/ \E node \in [kind : {"file", "torn"}, owner : Nat] : tree' = Written(node)
      BY <1>15, <2>3
    <2>5. \A p \in UpTo(SSHDir(u)) : dirs[p].kind = "dir" /\ p \in DOMAIN dirs /\ p # KeysFile(u)
      BY <1>8, <1>11, <1>15 DEF IsFile, Dir
    <2>6. KeysFile(u) \in DOMAIN tree => tree[KeysFile(u)].kind # "dir"
      BY <1>15 DEF IsDir
    <2>7. /\ tree' = [p \in DOMAIN tree' |-> tree'[p]]
          /\ DOMAIN dirs \subseteq DOMAIN tree' /\ DOMAIN tree' \subseteq DOMAIN dirs \cup {KeysFile(u)}
          /\ \A p \in DOMAIN dirs : p # KeysFile(u) => tree'[p] = dirs[p]
          /\ \A p \in DOMAIN tree' : tree'[p] \in [kind : {"dir", "file", "torn"}, owner : Nat]
          /\ KeysFile(u) \in DOMAIN tree' => tree'[KeysFile(u)].kind # "dir"
      <3>1. CASE tree' = dirs
        BY <1>8, <1>9, <1>11, <2>6, <3>1
      <3>2. ASSUME NEW node \in [kind : {"file", "torn"}, owner : Nat], tree' = Written(node)
            PROVE  <2>7!1 /\ <2>7!2 /\ <2>7!3 /\ <2>7!4 /\ <2>7!5
        BY <1>9, <2>2, <3>2
      <3> QED
        BY <2>4, <3>1, <3>2
    <2>8. \A p \in DOMAIN tree : p # KeysFile(u) => tree'[p] = tree[p]
      BY <1>8, <2>7
    <2>9. /\ \A q \in UpTo(SSHDir(u)) : ~IsFile(q)
          /\ ~IsDir(KeysFile(u))
      BY <1>15
    <2>10. /\ DOMAIN tree \cup UpTo(SSHDir(u)) \subseteq DOMAIN tree'
           /\ DOMAIN tree' \subseteq DOMAIN tree \cup UpTo(SSHDir(u)) \cup {KeysFile(u)}
      BY <1>8, <2>7
    <2>11. /\ \A p \in DOMAIN tree : tree'[p].kind = "dir" <=> tree[p].kind = "dir"
           /\ \A p \in DOMAIN tree : tree[p].kind = "dir" => tree'[p] = tree[p] \/ (SSHDir(u) \in UpTo(p) /\ tree'[p].owner = Uid(u))
           /\ \A p \in UpTo(SSHDir(u)) \ DOMAIN tree : tree'[p].kind = "dir"
      BY <2>5, <2>6, <2>7, <2>8, <2>10
    <2>12. /\ Later /\ TreeOK'
           /\ \A p \in DOMAIN tree' \ DOMAIN tree : OriginOf(p)' /\ (tree'[p].kind = "dir" => DirFine(p)')
      BY <1>0, <1>1, <1>2, <1>15, <2>1, <2>7, <2>9, <2>10, <2>11, KeysLater
    <2> QED
      BY <1>0, <1>4, <2>1, <2>12, BeginPlaces, TreeStep
  <1> QED
    <2>1. \/ ~Who.keys /\ Go("sudo", n) /\ UNCHANGED tree
          \/ Who.keys /\ blocked /\ Refuse /\ UNCHANGED tree
          \/ Who.keys /\ ~blocked /\ tree' = owned /\ Go("sudo", n)
          \/ Who.keys /\ ~blocked /\ (Fault \/ Refuse) /\ tree' \in {dirs, torn, whole}
      BY <1>1 DEF WriteAuthorizedKeys, dirs, Written
    <2> QED
      BY <1>6, <1>7, <1>14, <1>15, <2>1

\* A sequence of lines of sshd_config.
Lines(s) == /\ s \in Seq({s[i] : i \in DOMAIN s})
            /\ \A i \in DOMAIN s : s[i].off \in BOOLEAN /\ s[i].odd \in BOOLEAN

LEMMA LinesFacts ==
    ASSUME NEW s, Lines(s)
    PROVE  Len(s) \in Nat /\ DOMAIN s = 1..Len(s) /\ s = [i \in DOMAIN s |-> s[i]]
  BY DEF Lines

LEMMA LinesAre ==
    ASSUME NEW k \in Nat, NEW s, s = [i \in 1..k |-> s[i]],
           \A i \in 1..k : s[i].off \in BOOLEAN /\ s[i].odd \in BOOLEAN
    PROVE  Lines(s) /\ Len(s) = k
  <1>1. DOMAIN s = 1..k
    OBVIOUS
  <1>2. s \in [1..k -> {s[i] : i \in DOMAIN s}]
    BY <1>1
  <1>3. s \in Seq({s[i] : i \in DOMAIN s})
    BY <1>2
  <1> QED
    BY <1>1, <1>3 DEF Lines

\* What replaceDirective makes of a file: every line stays where it is, the
\* matching ones are replaced, and one is added when none matches.
LEMMA ReplaceFacts ==
    ASSUME NEW s, Lines(s), NEW d, NEW v, NEW r, r = ReplaceDirective(s, d, v)
    PROVE  /\ Lines(r)
           /\ \A i \in DOMAIN s : i \in DOMAIN r /\ r[i] = IF Matches(s[i], d) THEN Line(d, v) ELSE s[i]
           /\ \/ DOMAIN r = DOMAIN s /\ \E i \in DOMAIN s : Matches(s[i], d)
              \/ /\ \A i \in DOMAIN s : ~Matches(s[i], d)
                 /\ Len(r) = Len(s) + 1 /\ r[Len(s) + 1] = Line(d, v)
  <1>0. Len(s) \in Nat /\ DOMAIN s = 1..Len(s) /\ s = [i \in DOMAIN s |-> s[i]]
    BY LinesFacts
  <1>1. Line(d, v).off = FALSE /\ Line(d, v).odd = FALSE
    BY DEF Line
  <1>2. CASE \E i \in DOMAIN s : Matches(s[i], d)
    <2>1. r = [i \in DOMAIN s |-> IF Matches(s[i], d) THEN Line(d, v) ELSE s[i]]
      BY <1>2 DEF ReplaceDirective
    <2>2. \A i \in DOMAIN s : r[i] = IF Matches(s[i], d) THEN Line(d, v) ELSE s[i]
      BY <2>1
    <2>3. r = [i \in 1..Len(s) |-> r[i]] /\ DOMAIN r = DOMAIN s
      BY <1>0, <2>1
    <2>4. \A i \in 1..Len(s) : r[i].off \in BOOLEAN /\ r[i].odd \in BOOLEAN
      BY <1>0, <1>1, <2>2 DEF Lines
    <2>5. Lines(r)
      BY <1>0, <2>3, <2>4, LinesAre
    <2> QED
      BY <1>2, <2>2, <2>3, <2>5
  <1>3. CASE \A i \in DOMAIN s : ~Matches(s[i], d)
    <2>1. r = Append(s, Line(d, v))
      BY <1>3 DEF ReplaceDirective
    <2>2. /\ r = [i \in 1..(Len(s) + 1) |-> r[i]] /\ r[Len(s) + 1] = Line(d, v)
          /\ \A i \in DOMAIN s : r[i] = s[i]
      <3>1. PICK S : S = {s[i] : i \in DOMAIN s} \cup {Line(d, v)}
        OBVIOUS
      <3>2. s \in Seq(S) /\ Line(d, v) \in S
        <4>1. s \in [1..Len(s) -> S]
          BY <1>0, <3>1
        <4> QED
          BY <1>0, <3>1, <4>1
      <3>3. /\ r \in Seq(S) /\ Len(r) = Len(s) + 1
            /\ \A i \in 1..Len(s) : r[i] = s[i]
            /\ r[Len(s) + 1] = Line(d, v)
        <4> HIDE DEF Line
        <4> QED
          BY <2>1, <3>2, AppendProperties
      <3> QED
        BY <1>0, <3>3
    <2>3. \A i \in 1..(Len(s) + 1) : i \in DOMAIN s \/ i = Len(s) + 1
      BY <1>0
    <2>4. \A i \in 1..(Len(s) + 1) : r[i].off \in BOOLEAN /\ r[i].odd \in BOOLEAN
      BY <1>1, <2>2, <2>3 DEF Lines
    <2>5. Lines(r) /\ Len(r) = Len(s) + 1
      BY <1>0, <2>2, <2>4, LinesAre
    <2>6. DOMAIN r = 1..(Len(s) + 1)
      BY <2>5, LinesFacts
    <2> QED
      <3>1. \A i \in DOMAIN s : i \in DOMAIN r /\ r[i] = IF Matches(s[i], d) THEN Line(d, v) ELSE s[i]
        BY <1>0, <1>3, <2>2, <2>6
      <3> QED
        BY <1>3, <2>2, <2>5, <3>1
  <1> QED
    BY <1>2, <1>3

\* The two rewrites, one after the other.
LEMMA RewriteFacts ==
    ASSUME NEW s, Lines(s), NEW asked, NEW t, t = RewriteSSHDConfig(s, asked)
    PROVE  \E r : /\ r = (IF asked.PermitRootLogin = None THEN s ELSE ReplaceDirective(s, "PermitRootLogin", asked.PermitRootLogin))
                  /\ t = (IF asked.PasswordAuthentication = None THEN r
                          ELSE ReplaceDirective(r, "PasswordAuthentication", asked.PasswordAuthentication))
                  /\ Lines(r) /\ Lines(t)
  <1>1. PICK r : r = IF asked.PermitRootLogin = None THEN s ELSE ReplaceDirective(s, "PermitRootLogin", asked.PermitRootLogin)
    OBVIOUS
  <1>2. t = IF asked.PasswordAuthentication = None THEN r
            ELSE ReplaceDirective(r, "PasswordAuthentication", asked.PasswordAuthentication)
    BY <1>1 DEF RewriteSSHDConfig
  <1>3. Lines(r)
    BY <1>1, ReplaceFacts
  <1>4. Lines(t)
    BY <1>2, <1>3, ReplaceFacts
  <1> QED
    BY <1>1, <1>2, <1>3, <1>4

LEMMA UpdateSSHDTree == TreeInv /\ UpdateSSHD => TreeInv'
  <1> SUFFICES ASSUME TreeInv, UpdateSSHD PROVE TreeInv'
    OBVIOUS
  <1>0. /\ Control /\ Control' /\ status = "running" /\ Act.kind = "user-manage" /\ pc = "sshd" /\ doc \in Documents
        /\ Accounts /\ TreeOK /\ tree' = tree /\ accounts' = accounts
    BY UserManageControl DEF TreeInv, UserManageNext, UpdateSSHD, At, Control
  <1>1. ScarsStay
    BY DEF UpdateSSHD, ScarsStay
  <1>2. \A i \in DOMAIN Principals : Served(i)
    BY <1>0 DEF TreeInv, InUserManage
  <1>3. Lines(sshd')
    <2>1. Lines(sshd)
      BY <1>0 DEF Accounts, UserManageTypeOK, Lines
    <2>2. sshd' = sshd => Lines(sshd')
      BY <2>1
    <2>3. sshd' = RewriteSSHDConfig(sshd, doc.sshd) => Lines(sshd')
      BY <2>1, RewriteFacts
    <2>4. sshd' = <<>> => Lines(sshd')
      BY DEF Lines
    <2> QED
      BY <2>2, <2>3, <2>4 DEF UpdateSSHD
  <1>4. doc' = doc /\ pc' = "begin" /\ Behind' \in {{}, Behind \cup {at}}
    <2>1. CASE ActionDone
      BY <1>0, <2>1, DoneBehind
    <2>2. CASE Fault
      BY <2>2, ExitBehind
    <2> QED
      BY <2>1, <2>2 DEF UpdateSSHD
  <1>5. Accounts'
    BY <1>0, <1>3, <1>4 DEF Accounts, UserManageTypeOK, Lines
  <1>6. Later /\ Whole /\ Richer /\ TreeOK'
    BY <1>0, <1>1, <1>4, QuietLater DEF TreeOK, IsDir
  <1>7. \A i \in DOMAIN Principals : Served(i)'
    BY <1>0, <1>2, <1>6, ServedStep DEF Served, HasPassword
  <1>8. Behind' # {} => Through("writefile")' = Through("writefile")
    <2>1. at \notin Planned("writefile")
      BY <1>0 DEF Planned, Act
    <2> QED
      BY <1>4, <2>1, DocFrame DEF Through
  <1> QED
    BY <1>0, <1>4, <1>5, <1>6, <1>7, <1>8, BeginPlaces, TreeStep

LEMMA UserManageTree == TreeInv /\ UserManageNext => TreeInv'
  BY BeginUserManageTree, EnsureUserTree, SetPasswordTree, WriteAuthorizedKeysTree, AddToGroupTree, UpdateSSHDTree
     DEF UserManageNext

\* The tree, the accounts and the control, step by step.
LEMMA TreeInvStep == TreeInv /\ [Next]_all => TreeInv'
  <1> SUFFICES ASSUME TreeInv, [Next]_all PROVE TreeInv'
    OBVIOUS
  <1>1. CASE UNCHANGED all
    <2>1. /\ doc' = doc /\ tree' = tree /\ UNCHANGED users /\ scars' = scars
          /\ UNCHANGED <<at, pc, n, status, runs, faults, disturbed>>
      BY <1>1 DEF all, control, users
    <2>2. Control' /\ InWriteFile' /\ InUserManage'
      <3>1. Act' = Act /\ Dest' = Dest /\ Principals' = Principals /\ accounts' = accounts
        BY <2>1, DocFrame DEF Act, Dest, OnRootOnly, users
      <3>2. Control'
        BY <1>1, ControlStep DEF TreeInv
      <3>3. InWriteFile'
        BY <2>1, <3>1 DEF TreeInv, InWriteFile, IsDir, IsFile
      <3>4. \A i : /\ Served(i)' = Served(i) /\ HasAccount(i)' = HasAccount(i)
                   /\ HasPassword(i)' = HasPassword(i) /\ HasKeys(i)' = HasKeys(i)
        BY <2>1, <3>1, DocFrame DEF Served, HasPassword, HasAccount, HasKeys, HasGroup, Uid
      <3>5. InUserManage'
        BY <2>1, <3>1, <3>4 DEF TreeInv, InUserManage
      <3> QED
        BY <3>2, <3>3, <3>5
    <2>3. Behind' = Behind /\ \A k : Planned(k)' = Planned(k)
      BY <2>1, DocFrame DEF Behind, Finished
    <2>4. Through("writefile")' = Through("writefile") /\ Through("user-manage")' = Through("user-manage")
      BY <2>3 DEF Through
    <2> QED
      BY <2>1, <2>2, <2>4, Elsewhere DEF ScarsStay
  <1> QED
    BY <1>1, WriteFileTree, UserManageTree, SerialConsoleTree, Grub2diskTree, KexecTree, StopTree DEF Next

LEMMA InitTreeInv == Init => TreeInv
  <1> SUFFICES ASSUME Init PROVE TreeInv
    OBVIOUS
  <1>0. /\ Control /\ doc \in Documents /\ pc = "begin" /\ status = "running" /\ at = 1
        /\ accounts = doc.image.accounts /\ sshd = doc.image.sshd
        /\ tree = [p \in DOMAIN doc.image.tree \cup MountPoints(doc) |->
                      IF p \in DOMAIN doc.image.tree THEN doc.image.tree[p] ELSE Dir(0)]
    BY InitControl DEF Init, TargetInit, UserManageInit
  <1>1. DOMAIN tree = Given /\ tree = [p \in DOMAIN tree |-> tree[p]]
    BY <1>0 DEF Given
  <1>2. /\ \A p \in DOMAIN doc.image.tree : tree[p] = doc.image.tree[p]
        /\ \A p \in MountPoints(doc) : p \in DOMAIN doc.image.tree \/ tree[p] = Dir(0)
    BY <1>0
  <1>3. \A p \in MountPoints(doc) : p \notin DOMAIN doc.image.tree /\ p \in Paths /\ Above(p) \subseteq MountPoints(doc)
    <2>1. "shadowed" \in Name /\ doc.siblings \subseteq Name
      BY <1>0, PlanAssumption DEF Name
    <2>2. ASSUME NEW p \in MountPoints(doc)
          PROVE  p \in Paths /\ p # <<>> /\ p[1] = "shadowed" /\ Above(p) \subseteq MountPoints(doc)
      <3>1. <<"shadowed">> \in Paths /\ Len(<<"shadowed">>) = 1 /\ Above(<<"shadowed">>) = {}
        <4>1. <<"shadowed">> \in Paths
          BY <2>1, Short1
        <4>2. Len(<<"shadowed">>) = 1 /\ 1..(Len(<<"shadowed">>) - 1) = {}
          OBVIOUS
        <4> QED
          BY <4>1, <4>2 DEF Above
      <3>2. CASE p = <<"shadowed">>
        BY <3>1, <3>2
      <3>3. ASSUME NEW s \in doc.siblings, p = <<"shadowed", s>>
            PROVE  p \in Paths /\ p # <<>> /\ p[1] = "shadowed" /\ Above(p) \subseteq MountPoints(doc)
        <4>1. p \in Paths /\ p = Append(<<"shadowed">>, s)
          BY <2>1, <3>3, Short1
        <4>2. Above(p) = {<<"shadowed">>}
          <5>1. Above(Append(<<"shadowed">>, s)) = UpTo(<<"shadowed">>)
            <6>1. s \in Name /\ Len(<<"shadowed">>) > 0 /\ <<"shadowed">> \in Paths
              BY <2>1, <3>1
            <6> QED
              BY <6>1, AboveAppend
          <5> QED
            BY <3>1, <4>1, <5>1 DEF UpTo
        <4>3. <<"shadowed">> \in MountPoints(doc)
          BY <3>3 DEF MountPoints
        <4> QED
          BY <3>3, <4>1, <4>2, <4>3
      <3> QED
        BY <3>2, <3>3 DEF MountPoints
    <2> QED
      BY <1>0, <2>2, ImageAssumption
  <1>4. Kept
    <2>1. \A p \in MountPoints(doc) : tree[p].kind = "dir"
      BY <1>2, <1>3 DEF Dir
    <2> QED
      BY <1>1, <1>2, <2>1 DEF Kept
  <1>5. TreeOK
    <2>1. ASSUME NEW p \in DOMAIN tree
          PROVE  p \in Paths /\ tree[p] \in [kind : {"dir", "file", "torn"}, owner : Nat] /\ \A q \in Above(p) : IsDir(q)
      <3>1. CASE p \in DOMAIN doc.image.tree
        <4>1. /\ p \in Paths /\ doc.image.tree[p] \in [kind : {"dir", "file"}, owner : Nat]
              /\ \A q \in Above(p) : q \in DOMAIN doc.image.tree /\ doc.image.tree[q].kind = "dir"
          BY <1>0, <3>1, ImageAssumption DEF Paths
        <4> QED
          BY <1>1, <1>2, <3>1, <4>1 DEF Given, IsDir
      <3>2. CASE p \in MountPoints(doc)
        <4>1. tree[p] = Dir(0)
          BY <1>2, <1>3, <3>2
        <4>2. \A q \in Above(p) : IsDir(q)
          BY <1>1, <1>2, <1>3, <3>2 DEF Given, IsDir, Dir
        <4> QED
          BY <1>3, <3>2, <4>1, <4>2 DEF Dir
      <3> QED
        BY <1>1, <3>1, <3>2 DEF Given
    <2> QED
      BY <1>1, <2>1 DEF TreeOK, Paths
  <1>6. Accounts
    <2>1. /\ accounts \in [DOMAIN accounts -> [uid : Nat, pw : BOOLEAN, sudo : BOOLEAN]]
          /\ IsFiniteSet(DOMAIN accounts) /\ DOMAIN accounts \subseteq Name
          /\ sshd \in Seq({sshd[i] : i \in DOMAIN sshd})
          /\ \A i \in DOMAIN sshd : sshd[i].off \in BOOLEAN /\ sshd[i].odd \in BOOLEAN
      <3>1. LET im == doc.image
            IN /\ im.accounts \in [DOMAIN im.accounts -> [uid : Nat, pw : BOOLEAN, sudo : BOOLEAN]]
               /\ IsFiniteSet(DOMAIN im.accounts) /\ DOMAIN im.accounts \subseteq Name
               /\ im.sshd \in Seq({im.sshd[i] : i \in DOMAIN im.sshd})
               /\ \A i \in DOMAIN im.sshd : im.sshd[i].off \in BOOLEAN /\ im.sshd[i].odd \in BOOLEAN
        <4>1. doc \in Documents
          BY <1>0
        <4> QED
          BY <4>1, UsersAssumption
      <3> QED
        BY <1>0, <3>1
    <2> QED
      BY <1>0, <2>1 DEF Accounts, UserManageTypeOK
  <1>7. Homes
    <2>1. ASSUME NEW u \in DOMAIN accounts
          PROVE  HomeState(u)
      BY <1>0, <1>1, <1>2 DEF HomeState, ImageFit, Uid, Given
    <2> QED
      BY <2>1 DEF Homes
  <1>8. Origin /\ Dirs
    BY <1>1 DEF Origin, Dirs
  <1>9. Files /\ Users
    BY <1>0 DEF Files, Users, Through, Behind, Finished
  <1>10. InWriteFile /\ InUserManage
    BY <1>0 DEF InWriteFile, InUserManage
  <1> QED
    BY <1>0, <1>4, <1>5, <1>6, <1>7, <1>8, <1>9, <1>10 DEF TreeInv

\* The inductive invariant of the files and the accounts.
THEOREM TreeInvariance == Spec => []TreeInv
  BY InitTreeInv, TreeInvStep, PTL DEF Spec

-----------------------------------------------------------------------------
(* What a finished workflow has left.                                      *)

LEMMA FinishedThrough ==
    ASSUME Finished
    PROVE  \A k : Through(k) = Planned(k)
  BY DEF Through, Behind, Planned

\* AccountsAsAsked: a finished user-manage has made every account with its
\* password, keys and group, on whatever earlier runs left behind.
LEMMA TreeInvServes == TreeInv => AccountsAsAsked
  <1> SUFFICES ASSUME TreeInv, Finished, Planned("user-manage") # {}, NEW i \in DOMAIN Principals
               PROVE  LET p == Principals[i] u == p.name
                      IN /\ u \in DOMAIN accounts
                         /\ p.pw => accounts[u].pw
                         /\ p.sudo => accounts[u].sudo
                         /\ p.keys => /\ tree[SSHDir(u)] = Dir(Uid(u))
                                      /\ tree[KeysFile(u)].kind = "file"
                                      /\ tree[KeysFile(u)].owner = Uid(u) \/ \E a \in Wrote : a.path = KeysFile(u)
    BY DEF AccountsAsAsked
  <1>0. doc \in Documents
    BY DEF TreeInv, Control
  <1>1. Served(i)
    BY FinishedThrough DEF TreeInv, Users
  <1>2. PICK u : u = Principals[i].name
    OBVIOUS
  <1>3. u \in Name /\ KeysFile(u)[1] # "shadowed"
    BY <1>0, <1>2, NameFacts, UserPaths
  <1>4. ASSUME NEW j \in Planned("writefile"), WrittenAt(j) = KeysFile(u)
        PROVE  \E a \in Wrote : a.path = KeysFile(u)
    <2>1. doc.plan[j].path = KeysFile(u)
      BY <1>0, <1>3, <1>4, WrittenFacts
    <2> QED
      BY <2>1 DEF Wrote
  <1> QED
    BY <1>1, <1>2, <1>4 DEF Served, HasPassword, HasAccount, HasKeys, HasGroup

\* For every document and every history of faults, kills and reruns: after a finished
\* workflow every principal has the account, the password and the group that
\* user-manage was asked for, and its keys lie with it (users.go).
THEOREM AccountsMade == Spec => []AccountsAsAsked
  BY TreeInvariance, TreeInvServes, PTL

\* HomesOwned: after user-manage the home of a user with keys is the user's own,
\* unless the image, a fault in useradd or a file of the plan made it otherwise.
LEMMA TreeInvHouses == TreeInv => HomesOwned
  <1> SUFFICES ASSUME TreeInv, Finished, Planned("user-manage") # {}, NEW i \in DOMAIN Principals, NEW u, u = Principals[i].name,
                      Principals[i].keys
               PROVE  \/ HomeOwned(u)
                      \/ \E a \in Wrote : OnRootOnly(a.path) = a.path /\ Home(u) \in Above(a.path)
    BY DEF HomesOwned
  <1>0. doc \in Documents /\ TreeOK
    BY DEF TreeInv, Control
  <1>1. Served(i) /\ u \in Name
    BY <1>0, FinishedThrough, NameFacts DEF TreeInv, Users
  <1>2. u \in DOMAIN accounts /\ SSHDir(u) \in DOMAIN tree
    BY <1>1 DEF Served, HasPassword, HasAccount, HasKeys
  <1>3. HomeState(u)
    BY <1>2 DEF TreeInv, Homes
  <1>4. ASSUME Home(u) \in DOMAIN tree, NEW j \in Planned("writefile"), Home(u) \in UpTo(WrittenAt(j))
        PROVE  \E a \in Wrote : OnRootOnly(a.path) = a.path /\ Home(u) \in Above(a.path)
    <2>1. tree[Home(u)].kind = "dir"
      BY <1>0, <1>1, <1>2, AboveUserPaths DEF TreeOK, IsDir
    <2>2. Home(u) \in Paths /\ Home(u)[1] # "shadowed" /\ Len(Home(u)) > 0
      <3>1. Home(u) \in Paths /\ (Home(u) = <<"root">> \/ Home(u) = <<"home", u>>)
        BY <1>1, UserPaths
      <3>2. CASE Home(u) = <<"root">>
        <4>1. <<"root">>[1] = "root" /\ Len(<<"root">>) = 1 /\ "root" # "shadowed"
          OBVIOUS
        <4> QED
          BY <3>1, <3>2, <4>1
      <3>3. CASE Home(u) = <<"home", u>>
        <4>1. <<"home", u>>[1] = "home" /\ Len(<<"home", u>>) = 2 /\ "home" # "shadowed"
          OBVIOUS
        <4> QED
          BY <3>1, <3>3, <4>1
      <3> QED
        BY <3>1, <3>2, <3>3
    <2>3. WrittenAt(j) \in Paths /\ Len(WrittenAt(j)) > 0 /\ (WrittenAt(j) = doc.plan[j].path \/ WrittenAt(j)[1] = "shadowed")
      BY <1>0, <1>4, WrittenFacts
    <2>4. Home(u)[1] = WrittenAt(j)[1]
      <3>1. Len(Home(u)) \in 1..Len(WrittenAt(j)) /\ \A k \in 1..Len(Home(u)) : Home(u)[k] = WrittenAt(j)[k]
        BY <1>4, <2>2, <2>3, UpToIff
      <3>2. 1 \in 1..Len(Home(u))
        BY <3>1
      <3> QED
        BY <3>1, <3>2
    <2>5. WrittenAt(j) = doc.plan[j].path
      BY <2>2, <2>3, <2>4
    <2>6. Home(u) # WrittenAt(j)
      <3>1. CASE j \in Through("writefile")
        BY <1>4, <2>1, <3>1 DEF TreeInv, Files, FileDone
      <3> QED
        BY <3>1, FinishedThrough
    <2>7. doc.plan[j] \in Wrote /\ OnRootOnly(doc.plan[j].path) = doc.plan[j].path /\ Home(u) \in Above(doc.plan[j].path)
      BY <1>4, <2>5, <2>6 DEF Wrote, WrittenAt, UpTo
    <2> QED
      BY <2>7
  <1> QED
    BY <1>3, <1>4 DEF HomeState, HomeOwned

\* For every document and history: homes belong to their users, unless useradd was
\* stopped before the home or something made it first (users.go:79, :106).
THEOREM HomesAreOwned == Spec => []HomesOwned
  BY TreeInvariance, TreeInvHouses, PTL

\* FilesAsAsked: at the end every file of the plan is whole and its owner's, and
\* so is every directory made for it.
LEMMA TreeInvWrites == TreeInv => FilesAsAsked
  <1> SUFFICES ASSUME TreeInv, Finished, NEW i \in Planned("writefile"), NEW p, p = doc.plan[i].path,
                      OnRootOnly(p) = p,
                      \A j \in Planned("writefile") : j > i => doc.plan[j].path # p
               PROVE  /\ tree[p].kind = "file"
                      /\ tree[p].owner = doc.plan[i].uid \/ HandedOver(p)
                      /\ \A d \in Above(p) \ DOMAIN doc.image.tree :
                            \/ <<"chown", d>> \in scars
                            \/ \E b \in Wrote : d \in Above(b.path) /\ tree[d] = Dir(b.uid)
                            \/ \E u \in DOMAIN accounts : d = Home(u) /\ HomeOwned(u)
                            \/ IsDir(d) /\ HandedOver(d)
    BY DEF FilesAsAsked
  <1>0. doc \in Documents /\ TreeOK /\ \A k : Through(k) = Planned(k)
    BY FinishedThrough DEF TreeInv, Control
  <1>1. p = WrittenAt(i) /\ p \in Paths /\ p[1] # "shadowed"
    BY <1>0, WrittenFacts DEF WrittenAt
  <1>2. FileDone(i)
    BY <1>0 DEF TreeInv, Files
  <1>3. p \in DOMAIN tree /\ tree[p].kind = "file"
    BY <1>1, <1>2 DEF FileDone
  <1>4. tree[p].owner = doc.plan[i].uid \/ HandedOver(p)
    <2>1. ASSUME NEW j \in Planned("writefile"), j >= i, WrittenAt(j) = p, tree[p].owner = doc.plan[j].uid
          PROVE  tree[p].owner = doc.plan[i].uid
      <3>1. doc.plan[j].path = p
        BY <1>0, <1>1, <2>1, WrittenFacts
      <3>2. i \in Nat /\ j \in Nat /\ ~(j > i)
        BY <1>0, <3>1, PlanFacts DEF Planned
      <3>3. j = i
        BY <2>1, <3>2
      <3> QED
        BY <2>1, <3>3
    <2> QED
      BY <1>0, <1>1, <1>2, <2>1 DEF FileDone
  <1>5. ASSUME NEW d \in Above(p), d \notin DOMAIN doc.image.tree
        PROVE  \/ <<"chown", d>> \in scars
               \/ \E b \in Wrote : d \in Above(b.path) /\ tree[d] = Dir(b.uid)
               \/ \E u \in DOMAIN accounts : d = Home(u) /\ HomeOwned(u)
               \/ IsDir(d) /\ HandedOver(d)
    <2>1. IsDir(d)
      BY <1>0, <1>3 DEF TreeOK
    <2>2. d \in Paths /\ Len(d) \in 1..(Len(p) - 1) /\ \A k \in 1..Len(d) : d[k] = p[k]
      BY <1>1, AbovePaths, AboveIff
    <2>3. d[1] # "shadowed"
      <3>1. 1 \in 1..Len(d)
        BY <2>2
      <3> QED
        BY <1>1, <2>2, <3>1
    <2>4. d \notin Given
      BY <1>5, <2>3 DEF Given, MountPoints
    <2>5. DirFine(d)
      BY <2>1, <2>4 DEF TreeInv, Dirs, IsDir
    <2>6. ASSUME NEW j \in Planned("writefile"), d \in Above(WrittenAt(j)), tree[d] = Dir(doc.plan[j].uid)
          PROVE  \E b \in Wrote : d \in Above(b.path) /\ tree[d] = Dir(b.uid)
      <3>1. WrittenAt(j) \in Paths /\ (WrittenAt(j) = doc.plan[j].path \/ WrittenAt(j)[1] = "shadowed")
        BY <1>0, WrittenFacts
      <3>2. WrittenAt(j)[1] = d[1]
        <4>1. 1 \in 1..Len(d) /\ \A k \in 1..Len(d) : d[k] = WrittenAt(j)[k]
          BY <2>2, <2>6, <3>1, AboveIff
        <4> QED
          BY <4>1
      <3>3. WrittenAt(j) = doc.plan[j].path
        BY <2>3, <3>1, <3>2
      <3> QED
        BY <2>6, <3>3 DEF Wrote
    <2>7. ASSUME Planned("user-manage") # {}, NEW k \in DOMAIN Principals, Principals[k].keys, d = SSHDir(Principals[k].name)
          PROVE  HandedOver(d)
      <3>1. Served(k)
        BY <1>0, <2>7 DEF TreeInv, Users
      <3>2. Principals[k].name \in DOMAIN accounts /\ tree[d].owner = Uid(Principals[k].name)
        BY <2>7, <3>1 DEF Served, HasPassword, HasAccount, HasKeys, Dir
      <3>3. d \in UpTo(d)
        BY DEF UpTo
      <3> QED
        BY <2>7, <3>2, <3>3 DEF HandedOver
    <2> QED
      BY <2>1, <2>5, <2>6, <2>7 DEF DirFine
  <1> QED
    BY <1>3, <1>4, <1>5

\* For every document and history: a finished workflow has written every file of
\* writefile with its contents and owner, below the directories asked for
\* (writefile/main.go), up to the leftovers of a kill that the property names.
THEOREM FilesWritten == Spec => []FilesAsAsked
  BY TreeInvariance, TreeInvWrites, PTL

-----------------------------------------------------------------------------
(* Any step.                                                               *)

\* Every step of an action is one of the control.
LEMMA MoveKind ==
    ASSUME [Next]_all
    PROVE  (status = "running" /\ Move) \/ Stop \/ Rerun \/ UNCHANGED all
  <1>1. WriteFileNext => status = "running" /\ Move
    BY DEF WriteFileNext, BeginWriteFile, EnsureDir, DirsEnsured, WriteContents, At, Move
  <1>2. UserManageNext => status = "running" /\ Move
    BY DEF UserManageNext, BeginUserManage, EnsureUser, SetPassword, WriteAuthorizedKeys, AddToGroup, UpdateSSHD, At, Move
  <1>3. SerialConsoleNext => status = "running" /\ Move
    BY DEF SerialConsoleNext, BeginSerialConsole, RewriteDefaults, RunMkConfig, MkConfig, At, Move
  <1>4. Grub2diskNext => status = "running" /\ Move
    BY DEF Grub2diskNext, BeginGrub2disk, DoBIOS, GrubInstall, UpdateGrub, MkConfig, CopyFallback, CopyGrub,
           RegisterNVRAM, At, Move
  <1>5. KexecNext => status = "running" /\ Move
    BY DEF KexecNext, BeginKexec, LoadAndReboot, At, Move
  <1> QED
    BY <1>1, <1>2, <1>3, <1>4, <1>5 DEF Next

\* Nothing but the action at `at' gets behind.
LEMMA BehindStep ==
    ASSUME Control, [Next]_all
    PROVE  /\ doc' = doc
           /\ Behind' \subseteq Behind \/ (status = "running" /\ Behind' = Behind \cup {at})
  <1>1. CASE UNCHANGED all
    BY <1>1 DEF all, control, Behind, Finished
  <1>2. CASE status = "running" /\ Move
    BY <1>2, MoveBehind
  <1>3. CASE Rerun
    BY <1>3 DEF Rerun, Control, Behind, Finished
  <1>4. CASE Stop
    BY <1>4, ExitBehind DEF Stop
  <1> QED
    BY <1>1, <1>2, <1>3, <1>4, MoveKind

LEMMA ThroughStep ==
    ASSUME Control, [Next]_all, NEW k
    PROVE  \/ Through(k)' \subseteq Through(k)
           \/ status = "running" /\ Act.kind = k /\ Through(k)' = Through(k) \cup {at}
  <1>1. Planned(k)' = Planned(k)
    BY BehindStep, DocFrame
  <1>2. at \in Planned(k) <=> Act.kind = k
    BY DEF Control, Planned, Act
  <1> QED
    BY <1>1, <1>2, BehindStep DEF Through

\* The action that runs is the only one whose calls come.
LEMMA StepKind ==
    ASSUME [Next]_all
    PROVE  \/ WriteFileNext /\ UNCHANGED <<users, grub, loader, booted>> /\ status = "running" /\ Act.kind = "writefile"
           \/ UserManageNext /\ UNCHANGED <<grub, loader, booted>> /\ status = "running" /\ Act.kind = "user-manage"
           \/ SerialConsoleNext /\ UNCHANGED <<users, loader, booted>> /\ status = "running" /\ Act.kind = "serial-console"
           \/ Grub2diskNext /\ UNCHANGED <<users, booted>> /\ status = "running" /\ Act.kind = "grub2disk"
           \/ KexecNext /\ UNCHANGED <<users, loader>> /\ status = "running" /\ Act.kind = "kexec" /\ UNCHANGED grub
           \/ (Stop \/ Rerun \/ UNCHANGED all) /\ UNCHANGED <<users, grub, loader, booted, scars>>
  <1>1. WriteFileNext => status = "running" /\ Act.kind = "writefile"
    BY DEF WriteFileNext, BeginWriteFile, EnsureDir, DirsEnsured, WriteContents, At
  <1>2. UserManageNext => status = "running" /\ Act.kind = "user-manage"
    BY DEF UserManageNext, BeginUserManage, EnsureUser, SetPassword, WriteAuthorizedKeys, AddToGroup, UpdateSSHD, At
  <1>3. SerialConsoleNext => status = "running" /\ Act.kind = "serial-console"
    BY DEF SerialConsoleNext, BeginSerialConsole, RewriteDefaults, RunMkConfig, At
  <1>4. Grub2diskNext => status = "running" /\ Act.kind = "grub2disk"
    BY DEF Grub2diskNext, BeginGrub2disk, DoBIOS, GrubInstall, UpdateGrub, CopyFallback, CopyGrub,
           RegisterNVRAM, At
  <1>5. KexecNext => status = "running" /\ Act.kind = "kexec" /\ UNCHANGED grub
    BY DEF KexecNext, BeginKexec, LoadAndReboot, At
  <1>6. Stop \/ Rerun => UNCHANGED scars
    BY DEF Stop, Rerun
  <1> QED
    BY <1>1, <1>2, <1>3, <1>4, <1>5, <1>6 DEF Next, all

\* The traces that each action leaves.
LEMMA ScarsOfWriteFile ==
    ASSUME WriteFileNext
    PROVE  \A k, x : k # "chown" => (<<k, x>> \in scars' <=> <<k, x>> \in scars)
  BY DEF WriteFileNext, BeginWriteFile, EnsureDir, DirsEnsured, WriteContents

LEMMA ScarsOfUserManage ==
    ASSUME UserManageNext
    PROVE  /\ \A k, x : k \notin {"useradd", "sshd"} => (<<k, x>> \in scars' <=> <<k, x>> \in scars)
           /\ \/ \A x : <<"sshd", x>> \in scars' <=> <<"sshd", x>> \in scars
              \/ UpdateSSHD
  <1>1. BeginUserManage \/ SetPassword \/ WriteAuthorizedKeys \/ AddToGroup => scars' = scars
    BY DEF BeginUserManage, SetPassword, WriteAuthorizedKeys, AddToGroup
  <1>2. EnsureUser => scars' = scars \/ \E u : scars' = scars \cup {<<"useradd", u>>}
    BY DEF EnsureUser
  <1>3. UpdateSSHD => scars' = scars \/ scars' = scars \cup {<<"sshd", "sshd">>}
    BY DEF UpdateSSHD
  <1>4. UpdateSSHD \/ scars' = scars \/ \E u : scars' = scars \cup {<<"useradd", u>>}
    BY <1>1, <1>2 DEF UserManageNext
  <1>5. ASSUME NEW k, NEW x, k \notin {"useradd", "sshd"}
        PROVE  <<k, x>> \in scars' <=> <<k, x>> \in scars
    BY <1>3, <1>4, <1>5
  <1>6. ASSUME NEW x, ~UpdateSSHD
        PROVE  <<"sshd", x>> \in scars' <=> <<"sshd", x>> \in scars
    BY <1>4, <1>6
  <1> QED
    BY <1>5, <1>6

LEMMA ScarsOfSerialConsole ==
    ASSUME SerialConsoleNext
    PROVE  \A k, x : k # "defaults" => (<<k, x>> \in scars' <=> <<k, x>> \in scars)
  <1>1. scars' = scars \/ scars' = scars \cup {<<"defaults", "defaults">>}
    BY DEF SerialConsoleNext, BeginSerialConsole, RewriteDefaults, RunMkConfig
  <1> QED
    BY <1>1

LEMMA ScarsOfGrub2disk ==
    ASSUME Grub2diskNext
    PROVE  \A k, x : k \notin {"siblings", "beside"} => (<<k, x>> \in scars' <=> <<k, x>> \in scars)
  BY DEF Grub2diskNext, BeginGrub2disk, DoBIOS, GrubInstall, UpdateGrub, CopyFallback, CopyGrub, RegisterNVRAM

LEMMA ScarsOfKexec ==
    ASSUME KexecNext
    PROVE  scars' = scars
  BY DEF KexecNext, BeginKexec, LoadAndReboot

-----------------------------------------------------------------------------
(* sshd_config.                                                            *)

Directives == {"PermitRootLogin", "PasswordAuthentication"}
AsksFor(d) == doc.sshd # None /\ d \in Directives /\ doc.sshd[d] # None
AskedLine(l) == \E d \in Directives : AsksFor(d) /\ l = Line(d, doc.sshd[d])
SSHDLost == <<"sshd", "sshd">> \in scars

\* The lines of the image are there, as they were or with a directive in force,
\* and what came behind them was asked for; after a fault nothing else is left.
Grown(f) ==
    LET s == doc.image.sshd
    IN /\ Lines(f)
       /\ SSHDLost => \A i \in DOMAIN f : AskedLine(f[i])
       /\ ~SSHDLost =>
             /\ DOMAIN s \subseteq DOMAIN f
             /\ \A i \in DOMAIN f :
                   IF i \in DOMAIN s
                   THEN f[i] = s[i] \/ \E d \in Directives : AsksFor(d) /\ Matches(s[i], d) /\ f[i] = Line(d, doc.sshd[d])
                   ELSE AskedLine(f[i])

\* Every line that the rewrite knows says v, and there is one.
Says(f, d, v) == /\ \E i \in DOMAIN f : Matches(f[i], d)
                 /\ \A i \in DOMAIN f : Matches(f[i], d) => f[i] = Line(d, v)

SSHDSaid(f) == \A d \in Directives : AsksFor(d) => Says(f, d, doc.sshd[d])
SSHDInv == Grown(sshd) /\ (Through("user-manage") # {} => SSHDSaid(sshd))

LEMMA ReplaceGrows ==
    ASSUME doc \in Documents, NEW f, Grown(f), NEW d \in Directives, AsksFor(d),
           NEW r, r = ReplaceDirective(f, d, doc.sshd[d])
    PROVE  /\ Grown(r) /\ Says(r, d, doc.sshd[d])
           /\ \A e, v : e # d /\ Says(f, e, v) => Says(r, e, v)
  <1> DEFINE s == doc.image.sshd
             l == Line(d, doc.sshd[d])
  <1>1. Lines(f) /\ Len(f) \in Nat /\ DOMAIN f = 1..Len(f)
    BY LinesFacts DEF Grown
  <1>2. /\ Lines(r)
        /\ \A i \in DOMAIN f : i \in DOMAIN r /\ r[i] = IF Matches(f[i], d) THEN l ELSE f[i]
        /\ \/ DOMAIN r = DOMAIN f /\ \E i \in DOMAIN f : Matches(f[i], d)
           \/ /\ \A i \in DOMAIN f : ~Matches(f[i], d)
              /\ Len(r) = Len(f) + 1 /\ r[Len(f) + 1] = l
    BY <1>1, ReplaceFacts
  <1>3. Len(r) \in Nat /\ DOMAIN r = 1..Len(r)
    BY <1>2, LinesFacts
  <1>4. ASSUME NEW i \in DOMAIN r
        PROVE  \/ i \in DOMAIN f
               \/ i = Len(f) + 1 /\ r[i] = l /\ \A j \in DOMAIN f : ~Matches(f[j], d)
    BY <1>1, <1>2, <1>3
  <1>5. Matches(l, d) /\ l.dir = d /\ AskedLine(l)
    BY DEF Line, Matches, AskedLine
  <1> HIDE DEF l
  <1>6. Grown(r)
    <2>1. CASE SSHDLost
      <3>1. \A i \in DOMAIN r : AskedLine(r[i])
        BY <1>2, <1>4, <1>5, <2>1 DEF Grown
      <3> QED
        BY <1>2, <2>1, <3>1 DEF Grown
    <2>2. CASE ~SSHDLost
      <3>1. DOMAIN s \subseteq DOMAIN r
        BY <1>2, <2>2 DEF Grown
      <3>2. ASSUME NEW i \in DOMAIN r, i \in DOMAIN s
            PROVE  r[i] = s[i] \/ \E e \in Directives : AsksFor(e) /\ Matches(s[i], e) /\ r[i] = Line(e, doc.sshd[e])
        <4>1. i \in DOMAIN f /\ (f[i] = s[i] \/ \E e \in Directives : AsksFor(e) /\ Matches(s[i], e) /\ f[i] = Line(e, doc.sshd[e]))
          BY <2>2, <3>2 DEF Grown
        <4>2. CASE ~Matches(f[i], d)
          BY <1>2, <4>1, <4>2
        <4>3. CASE Matches(f[i], d)
          <5>1. r[i] = Line(d, doc.sshd[d])
            BY <1>2, <4>1, <4>3 DEF l
          <5>2. Matches(s[i], d)
            <6>1. ASSUME NEW e \in Directives, Matches(s[i], e), f[i] = Line(e, doc.sshd[e])
                  PROVE  Matches(s[i], d)
              BY <4>3, <6>1 DEF Matches, Line
            <6> QED
              BY <4>1, <4>3, <6>1
          <5> QED
            BY <5>1, <5>2
        <4> QED
          BY <4>2, <4>3
      <3>3. ASSUME NEW i \in DOMAIN r, i \notin DOMAIN s
            PROVE  AskedLine(r[i])
        BY <1>2, <1>4, <1>5, <2>2, <3>3 DEF Grown
      <3> QED
        BY <1>2, <2>2, <3>1, <3>2, <3>3 DEF Grown
    <2> QED
      BY <2>1, <2>2
  <1>7. Says(r, d, doc.sshd[d])
    <2>1. \A i \in DOMAIN r : Matches(r[i], d) => r[i] = l
      BY <1>2, <1>4
    <2>2. \E i \in DOMAIN r : Matches(r[i], d)
      <3>1. CASE \E i \in DOMAIN f : Matches(f[i], d)
        BY <1>2, <1>5, <3>1
      <3>2. CASE \A i \in DOMAIN f : ~Matches(f[i], d)
        <4>1. Len(f) + 1 \in DOMAIN r /\ r[Len(f) + 1] = l
          BY <1>1, <1>2, <1>3, <3>2
        <4> QED
          BY <1>5, <4>1
      <3> QED
        BY <3>1, <3>2
    <2> QED
      BY <2>1, <2>2 DEF Says, l
  <1>8. ASSUME NEW e, NEW v, e # d, Says(f, e, v)
        PROVE  Says(r, e, v)
    <2>1. ~Matches(l, e)
      BY <1>5, <1>8 DEF Matches
    <2>2. \A i \in DOMAIN f : Matches(f[i], e) => ~Matches(f[i], d)
      BY <1>8 DEF Matches
    <2>3. \E i \in DOMAIN r : Matches(r[i], e)
      BY <1>2, <1>8, <2>2 DEF Says
    <2>4. \A i \in DOMAIN r : Matches(r[i], e) => r[i] = Line(e, v)
      BY <1>2, <1>4, <1>8, <2>1 DEF Says
    <2> QED
      BY <2>3, <2>4 DEF Says
  <1> QED
    BY <1>6, <1>7, <1>8

LEMMA RewriteGrows ==
    ASSUME doc \in Documents, doc.sshd # None, Grown(sshd), NEW t, t = RewriteSSHDConfig(sshd, doc.sshd)
    PROVE  Grown(t) /\ SSHDSaid(t)
  <1> DEFINE P == "PermitRootLogin"
             A == "PasswordAuthentication"
  <1>1. PICK r : /\ r = (IF doc.sshd.PermitRootLogin = None THEN sshd ELSE ReplaceDirective(sshd, P, doc.sshd.PermitRootLogin))
                 /\ t = (IF doc.sshd.PasswordAuthentication = None THEN r ELSE ReplaceDirective(r, A, doc.sshd.PasswordAuthentication))
    BY RewriteFacts DEF Grown
  <1>2. /\ P \in Directives /\ A \in Directives /\ P # A /\ Directives = {P, A}
        /\ AsksFor(P) <=> doc.sshd.PermitRootLogin # None
        /\ AsksFor(A) <=> doc.sshd.PasswordAuthentication # None
    BY DEF Directives, AsksFor
  <1>3. Grown(r) /\ (AsksFor(P) => Says(r, P, doc.sshd[P]))
    BY <1>1, <1>2, ReplaceGrows
  <1>4. Grown(t) /\ (AsksFor(A) => Says(t, A, doc.sshd[A])) /\ (AsksFor(P) => Says(t, P, doc.sshd[P]))
    BY <1>1, <1>2, <1>3, ReplaceGrows
  <1> QED
    BY <1>2, <1>4 DEF SSHDSaid

LEMMA SSHDStep == Control /\ SSHDInv /\ [Next]_all => SSHDInv'
  <1> SUFFICES ASSUME Control, SSHDInv, [Next]_all PROVE SSHDInv'
    OBVIOUS
  <1>0. doc \in Documents /\ doc' = doc
    BY BehindStep DEF Control
  <1>1. CASE UpdateSSHD
    <2>0. status = "running"
      BY <1>1 DEF UpdateSSHD, At
    <2>1. CASE doc.sshd = None /\ ActionDone /\ UNCHANGED <<scars, sshd>>
      <3>1. Grown(sshd)'
        BY <1>0, <2>1 DEF SSHDInv, Grown, AskedLine, AsksFor, SSHDLost
      <3>2. SSHDSaid(sshd)'
        BY <1>0, <2>1 DEF SSHDSaid, AsksFor
      <3> QED
        BY <3>1, <3>2 DEF SSHDInv
    <2>2. CASE doc.sshd # None /\ sshd' = RewriteSSHDConfig(sshd, doc.sshd) /\ ActionDone /\ UNCHANGED scars
      <3>1. PICK t : t = sshd'
        OBVIOUS
      <3>2. Grown(t) /\ SSHDSaid(t)
        BY <1>0, <2>2, <3>1, RewriteGrows DEF SSHDInv
      <3>3. Grown(sshd)'
        BY <1>0, <2>2, <3>1, <3>2 DEF Grown, AskedLine, AsksFor, SSHDLost
      <3>4. SSHDSaid(sshd)'
        BY <1>0, <3>1, <3>2 DEF SSHDSaid, AsksFor, Says
      <3> QED
        BY <3>3, <3>4 DEF SSHDInv
    <2>3. CASE doc.sshd # None /\ sshd' = <<>> /\ scars' = scars \cup {<<"sshd", "sshd">>} /\ Fault
      <3>1. Through("user-manage")' = {}
        BY <2>3, ExitBehind DEF Through
      <3>2. SSHDLost' /\ Lines(sshd') /\ DOMAIN sshd' = {}
        BY <2>3 DEF SSHDLost, Lines
      <3>3. Grown(sshd)'
        BY <3>2 DEF Grown
      <3> QED
        BY <3>1, <3>3 DEF SSHDInv
    <2> QED
      BY <1>1, <2>1, <2>2, <2>3 DEF UpdateSSHD
  <1>2. CASE sshd' = sshd /\ (SSHDLost' <=> SSHDLost) /\ Through("user-manage")' \subseteq Through("user-manage")
    <2>1. Grown(sshd)'
      <3>1. \A l : AskedLine(l)' <=> AskedLine(l)
        BY <1>0 DEF AskedLine, AsksFor
      <3>2. \A d : AsksFor(d)' <=> AsksFor(d)
        BY <1>0 DEF AsksFor
      <3> QED
        BY <1>0, <1>2, <3>1, <3>2 DEF SSHDInv, Grown
    <2>2. SSHDSaid(sshd) => SSHDSaid(sshd)'
      BY <1>0, <1>2 DEF SSHDSaid, AsksFor, Says
    <2> QED
      BY <1>2, <2>1, <2>2 DEF SSHDInv
  <1>3. CASE UserManageNext /\ ~UpdateSSHD /\ Act.kind = "user-manage" /\ status = "running"
    <2>1. sshd' = sshd
      BY <1>3 DEF UserManageNext, BeginUserManage, EnsureUser, SetPassword, WriteAuthorizedKeys, AddToGroup, users
    <2>2. SSHDLost' <=> SSHDLost
      BY <1>3, ScarsOfUserManage DEF SSHDLost
    <2>3. (\E p, i : Go(p, i)) \/ Refuse \/ Fault
      BY <1>3 DEF UserManageNext, BeginUserManage, EnsureUser, SetPassword, WriteAuthorizedKeys, AddToGroup
    <2>4. Behind' \subseteq Behind
      BY <2>3, GoBehind, ExitBehind
    <2>5. Through("user-manage")' \subseteq Through("user-manage")
      BY <1>0, <2>4, DocFrame DEF Through
    <2> QED
      BY <1>2, <2>1, <2>2, <2>5
  <1>4. CASE UNCHANGED users /\ (Act.kind # "user-manage" \/ Stop \/ Rerun \/ UNCHANGED all) /\ (SSHDLost' <=> SSHDLost)
    <2>1. sshd' = sshd
      BY <1>4 DEF users
    <2>2. Stop => Behind' \subseteq Behind
      BY ExitBehind DEF Stop
    <2>3. Rerun => Behind' \subseteq Behind
      BY DEF Rerun, Control, Behind, Finished
    <2>4. UNCHANGED all => Behind' \subseteq Behind
      BY DEF all, control, Behind, Finished
    <2>5. Through("user-manage")' \subseteq Through("user-manage")
      BY <1>0, <1>4, <2>2, <2>3, <2>4, ThroughStep, DocFrame DEF Through
    <2> QED
      BY <1>2, <1>4, <2>1, <2>5
  <1>5. CASE WriteFileNext /\ UNCHANGED users /\ Act.kind = "writefile"
    BY <1>4, <1>5, ScarsOfWriteFile DEF SSHDLost
  <1>6. CASE SerialConsoleNext /\ UNCHANGED users /\ Act.kind = "serial-console"
    BY <1>4, <1>6, ScarsOfSerialConsole DEF SSHDLost
  <1>7. CASE Grub2diskNext /\ UNCHANGED users /\ Act.kind = "grub2disk"
    BY <1>4, <1>7, ScarsOfGrub2disk DEF SSHDLost
  <1>8. CASE KexecNext /\ UNCHANGED users /\ Act.kind = "kexec"
    BY <1>4, <1>8, ScarsOfKexec DEF SSHDLost
  <1>9. CASE (Stop \/ Rerun \/ UNCHANGED all) /\ UNCHANGED <<users, grub, loader, booted, scars>>
    BY <1>4, <1>9 DEF SSHDLost
  <1> QED
    BY <1>1, <1>3, <1>5, <1>6, <1>7, <1>8, <1>9, StepKind

LEMMA InitSSHD == Init => SSHDInv
  <1> SUFFICES ASSUME Init PROVE SSHDInv
    OBVIOUS
  <1>1. /\ doc \in Documents /\ sshd = doc.image.sshd /\ scars = {} /\ status = "running" /\ at = 1
    BY DEF Init, TargetInit, UserManageInit
  <1>2. Lines(sshd)
    <2>1. LET f == doc.image.sshd
          IN f \in Seq({f[i] : i \in DOMAIN f}) /\ \A i \in DOMAIN f : f[i].off \in BOOLEAN /\ f[i].odd \in BOOLEAN
      <3>1. doc \in Documents
        BY <1>1
      <3> QED
        BY <3>1, UsersAssumption
    <2> QED
      BY <1>1, <2>1 DEF Lines
  <1>3. Grown(sshd)
    BY <1>1, <1>2 DEF Grown, SSHDLost
  <1>4. Through("user-manage") = {}
    BY <1>1 DEF Through, Behind, Finished
  <1> QED
    BY <1>3, <1>4 DEF SSHDInv

LEMMA LeastPlace ==
    ASSUME NEW T \in SUBSET Nat, T # {}
    PROVE  \E x \in T : \A y \in T : x <= y
  <1>1. PICK x \in T : \A y \in T : ~(<<y, x>> \in OpToRel(<, Nat))
    BY NatLessThanWellFounded, WFMin
  <1>2. \A y \in T : ~(y < x)
    BY <1>1 DEF OpToRel
  <1> QED
    BY <1>2

\* FirstMatch is the first Match line in force, or the end.
LEMMA FirstMatchFacts ==
    ASSUME NEW s, Lines(s)
    PROVE  /\ FirstMatch(s) \in 1..(Len(s) + 1)
           /\ FirstMatch(s) # Len(s) + 1 => s[FirstMatch(s)].dir = "Match" /\ ~s[FirstMatch(s)].off
           /\ \A j \in 1..(FirstMatch(s) - 1) : s[j].dir # "Match" \/ s[j].off
  <1> DEFINE T == {i \in DOMAIN s : s[i].dir = "Match" /\ ~s[i].off}
  <1>1. Len(s) \in Nat /\ DOMAIN s = 1..Len(s)
    BY LinesFacts
  <1>2. CASE T = {}
    <2>1. FirstMatch(s) = Len(s) + 1
      BY <1>2 DEF FirstMatch
    <2> QED
      BY <1>1, <1>2, <2>1
  <1>3. CASE T # {}
    <2>0. T \in SUBSET Nat
      BY <1>1
    <2>1. PICK x \in T : \A y \in T : x <= y
      <3> HIDE DEF T
      <3> QED
        BY <1>3, <2>0, LeastPlace
    <2>2. /\ x \in DOMAIN s /\ s[x].dir = "Match" /\ ~s[x].off
          /\ \A j \in 1..(x - 1) : s[j].dir # "Match" \/ s[j].off
      <3>1. ASSUME NEW j \in 1..(x - 1)
            PROVE  s[j].dir # "Match" \/ s[j].off
        <4>1. j \in DOMAIN s /\ ~(x <= j)
          BY <1>1, <2>1
        <4> QED
          BY <2>1, <4>1
      <3> QED
        BY <2>1, <3>1
    <2>3. FirstMatch(s) = CHOOSE i \in DOMAIN s : /\ s[i].dir = "Match" /\ ~s[i].off
                                                  /\ \A j \in 1..(i - 1) : s[j].dir # "Match" \/ s[j].off
      BY <1>3 DEF FirstMatch
    <2>4. /\ FirstMatch(s) \in DOMAIN s /\ s[FirstMatch(s)].dir = "Match" /\ ~s[FirstMatch(s)].off
          /\ \A j \in 1..(FirstMatch(s) - 1) : s[j].dir # "Match" \/ s[j].off
      BY <2>2, <2>3
    <2> QED
      BY <1>1, <2>4
  <1> QED
    BY <1>2, <1>3

\* When line i of s is the first that sshd heeds for d, it says v and includes
\* nothing.
SaysFirst(s, i, d, v) ==
    (Heeded(s, i, d) /\ \A j \in 1..(i - 1) : ~Heeded(s, j, d)) => s[i].val = v /\ ~Includes(s[i], d)

\* What sshd takes, when every heeded line that comes first says v.
LEMMA EffectiveIs ==
    ASSUME NEW s, Lines(s), NEW d, NEW v,
           \E i \in 1..(FirstMatch(s) - 1) : Heeded(s, i, d),
           \A i \in 1..(FirstMatch(s) - 1) : SaysFirst(s, i, d, v)
    PROVE  Effective(s, d) = v
  <1> DEFINE T == {i \in 1..(FirstMatch(s) - 1) : Heeded(s, i, d)}
             x == CHOOSE i \in T : \A j \in T : i <= j
  <1>1. FirstMatch(s) \in 1..(Len(s) + 1) /\ Len(s) \in Nat
    BY FirstMatchFacts, LinesFacts
  <1>2. T # {} /\ T \in SUBSET Nat
    BY <1>1
  <1>3. \E i \in T : \A j \in T : i <= j
    BY <1>2, LeastPlace
  <1>4. x \in T /\ \A j \in T : x <= j
    BY <1>3
  <1>5. Effective(s, d) = IF Includes(s[x], d) THEN FirstValue(doc.image.dropins, d) ELSE s[x].val
    BY <1>2 DEF Effective
  <1> HIDE DEF x
  <1>6. \A j \in 1..(x - 1) : ~Heeded(s, j, d)
    <2>1. ASSUME NEW j \in 1..(x - 1)
          PROVE  j \notin T /\ j \in 1..(FirstMatch(s) - 1)
      BY <1>1, <1>4
    <2> QED
      BY <2>1
  <1> QED
    BY <1>4, <1>5, <1>6 DEF SaysFirst

\* SSHDAsAsked: what the metadata asks of sshd takes effect, and the rest of the
\* file of the image stays.
LEMMA SSHDInvAsks == Control /\ SSHDInv => SSHDAsAsked
  <1> DEFINE s == doc.image.sshd
             Plain(d) == {i \in 1..(FirstMatch(s) - 1) : Matches(s[i], d)}
             Rivals(d) == {i \in DOMAIN s : (s[i].dir = d /\ s[i].odd /\ ~s[i].off) \/ Includes(s[i], d)}
             Heard(d) == \/ Plain(d) # {} /\ \A i \in Rivals(d) : \E j \in Plain(d) : j < i
                         \/ Rivals(d) = {} /\ FirstMatch(s) = Len(s) + 1
             Asked(d) == doc.sshd # None /\ d \in DOMAIN doc.sshd /\ doc.sshd[d] # None
  <1> SUFFICES ASSUME Control, SSHDInv, Finished, Planned("user-manage") # {}
               PROVE  /\ \A d \in {"PermitRootLogin", "PasswordAuthentication"} :
                             Asked(d) /\ Heard(d) => Effective(sshd, d) = doc.sshd[d]
                      /\ \/ <<"sshd", "sshd">> \in scars
                         \/ /\ DOMAIN s \subseteq DOMAIN sshd
                            /\ \A i \in DOMAIN s :
                                   \/ sshd[i] = s[i]
                                   \/ Asked(s[i].dir) /\ sshd[i] = Line(s[i].dir, doc.sshd[s[i].dir])
    BY DEF SSHDAsAsked
  <1>0. doc \in Documents /\ Grown(sshd) /\ SSHDSaid(sshd)
    BY FinishedThrough DEF Control, SSHDInv
  <1>1. Lines(s) /\ Lines(sshd)
    BY <1>0, UsersAssumption DEF Lines, Grown
  <1>2. /\ Len(s) \in Nat /\ DOMAIN s = 1..Len(s) /\ Len(sshd) \in Nat /\ DOMAIN sshd = 1..Len(sshd)
    BY <1>1, LinesFacts
  <1>3. doc.sshd # None => DOMAIN doc.sshd = Directives
    BY <1>0, UsersAssumption DEF Directives
  <1> HIDE DEF s
  <1>4. ASSUME ~SSHDLost
        PROVE  /\ DOMAIN s \subseteq DOMAIN sshd
               /\ \A i \in DOMAIN sshd :
                     IF i \in DOMAIN s
                     THEN sshd[i] = s[i] \/ \E d \in Directives : AsksFor(d) /\ Matches(s[i], d) /\ sshd[i] = Line(d, doc.sshd[d])
                     ELSE AskedLine(sshd[i])
    BY <1>0, <1>4 DEF Grown, s
  <1>5. \/ <<"sshd", "sshd">> \in scars
        \/ /\ DOMAIN s \subseteq DOMAIN sshd
           /\ \A i \in DOMAIN s :
                  \/ sshd[i] = s[i]
                  \/ Asked(s[i].dir) /\ sshd[i] = Line(s[i].dir, doc.sshd[s[i].dir])
    <2>1. ASSUME ~SSHDLost, NEW i \in DOMAIN s, sshd[i] # s[i]
          PROVE  Asked(s[i].dir) /\ sshd[i] = Line(s[i].dir, doc.sshd[s[i].dir])
      <3>1. PICK d \in Directives : AsksFor(d) /\ Matches(s[i], d) /\ sshd[i] = Line(d, doc.sshd[d])
        BY <1>4, <2>1
      <3>2. d = s[i].dir
        BY <3>1 DEF Matches
      <3> QED
        BY <1>3, <3>1, <3>2 DEF AsksFor
    <2> QED
      BY <1>4, <2>1 DEF SSHDLost
  <1>6. ASSUME NEW d \in Directives, Asked(d), Heard(d)
        PROVE  Effective(sshd, d) = doc.sshd[d]
    <2>1. PICK v : v = doc.sshd[d]
      OBVIOUS
    <2>2. AsksFor(d) /\ Says(sshd, d, v)
      BY <1>0, <1>6, <2>1 DEF AsksFor, SSHDSaid
    <2>3. /\ \A l : AskedLine(l) => l.odd = FALSE /\ l.off = FALSE /\ l.dir \in Directives
          /\ "Match" \notin Directives /\ "Include" \notin Directives
      BY DEF AskedLine, Line, Directives
    <2>4. \A i \in DOMAIN sshd : Matches(sshd[i], d) => sshd[i].val = v /\ sshd[i].dir = d /\ ~sshd[i].off /\ ~sshd[i].odd
      BY <2>2 DEF Says, Line
    <2>5. /\ FirstMatch(sshd) \in 1..(Len(sshd) + 1)
          /\ FirstMatch(sshd) # Len(sshd) + 1 => sshd[FirstMatch(sshd)].dir = "Match" /\ ~sshd[FirstMatch(sshd)].off
          /\ \A j \in 1..(FirstMatch(sshd) - 1) : sshd[j].dir # "Match" \/ sshd[j].off
      BY <1>1, FirstMatchFacts
    <2>6. PICK m \in DOMAIN sshd : Matches(sshd[m], d)
      BY <2>2 DEF Says
    <2>9. /\ Heeded(sshd, m, d)
          /\ \A i \in DOMAIN sshd : Matches(sshd[i], d) => Heeded(sshd, i, d) /\ ~Includes(sshd[i], d)
      BY <2>3, <2>4, <2>6 DEF Heeded, Includes
    <2>7. CASE SSHDLost
      <3>1. \A i \in DOMAIN sshd : AskedLine(sshd[i])
        BY <1>0, <2>7 DEF Grown
      <3>2. FirstMatch(sshd) = Len(sshd) + 1
        BY <1>2, <2>3, <2>5, <3>1
      <3>3. 1..(FirstMatch(sshd) - 1) = DOMAIN sshd
        BY <1>2, <3>2
      <3>4. \A i \in DOMAIN sshd : sshd[i].dir = d => sshd[i].val = v
        BY <2>3, <2>4, <3>1 DEF Matches
      <3>8. \A i \in DOMAIN sshd : ~Includes(sshd[i], d)
        BY <2>3, <3>1 DEF Includes
      <3>7. \A i \in 1..(FirstMatch(sshd) - 1) : SaysFirst(sshd, i, d, v)
        BY <3>3, <3>4, <3>8 DEF SaysFirst, Heeded
      <3>5. \E i \in 1..(FirstMatch(sshd) - 1) : Heeded(sshd, i, d)
        BY <2>6, <2>9, <3>3
      <3>6. Effective(sshd, d) = v
        BY <1>1, <3>5, <3>7, EffectiveIs
      <3> QED
        BY <2>1, <3>6
    <2>8. CASE ~SSHDLost
      <3>1. /\ FirstMatch(s) \in 1..(Len(s) + 1)
            /\ FirstMatch(s) # Len(s) + 1 => s[FirstMatch(s)].dir = "Match" /\ ~s[FirstMatch(s)].off
            /\ \A j \in 1..(FirstMatch(s) - 1) : s[j].dir # "Match" \/ s[j].off
        BY <1>1, FirstMatchFacts
      \* A Match, an Include or a line in another spelling is the image's.
      <3>2. \A i \in DOMAIN sshd : sshd[i].odd \/ sshd[i].dir \in {"Match", "Include"} => i \in DOMAIN s /\ sshd[i] = s[i]
        <4>1. ASSUME NEW i \in DOMAIN sshd, sshd[i].odd \/ sshd[i].dir \in {"Match", "Include"}
              PROVE  ~AskedLine(sshd[i])
          BY <2>3, <4>1
        <4>2. \A e \in Directives : \A w : Line(e, w).odd = FALSE /\ Line(e, w).dir = e /\ e \notin {"Match", "Include"}
          BY <2>3 DEF Line
        <4> QED
          BY <1>4, <2>8, <4>1, <4>2
      <3>3. FirstMatch(sshd) >= FirstMatch(s)
        <4> SUFFICES ASSUME FirstMatch(sshd) < FirstMatch(s) PROVE FALSE
          BY <1>2, <2>5, <3>1
        <4>1. Len(s) <= Len(sshd)
          <5>1. CASE Len(s) = 0
            BY <1>2, <5>1
          <5>2. CASE Len(s) # 0
            <6>1. Len(s) \in DOMAIN sshd
              BY <1>2, <1>4, <2>8, <5>2
            <6> QED
              BY <1>2, <6>1
          <5> QED
            BY <5>1, <5>2
        <4>2. FirstMatch(sshd) # Len(sshd) + 1 /\ FirstMatch(sshd) \in DOMAIN sshd /\ FirstMatch(sshd) \in 1..(FirstMatch(s) - 1)
          BY <1>2, <2>5, <3>1, <4>1
        <4>3. sshd[FirstMatch(sshd)] = s[FirstMatch(sshd)]
          BY <2>5, <3>2, <4>2
        <4> QED
          BY <2>5, <3>1, <4>2, <4>3
      <3>9. \A i \in DOMAIN sshd : (sshd[i].dir = d /\ ~sshd[i].off /\ sshd[i].odd) \/ Includes(sshd[i], d) => i \in Rivals(d)
        <4>1. ASSUME NEW i \in DOMAIN sshd, (sshd[i].dir = d /\ ~sshd[i].off /\ sshd[i].odd) \/ Includes(sshd[i], d)
              PROVE  i \in DOMAIN s /\ sshd[i] = s[i]
          BY <3>2, <4>1 DEF Includes
        <4> QED
          BY <4>1
      <3>4. CASE Plain(d) # {} /\ \A i \in Rivals(d) : \E j \in Plain(d) : j < i
        \* In front of the first Match block the plain lines say v.
        <4>1. ASSUME NEW j \in Plain(d)
              PROVE  j \in 1..(FirstMatch(sshd) - 1) /\ j \in DOMAIN sshd /\ Matches(sshd[j], d)
          <5>1. j \in 1..(FirstMatch(s) - 1) /\ Matches(s[j], d) /\ j \in DOMAIN s
            BY <1>2, <3>1
          <5>2. j \in 1..(FirstMatch(sshd) - 1) /\ j \in DOMAIN sshd
            BY <1>4, <2>5, <2>8, <3>1, <3>3, <5>1
          <5>3. Matches(sshd[j], d)
            BY <1>4, <2>8, <5>1, <5>2 DEF Matches, Line
          <5> QED
            BY <5>2, <5>3
        <4>2. ASSUME NEW i \in 1..(FirstMatch(sshd) - 1), Heeded(sshd, i, d),
                     \A j \in 1..(i - 1) : ~Heeded(sshd, j, d)
              PROVE  sshd[i].val = v /\ ~Includes(sshd[i], d)
          <5>0. i \in DOMAIN sshd
            BY <1>2, <2>5
          <5>1. CASE Matches(sshd[i], d)
            BY <2>4, <2>9, <5>0, <5>1
          <5>2. CASE ~Matches(sshd[i], d)
            <6>1. i \in Rivals(d)
              <7>1. (sshd[i].dir = d /\ ~sshd[i].off /\ sshd[i].odd) \/ Includes(sshd[i], d)
                BY <4>2, <5>2 DEF Heeded, Matches
              <7> QED
                BY <3>9, <5>0, <7>1
            <6>2. PICK j \in Plain(d) : j < i
              BY <3>4, <6>1
            <6>3. j \in 1..(FirstMatch(sshd) - 1) /\ j \in DOMAIN sshd /\ Matches(sshd[j], d)
              BY <4>1
            <6>4. j \in 1..(i - 1) /\ Heeded(sshd, j, d)
              BY <2>5, <2>9, <6>2, <6>3
            <6> QED
              BY <4>2, <6>4
          <5> QED
            BY <5>1, <5>2
        <4>3. \E i \in 1..(FirstMatch(sshd) - 1) : Heeded(sshd, i, d)
          BY <2>9, <3>4, <4>1
        <4>5. \A i \in 1..(FirstMatch(sshd) - 1) : SaysFirst(sshd, i, d, v)
          BY <4>2 DEF SaysFirst
        <4>4. Effective(sshd, d) = v
          BY <1>1, <4>3, <4>5, EffectiveIs
        <4> QED
          BY <2>1, <4>4
      <3>5. CASE Rivals(d) = {} /\ FirstMatch(s) = Len(s) + 1
        <4>1. FirstMatch(sshd) = Len(sshd) + 1
          <5>1. ASSUME FirstMatch(sshd) # Len(sshd) + 1
                PROVE  FALSE
            <6>1. FirstMatch(sshd) \in DOMAIN sshd
              BY <1>2, <2>5, <5>1
            <6>2. FirstMatch(sshd) \in DOMAIN s /\ sshd[FirstMatch(sshd)] = s[FirstMatch(sshd)]
              BY <2>5, <3>2, <5>1, <6>1
            <6>3. FirstMatch(sshd) \in 1..(FirstMatch(s) - 1)
              BY <1>2, <3>5, <6>2
            <6> QED
              BY <2>5, <3>1, <5>1, <6>2, <6>3
          <5> QED
            BY <5>1
        <4>2. 1..(FirstMatch(sshd) - 1) = DOMAIN sshd
          BY <1>2, <4>1
        <4>3. \A i \in DOMAIN sshd : Heeded(sshd, i, d) => sshd[i].val = v /\ ~Includes(sshd[i], d)
          <5>1. ASSUME NEW i \in DOMAIN sshd, Heeded(sshd, i, d)
                PROVE  Matches(sshd[i], d)
            <6>1. ~((sshd[i].dir = d /\ ~sshd[i].off /\ sshd[i].odd) \/ Includes(sshd[i], d))
              BY <3>5, <3>9
            <6> QED
              BY <5>1, <6>1 DEF Heeded, Matches
          <5> QED
            BY <2>4, <2>9, <5>1
        <4>4. \E i \in 1..(FirstMatch(sshd) - 1) : Heeded(sshd, i, d)
          BY <2>6, <2>9, <4>2
        <4>6. \A i \in 1..(FirstMatch(sshd) - 1) : SaysFirst(sshd, i, d, v)
          BY <4>2, <4>3 DEF SaysFirst
        <4>5. Effective(sshd, d) = v
          BY <1>1, <4>4, <4>6, EffectiveIs
        <4> QED
          BY <2>1, <4>5
      <3> QED
        BY <1>6, <3>4, <3>5
    <2> QED
      BY <2>7, <2>8
  <1> QED
    BY <1>5, <1>6 DEF Directives

\* For every sshd_config and history: what the metadata asks of sshd is what sshd
\* takes, and all other lines are the image's (users.go:61), up to the property's
\* exceptions.
THEOREM SSHDTakesEffect == Spec => []SSHDAsAsked
  <1>1. Init => Control /\ SSHDInv
    BY InitControl, InitSSHD
  <1>2. Control /\ SSHDInv /\ [Next]_all => (Control /\ SSHDInv)'
    BY ControlStep, SSHDStep
  <1>3. Control /\ SSHDInv => SSHDAsAsked
    BY SSHDInvAsks
  <1> QED
    BY <1>1, <1>2, <1>3, PTL DEF Spec

-----------------------------------------------------------------------------
(* Boot loaders and menus.                                                 *)

Fallen(d) == esp[d].fallback \in {"grub", "shim"}
Beside(d) == esp[d].beside \/ <<"beside", d>> \in scars
LastOn(i) == \A j \in Planned("grub2disk") : j > i => doc.plan[j].disk # doc.plan[i].disk

LoaderOK ==
    /\ reads = [d \in Disks |-> reads[d]]
    /\ esp = [d \in Disks |-> [vendor |-> esp[d].vendor, fallback |-> esp[d].fallback, beside |-> esp[d].beside]]
    /\ grubcfg = [seen |-> grubcfg.seen, hidden |-> grubcfg.hidden]

\* What an EFI installation leaves, and where the disk's grub looks.
DiskDone(i) ==
    /\ doc.plan[i].mode = "efi" => Fallen(doc.plan[i].disk) /\ Beside(doc.plan[i].disk)
    /\ reads[doc.plan[i].disk] # None
    /\ SeeBoot(i) /\ LastOn(i) => reads[doc.plan[i].disk] = "seen"

\* The action on its way: what it mounted is what it installs for.
InGrub2disk == status = "running" /\ Act.kind = "grub2disk" =>
    /\ pc # "begin" /\ SeeBoot(at) => BootView = "seen"
    /\ pc \in {"mkconfig", "fallback", "beside", "nvram"} => reads[Act.disk] = BootView
    /\ pc \in {"fallback", "beside", "nvram"} /\ BootView = "seen" => grubcfg.seen = Menu
    /\ pc \in {"beside", "nvram"} => Fallen(Act.disk)
    /\ pc = "nvram" => Beside(Act.disk)

\* Between the defaults and grub-mkconfig the menu is behind.
Rewriting == status = "running" /\ Act.kind = "serial-console" /\ pc = "mkconfig"
MenuMade == MenuMakers \cap Behind # {} => grubcfg.seen = Menu \/ Rewriting

DisksDone == \A i \in Through("grub2disk") : DiskDone(i)
DiskInv == LoaderOK /\ DisksDone /\ InGrub2disk /\ MenuMade

LEMMA InitDiskInv == Init => DiskInv
  <1> SUFFICES ASSUME Init PROVE DiskInv
    OBVIOUS
  <1>1. status = "running" /\ at = 1 /\ pc = "begin"
    BY DEF Init, TargetInit
  <1>2. Behind = {}
    BY <1>1 DEF Behind, Finished
  <1>3. LoaderOK
    BY DEF Init, Grub2diskInit, SerialConsoleInit, LoaderOK
  <1> QED
    BY <1>1, <1>2, <1>3 DEF DiskInv, DisksDone, Through, InGrub2disk, MenuMade

\* SeeBoot and MenuMakers depend on the document and the traces.
LEMMA SeeBootFrame ==
    ASSUME doc' = doc, NEW i, <<"siblings", i>> \in scars' <=> <<"siblings", i>> \in scars
    PROVE  SeeBoot(i)' <=> SeeBoot(i)
  BY DEF SeeBoot

LEMMA LastFrame ==
    ASSUME doc' = doc, NEW i
    PROVE  LastOn(i)' <=> LastOn(i)
  BY DocFrame DEF LastOn

LEMMA MenuFrame ==
    ASSUME doc' = doc, defaults' = defaults
    PROVE  Menu' = Menu
  BY DEF Menu

LEMMA MakersBehind ==
    ASSUME Control, [Next]_all,
           \A i \in Behind' \cap Behind : <<"siblings", i>> \in scars' <=> <<"siblings", i>> \in scars
    PROVE  \A i \in MenuMakers' \cap Behind' : i \in MenuMakers \cap Behind \/ (status = "running" /\ i = at)
  <1>1. doc' = doc /\ (Behind' \subseteq Behind \/ (status = "running" /\ Behind' = Behind \cup {at}))
    BY BehindStep
  <1>2. Planned("serial-console")' = Planned("serial-console") /\ Planned("grub2disk")' = Planned("grub2disk")
    BY <1>1, DocFrame
  <1>3. \A i \in Behind' \cap Behind : SeeBoot(i)' <=> SeeBoot(i)
    BY <1>1, SeeBootFrame
  <1> QED
    BY <1>1, <1>2, <1>3 DEF MenuMakers

\* The actions that install no boot loader.
LEMMA NotGrub2disk ==
    ASSUME Control, DiskInv, [Next]_all, UNCHANGED loader,
           \/ status = "running" /\ Act.kind # "grub2disk"
           \/ Stop \/ Rerun \/ UNCHANGED all,
           \A k, x : k \in {"siblings", "beside"} => (<<k, x>> \in scars' <=> <<k, x>> \in scars)
    PROVE  DisksDone' /\ InGrub2disk'
  <1>1. doc' = doc /\ esp' = esp /\ reads' = reads
    BY BehindStep DEF loader
  <1>2. Through("grub2disk")' \subseteq Through("grub2disk")
    <2>1. CASE status = "running" /\ Act.kind # "grub2disk"
      BY <2>1, ThroughStep
    <2>2. CASE Stop
      BY <2>2, ExitBehind DEF Stop, Through
    <2>3. CASE Rerun
      BY <1>1, <2>3, DocFrame DEF Rerun, Control, Through, Behind, Finished
    <2>4. CASE UNCHANGED all
      BY <1>1, <2>4, DocFrame DEF all, control, Through, Behind, Finished
    <2> QED
      BY <2>1, <2>2, <2>3, <2>4
  <1>3. DisksDone'
    <2>1. ASSUME NEW i \in Through("grub2disk")
          PROVE  DiskDone(i)'
      <3>0. <<"siblings", i>> \in scars' <=> <<"siblings", i>> \in scars
        OBVIOUS
      <3>1. (SeeBoot(i)' <=> SeeBoot(i)) /\ (LastOn(i)' <=> LastOn(i))
        BY <1>1, <3>0, SeeBootFrame, LastFrame
      <3>2. \A d : (Beside(d)' <=> Beside(d)) /\ (Fallen(d)' <=> Fallen(d))
        BY <1>1 DEF Beside, Fallen
      <3> QED
        BY <1>1, <2>1, <3>1, <3>2 DEF DiskInv, DisksDone, DiskDone
    <2> QED
      BY <1>2, <2>1 DEF DisksDone
  <1>4. InGrub2disk'
    <2>1. CASE UNCHANGED all
      <3>1. /\ Act' = Act /\ pc' = pc /\ at' = at /\ status' = status /\ n' = n
            /\ grubcfg' = grubcfg /\ defaults' = defaults /\ scars' = scars
        BY <2>1 DEF all, control, grub, Act
      <3>2. Menu' = Menu /\ BootView' = BootView
        BY <1>1, <3>1, MenuFrame DEF BootView, View
      <3>3. SeeBoot(at)' <=> SeeBoot(at)
        BY <1>1, <3>1 DEF SeeBoot
      <3> QED
        BY <1>1, <3>1, <3>2, <3>3 DEF DiskInv, InGrub2disk, Fallen, Beside
    <2>2. CASE status' # "running" \/ pc' = "begin" \/ Act'.kind # "grub2disk"
      BY <2>2 DEF InGrub2disk
    <2>3. status = "running" /\ Act.kind # "grub2disk" => UNCHANGED all \/ pc' = "begin" \/ Act' = Act
      <3>1. status = "running" /\ Act.kind # "grub2disk" => UNCHANGED all \/ Stop \/ Move
        BY MoveKind DEF Rerun
      <3> QED
        BY <3>1, MoveBehind, ExitBehind DEF Stop
    <2>4. Stop => status' # "running"
      BY ExitBehind DEF Stop
    <2>5. Rerun => pc' = "begin"
      BY DEF Rerun, Control
    <2> QED
      BY <2>1, <2>2, <2>3, <2>4, <2>5
  <1> QED
    BY <1>3, <1>4

\* A step that leaves grub's files alone.
LEMMA MenuStays ==
    ASSUME Control, DiskInv, [Next]_all, UNCHANGED grub,
           \A x : <<"siblings", x>> \in scars' <=> <<"siblings", x>> \in scars,
           at \in MenuMakers => at \notin Behind' \/ Behind' \subseteq Behind,
           Rewriting => Rewriting' \/ Behind' = {}
    PROVE  MenuMade'
  <1>1. doc' = doc /\ grubcfg' = grubcfg /\ defaults' = defaults
    BY BehindStep DEF grub
  <1>2. Menu' = Menu
    BY <1>1, MenuFrame
  <1>3. ASSUME NEW i \in MenuMakers' \cap Behind'
        PROVE  i \in MenuMakers \cap Behind
    <2>1. i \in MenuMakers \cap Behind \/ (status = "running" /\ i = at)
      BY MakersBehind
    <2>2. i = at => i \in MenuMakers
      <3>1. SeeBoot(i)' <=> SeeBoot(i)
        BY <1>1, SeeBootFrame
      <3>2. Planned("serial-console")' = Planned("serial-console") /\ Planned("grub2disk")' = Planned("grub2disk")
        BY <1>1, DocFrame
      <3> QED
        BY <1>1, <3>1, <3>2 DEF MenuMakers
    <2> QED
      BY <1>3, <2>1, <2>2
  <1> QED
    BY <1>1, <1>2, <1>3 DEF DiskInv, MenuMade

LEMMA SerialConsoleDisks == Control /\ DiskInv /\ SerialConsoleNext /\ UNCHANGED <<users, loader, booted>> => DiskInv'
  <1> SUFFICES ASSUME Control, DiskInv, SerialConsoleNext, UNCHANGED <<users, loader, booted>> PROVE DiskInv'
    OBVIOUS
  <1>0. /\ [Next]_all /\ status = "running" /\ Act.kind = "serial-console" /\ UNCHANGED loader
        /\ doc' = doc
    BY BehindStep DEF Next, SerialConsoleNext, BeginSerialConsole, RewriteDefaults, RunMkConfig, At
  <1>1. \A k, x : k \in {"siblings", "beside"} => (<<k, x>> \in scars' <=> <<k, x>> \in scars)
    BY ScarsOfSerialConsole
  <1>2. DisksDone' /\ InGrub2disk'
    BY <1>0, <1>1, NotGrub2disk
  <1>3. CASE BeginSerialConsole
    <2>1. LoaderOK'
      BY <1>0, <1>3 DEF BeginSerialConsole, DiskInv, LoaderOK, loader, grub
    <2>2. at \in MenuMakers => at \notin Behind' \/ Behind' \subseteq Behind
      <3>1. at \in MenuMakers => doc.console # None
        BY <1>0 DEF MenuMakers, Planned, Act
      <3>2. (\E p, i : Go(p, i)) \/ Refuse => Behind' \subseteq Behind
        BY GoBehind, ExitBehind
      <3> QED
        BY <1>3, <3>1, <3>2 DEF BeginSerialConsole
    <2>3. ~Rewriting
      BY <1>3 DEF BeginSerialConsole, At, Rewriting
    <2>4. MenuMade'
      BY <1>0, <1>1, <1>3, <2>2, <2>3, MenuStays DEF BeginSerialConsole
    <2> QED
      BY <1>2, <2>1, <2>4 DEF DiskInv
  <1>4. CASE RewriteDefaults
    <2>1. LoaderOK'
      BY <1>0, <1>4 DEF RewriteDefaults, DiskInv, LoaderOK, loader
    <2>2. MenuMade'
      <3>1. CASE Go("mkconfig", 0)
        <4>1. Rewriting'
          BY <1>0, <3>1, GoBehind DEF Rewriting
        <4> QED
          BY <4>1 DEF MenuMade
      <3>2. CASE Fault
        BY <3>2, ExitBehind DEF MenuMade
      <3> QED
        BY <1>4, <3>1, <3>2 DEF RewriteDefaults
    <2> QED
      BY <1>2, <2>1, <2>2 DEF DiskInv
  <1>5. CASE RunMkConfig
    <2>1. View(TRUE) = "seen" /\ MenuIn("seen") = Menu
      BY DEF View, MenuIn
    <2>2. CASE grubcfg' = [grubcfg EXCEPT !["seen"] = Menu] /\ ActionDone
      <3>1. grubcfg' = [seen |-> Menu, hidden |-> grubcfg.hidden]
        BY <2>2 DEF DiskInv, LoaderOK
      <3>2. Menu' = Menu
        BY <1>0, <1>5, MenuFrame DEF RunMkConfig
      <3>3. LoaderOK'
        BY <1>0, <3>1 DEF DiskInv, LoaderOK, loader
      <3>4. MenuMade'
        BY <3>1, <3>2 DEF MenuMade
      <3> QED
        BY <1>2, <3>3, <3>4 DEF DiskInv
    <2>3. CASE (grubcfg' = grubcfg \/ grubcfg' = [grubcfg EXCEPT !["seen"] = <<>>]) /\ Fault
      <3>1. LoaderOK'
        BY <1>0, <2>3 DEF DiskInv, LoaderOK, loader
      <3>2. MenuMade'
        BY <2>3, ExitBehind DEF MenuMade
      <3> QED
        BY <1>2, <3>1, <3>2 DEF DiskInv
    <2> QED
      BY <1>5, <2>1, <2>2, <2>3 DEF RunMkConfig, MkConfig
  <1> QED
    BY <1>3, <1>4, <1>5 DEF SerialConsoleNext

\* writefile, user-manage, kexec, the end and the start of a run.
LEMMA ElsewhereDisks ==
    ASSUME Control, DiskInv, [Next]_all, UNCHANGED loader, UNCHANGED grub,
           \/ status = "running" /\ Act.kind \in {"writefile", "user-manage", "kexec"}
           \/ Stop \/ Rerun \/ UNCHANGED all,
           \A k, x : k \in {"siblings", "beside"} => (<<k, x>> \in scars' <=> <<k, x>> \in scars)
    PROVE  DiskInv'
  <1>1. DisksDone' /\ InGrub2disk'
    BY NotGrub2disk
  <1>2. LoaderOK'
    BY DEF DiskInv, LoaderOK, loader, grub
  <1>3. at \in MenuMakers => at \notin Behind' \/ Behind' \subseteq Behind
    <2>1. status = "running" /\ Act.kind \in {"writefile", "user-manage", "kexec"} => at \notin MenuMakers
      BY DEF MenuMakers, Planned, Act
    <2>2. Stop => Behind' = {}
      BY ExitBehind DEF Stop
    <2>3. Rerun => Behind' \subseteq Behind
      BY DEF Rerun, Control, Behind, Finished
    <2>4. UNCHANGED all => Behind' = Behind
      BY DEF all, control, Behind, Finished
    <2> QED
      BY <2>1, <2>2, <2>3, <2>4
  <1>4. Rewriting => Rewriting' \/ Behind' = {}
    <2>1. Stop => Behind' = {}
      BY ExitBehind DEF Stop
    <2>2. UNCHANGED all => (Rewriting' <=> Rewriting)
      BY DEF all, control, Rewriting, Act
    <2>3. Rerun => ~Rewriting
      BY DEF Rerun, Rewriting
    <2>4. Act.kind \in {"writefile", "user-manage", "kexec"} => ~Rewriting
      BY DEF Rewriting
    <2> QED
      BY <2>1, <2>2, <2>3, <2>4
  <1>5. MenuMade'
    BY <1>3, <1>4, MenuStays
  <1> QED
    BY <1>1, <1>2, <1>5 DEF DiskInv

\* The grub2disk that runs: no one behind it has its disk last.
LEMMA Grub2diskHere ==
    ASSUME Control, status = "running", Act.kind = "grub2disk"
    PROVE  /\ at \in Planned("grub2disk") /\ Act = doc.plan[at] /\ Act.disk \in Disks /\ Act.mode \in {"bios", "efi"}
           /\ Behind = 1..(at - 1) /\ at \in Nat
           /\ \A i \in Through("grub2disk") : i # at /\ i \in Planned("grub2disk") /\ doc.plan[i].disk \in Disks
           /\ \A i \in Through("grub2disk") : doc.plan[i].disk = Act.disk => ~LastOn(i)
  <1>1. at \in Planned("grub2disk") /\ Act = doc.plan[at]
    BY DEF Control, Act, Planned
  <1>2. Behind = 1..(at - 1) /\ at \in Nat
    BY RunningBehind
  <1>3. \A i \in Planned("grub2disk") : doc.plan[i].disk \in Disks /\ doc.plan[i].mode \in {"bios", "efi"}
    <2>1. doc \in Documents
      BY DEF Control
    <2> QED
      BY <2>1, Grub2diskAssumption DEF Planned
  <1>4. \A i \in Through("grub2disk") : i \in Planned("grub2disk") /\ at > i
    BY <1>2 DEF Through
  <1>5. \A i \in Through("grub2disk") : LastOn(i) => doc.plan[at].disk # doc.plan[i].disk
    BY <1>1, <1>4 DEF LastOn
  <1>6. \A i \in Through("grub2disk") : i # at
    BY <1>2, <1>4
  <1> QED
    BY <1>1, <1>2, <1>3, <1>4, <1>5, <1>6

\* What the action at hand does to its own disk leaves the others done.
LEMMA OtherDisks ==
    ASSUME Control, DiskInv, status = "running", Act.kind = "grub2disk", doc' = doc, NEW e, e = Act.disk,
           \A d \in Disks : d # e =>
              /\ esp'[d] = esp[d] /\ reads'[d] = reads[d]
              /\ <<"beside", d>> \in scars' <=> <<"beside", d>> \in scars,
           Fallen(e) => Fallen(e)', Beside(e) => Beside(e)',
           reads[e] # None => reads'[e] # None,
           \A i : i # at => (<<"siblings", i>> \in scars' <=> <<"siblings", i>> \in scars)
    PROVE  \A i \in Through("grub2disk") : DiskDone(i)'
  <1> SUFFICES ASSUME NEW i \in Through("grub2disk") PROVE DiskDone(i)'
    OBVIOUS
  <1>1. /\ doc.plan[i].disk \in Disks /\ i # at /\ (doc.plan[i].disk = e => ~LastOn(i)) /\ DiskDone(i)
    BY Grub2diskHere DEF DiskInv, DisksDone
  <1>2. (SeeBoot(i)' <=> SeeBoot(i)) /\ (LastOn(i)' <=> LastOn(i))
    BY <1>1, SeeBootFrame, LastFrame
  <1>3. PICK d : d = doc.plan[i].disk
    OBVIOUS
  <1>4. d' = d /\ doc'.plan[i].disk = d
    BY <1>3
  <1>5. CASE d = e
    BY <1>1, <1>2, <1>3, <1>4, <1>5 DEF DiskDone
  <1>6. CASE d # e
    <2>1. d \in Disks /\ esp'[d] = esp[d] /\ reads'[d] = reads[d] /\ (<<"beside", d>> \in scars' <=> <<"beside", d>> \in scars)
      BY <1>1, <1>3, <1>6
    <2>2. (Fallen(d)' <=> Fallen(d)) /\ (Beside(d)' <=> Beside(d))
      BY <2>1 DEF Fallen, Beside
    <2> QED
      BY <1>1, <1>2, <1>3, <2>1, <2>2 DEF DiskDone
  <1> QED
    BY <1>5, <1>6

\* What the step leaves of the menu, and of the disks behind.
LEMMA MenuKept ==
    ASSUME Control, DiskInv, [Next]_all, status = "running", Act.kind = "grub2disk", defaults' = defaults,
           grubcfg'.seen = grubcfg.seen \/ grubcfg'.seen = Menu,
           \A i : i # at => (<<"siblings", i>> \in scars' <=> <<"siblings", i>> \in scars),
           NEW k, k = at, k \notin Behind' \/ (SeeBoot(k)' => grubcfg'.seen = Menu)
    PROVE  MenuMade'
  <1>1. doc' = doc /\ Menu' = Menu /\ ~Rewriting
    BY BehindStep, MenuFrame DEF Rewriting
  <1>2. at \notin Behind /\ at \notin Planned("serial-console")
    BY Grub2diskHere DEF Planned, Act
  <1>3. \A i \in MenuMakers' \cap Behind' : i \in MenuMakers \cap Behind \/ i = at
    BY <1>2, MakersBehind
  <1>4. ASSUME NEW i \in MenuMakers' \cap Behind', i = at
        PROVE  grubcfg'.seen = Menu
    <2>1. Planned("serial-console")' = Planned("serial-console") /\ i \in Behind' /\ i \in MenuMakers'
      BY <1>1, <1>4, DocFrame
    <2>2. SeeBoot(i)'
      BY <1>2, <1>4, <2>1 DEF MenuMakers
    <2>3. PICK m : m = i
      OBVIOUS
    <2>4. SeeBoot(m)' <=> SeeBoot(i)'
      BY <2>3 DEF SeeBoot
    <2>5. m = k
      BY <1>4, <2>3
    <2> QED
      BY <1>4, <2>1, <2>2, <2>4, <2>5
  <1>5. ASSUME NEW i \in MenuMakers' \cap Behind', i # at
        PROVE  grubcfg'.seen = Menu
    BY <1>1, <1>3, <1>5 DEF DiskInv, MenuMade
  <1> QED
    BY <1>1, <1>4, <1>5 DEF MenuMade

LEMMA BeginGrub2diskDisks == Control /\ DiskInv /\ BeginGrub2disk /\ UNCHANGED <<users, booted>> => DiskInv'
  <1> SUFFICES ASSUME Control, DiskInv, BeginGrub2disk, UNCHANGED <<users, booted>> PROVE DiskInv'
    OBVIOUS
  <1>0. /\ [Next]_all /\ status = "running" /\ Act.kind = "grub2disk" /\ pc = "begin" /\ doc' = doc
        /\ grubcfg' = grubcfg /\ defaults' = defaults /\ esp' = esp /\ reads' = reads
    BY BehindStep DEF Next, Grub2diskNext, BeginGrub2disk, At, grub, loader
  <1>1. /\ Act' = Act /\ at' = at /\ Behind' = Behind /\ pc' \in {"bios", "install"} /\ status' = "running"
    <2>1. CASE \E p, i : p \in {"bios", "install"} /\ Go(p, i)
      BY <1>0, <2>1, GoBehind
    <2>2. CASE Slip /\ pc' \in {"bios", "install"}
      BY <1>0, <2>2 DEF Slip, Act, Behind, Finished
    <2> QED
      BY <2>1, <2>2 DEF BeginGrub2disk
  <1>2. /\ \A i : i # at => (<<"siblings", i>> \in scars' <=> <<"siblings", i>> \in scars)
        /\ \A d : <<"beside", d>> \in scars' <=> <<"beside", d>> \in scars
    <2>1. PICK x : x = <<"siblings", at>>
      OBVIOUS
    <2>2. scars' = scars \ {x} \/ scars' = scars \cup {x}
      BY <2>1 DEF BeginGrub2disk
    <2>3. /\ \A i : i # at => <<"siblings", i>> # x
          /\ \A d : <<"beside", d>> # x
      BY <2>1
    <2> QED
      BY <2>2, <2>3
  <1>3. LoaderOK'
    BY <1>0 DEF DiskInv, LoaderOK
  <1>4. DisksDone'
    <2>1. PICK e : e = Act.disk
      OBVIOUS
    <2>2. (Fallen(e) => Fallen(e)') /\ (Beside(e) => Beside(e)')
      BY <1>0, <1>2 DEF Fallen, Beside
    <2>3. \A i \in Through("grub2disk") : DiskDone(i)'
      BY <1>0, <1>2, <2>1, <2>2, OtherDisks
    <2>4. Through("grub2disk")' = Through("grub2disk")
      BY <1>0, <1>1, DocFrame DEF Through
    <2> QED
      BY <2>3, <2>4 DEF DisksDone
  <1>5. InGrub2disk'
    <2>1. CASE scars' = scars \ {<<"siblings", at>>} /\ n' = (IF Act.mirror THEN 0 ELSE 1)
      <3>1. SeeBoot(at)' => BootView' = "seen"
        BY <1>0, <1>1, <2>1 DEF SeeBoot, BootView, View, Act
      <3> QED
        BY <1>0, <1>1, <3>1 DEF InGrub2disk
    <2>2. CASE scars' = scars \cup {<<"siblings", at>>}
      <3>1. SeeBoot(at)' => BootView' = "seen"
        BY <1>0, <1>1, <2>2 DEF SeeBoot, BootView, View, Act
      <3> QED
        BY <1>0, <1>1, <3>1 DEF InGrub2disk
    <2> QED
      BY <2>1, <2>2 DEF BeginGrub2disk, Go
  <1>6. MenuMade'
    <2>1. PICK k : k = at
      OBVIOUS
    <2>2. k \notin Behind'
      BY <1>0, <1>1, <2>1, Grub2diskHere
    <2> QED
      BY <1>0, <1>2, <2>1, <2>2, MenuKept
  <1> QED
    BY <1>3, <1>4, <1>5, <1>6 DEF DiskInv

\* The steps that follow: the traces of the siblings stay, and the action stays
\* with its view, exits, or comes to its end.
LEMMA GrubMoves ==
    ASSUME Control, DiskInv, [Next]_all, status = "running", Act.kind = "grub2disk", pc # "begin",
           NEW e, e = Act.disk,
           \A i : <<"siblings", i>> \in scars' <=> <<"siblings", i>> \in scars,
           \A d \in Disks : d # e =>
              /\ esp'[d] = esp[d] /\ reads'[d] = reads[d]
              /\ <<"beside", d>> \in scars' <=> <<"beside", d>> \in scars,
           LoaderOK', defaults' = defaults, grubcfg'.seen = grubcfg.seen \/ grubcfg'.seen = Menu,
           Fault \/ (/\ Fallen(e) => Fallen(e)'
                     /\ Beside(e) => Beside(e)'
                     /\ reads[e] # None => reads'[e] # None),
           \/ Fault
           \/ /\ status' = status /\ at' = at /\ n' = n /\ doc' = doc
              /\ (pc' \in {"mkconfig", "fallback", "beside", "nvram"} => reads'[e] = BootView)
              /\ (pc' \in {"fallback", "beside", "nvram"} /\ BootView = "seen" => grubcfg'.seen = Menu)
              /\ (pc' \in {"beside", "nvram"} => Fallen(e)')
              /\ (pc' = "nvram" => Beside(e)')
           \/ /\ ActionDone
              /\ (Act.mode = "efi" => Fallen(e)' /\ Beside(e)')
              /\ reads'[e] = BootView
              /\ (BootView = "seen" => grubcfg'.seen = Menu)
    PROVE  DiskInv'
  <1>1. doc' = doc
    BY BehindStep
  <1>2. /\ at \in Planned("grub2disk") /\ Act = doc.plan[at] /\ e \in Disks /\ at \notin Behind
        /\ (SeeBoot(at) => BootView = "seen")
    BY Grub2diskHere DEF DiskInv, InGrub2disk
  <1>3. PICK k : k = at
    OBVIOUS
  <1>4. SeeBoot(k)' <=> SeeBoot(k)
    BY <1>1, SeeBootFrame
  <1>5. CASE Fault
    <2>1. Behind' = {} /\ status' = "failed"
      BY <1>5, ExitBehind
    <2> QED
      BY <2>1 DEF DiskInv, DisksDone, Through, InGrub2disk, MenuMade
  <1>6. CASE ~Fault
    <2>1. \A i \in Through("grub2disk") : DiskDone(i)'
      BY <1>1, <1>6, OtherDisks
    <2>2. CASE /\ status' = status /\ at' = at /\ n' = n
               /\ (pc' \in {"mkconfig", "fallback", "beside", "nvram"} => reads'[e] = BootView)
               /\ (pc' \in {"fallback", "beside", "nvram"} /\ BootView = "seen" => grubcfg'.seen = Menu)
               /\ (pc' \in {"beside", "nvram"} => Fallen(e)')
               /\ (pc' = "nvram" => Beside(e)')
      <3>1. Act' = Act /\ Behind' = Behind /\ BootView' = BootView /\ Menu' = Menu
        BY <1>1, <2>2, MenuFrame DEF Act, Behind, Finished, BootView, View
      <3>2. Through("grub2disk")' = Through("grub2disk")
        BY <1>1, <3>1, DocFrame DEF Through
      <3>3. DisksDone'
        BY <2>1, <3>2 DEF DisksDone
      <3>4. InGrub2disk'
        <4>1. SeeBoot(at)' => BootView = "seen"
          BY <1>1, <1>2, <1>3, <1>4, <2>2 DEF SeeBoot
        <4>2. Act'.disk = e
          BY <3>1
        <4>3. Fallen(Act.disk)' = Fallen(e)' /\ Beside(Act.disk)' = Beside(e)'
          BY <4>2 DEF Fallen, Beside
        <4> QED
          BY <2>2, <3>1, <4>1, <4>2, <4>3 DEF InGrub2disk
      <3>5. MenuMade'
        <4>1. k \notin Behind'
          BY <1>2, <1>3, <3>1
        <4> QED
          BY <1>3, <4>1, MenuKept
      <3> QED
        BY <3>3, <3>4, <3>5 DEF DiskInv
    <2>3. CASE /\ ActionDone
               /\ (Act.mode = "efi" => Fallen(e)' /\ Beside(e)')
               /\ reads'[e] = BootView
               /\ (BootView = "seen" => grubcfg'.seen = Menu)
      <3>1. pc' = "begin" /\ Behind' = Behind \cup {at}
        BY <2>3, DoneBehind
      <3>2. Through("grub2disk")' \subseteq Through("grub2disk") \cup {k}
        BY <1>1, <1>3, <3>1, DocFrame DEF Through
      <3>3. DiskDone(k)'
        <4>1. doc'.plan[k].disk = e /\ doc'.plan[k].mode = Act.mode
          BY <1>1, <1>2, <1>3
        <4>2. BootView \in {"seen", "hidden"}
          BY DEF BootView, View
        <4>3. reads'[e] # None
          BY <2>3, <4>2, Grub2diskAssumption
        <4>4. SeeBoot(k)' => reads'[e] = "seen"
          BY <1>2, <1>3, <1>4, <2>3
        <4>5. PICK f : f = doc.plan[k].disk
          OBVIOUS
        <4>6. f = e /\ Fallen(doc.plan[k].disk)' = Fallen(e)' /\ Beside(doc.plan[k].disk)' = Beside(e)'
          BY <4>1, <4>5, <1>1 DEF Fallen, Beside
        <4> QED
          BY <2>3, <4>1, <4>3, <4>4, <4>6 DEF DiskDone
      <3>4. DisksDone'
        BY <2>1, <3>2, <3>3 DEF DisksDone
      <3>5. InGrub2disk'
        <4>1. SeeBoot(at)' /\ pc' # "begin" => FALSE
          BY <3>1
        <4> QED
          BY <3>1, <4>1 DEF InGrub2disk
      <3>6. SeeBoot(k)' => grubcfg'.seen = Menu
        BY <1>2, <1>3, <1>4, <2>3
      <3>7. MenuMade'
        BY <1>3, <3>6, MenuKept
      <3> QED
        BY <3>4, <3>5, <3>7 DEF DiskInv
    <2> QED
      BY <1>6, <2>2, <2>3
  <1> QED
    BY <1>5, <1>6

LEMMA Grub2diskDisks == Control /\ DiskInv /\ Grub2diskNext /\ UNCHANGED <<users, booted>> => DiskInv'
  <1> SUFFICES ASSUME Control, DiskInv, Grub2diskNext, UNCHANGED <<users, booted>> PROVE DiskInv'
    OBVIOUS
  <1>0. /\ [Next]_all /\ status = "running" /\ Act.kind = "grub2disk" /\ doc' = doc
    BY BehindStep DEF Next, Grub2diskNext, BeginGrub2disk, DoBIOS, GrubInstall, UpdateGrub, CopyFallback, CopyGrub, RegisterNVRAM, At
  <1>1. PICK e : e = Act.disk
    OBVIOUS
  <1>2. e \in Disks /\ LoaderOK /\ Act.mode \in {"bios", "efi"}
    BY <1>0, <1>1, Grub2diskHere DEF DiskInv
  <1>3. ASSUME scars' = scars, esp' = esp, reads' = reads
        PROVE  /\ \A i : <<"siblings", i>> \in scars' <=> <<"siblings", i>> \in scars
               /\ \A d \in Disks : d # e =>
                     /\ esp'[d] = esp[d] /\ reads'[d] = reads[d]
                     /\ <<"beside", d>> \in scars' <=> <<"beside", d>> \in scars
               /\ Fallen(e)' = Fallen(e) /\ Beside(e)' = Beside(e) /\ reads'[e] = reads[e]
    BY <1>3 DEF Fallen, Beside
  <1>4. CASE BeginGrub2disk
    BY <1>4, BeginGrub2diskDisks
  <1>5. CASE DoBIOS
    <2>1. /\ pc # "begin" /\ defaults' = defaults /\ grubcfg' = grubcfg /\ scars' = scars /\ esp' = esp
          /\ reads' = [reads EXCEPT ![e] = BootView] /\ Go("mkconfig", n)
      BY <1>1, <1>5 DEF DoBIOS, At, grub
    <2>2. reads'[e] = BootView /\ LoaderOK' /\ \A d \in Disks : d # e => reads'[d] = reads[d]
      BY <1>2, <2>1 DEF LoaderOK
    <2>3. (Fallen(e)' <=> Fallen(e)) /\ (Beside(e)' <=> Beside(e))
      BY <2>1 DEF Fallen, Beside
    <2>4. reads[e] # None => reads'[e] # None
      BY <2>2, Grub2diskAssumption DEF BootView, View
    <2>5. status' = status /\ at' = at /\ n' = n /\ pc' = "mkconfig"
      BY <2>1 DEF Go
    <2> QED
      BY <1>0, <1>1, <2>1, <2>2, <2>3, <2>4, <2>5, GrubMoves
  <1>6. CASE GrubInstall
    <2>1. PICK V : esp' = [esp EXCEPT ![e].vendor = V]
      BY <1>1, <1>6 DEF GrubInstall
    <2>2. /\ pc # "begin" /\ defaults' = defaults /\ grubcfg' = grubcfg /\ scars' = scars
          /\ reads' = [reads EXCEPT ![e] = BootView] /\ (Go("mkconfig", n) \/ Fault)
      BY <1>1, <1>6 DEF GrubInstall, At, grub
    <2>3. /\ reads'[e] = BootView /\ LoaderOK' /\ \A d \in Disks : d # e => reads'[d] = reads[d] /\ esp'[d] = esp[d]
          /\ esp'[e].fallback = esp[e].fallback /\ esp'[e].beside = esp[e].beside
      <3>1. reads' = [d \in Disks |-> reads'[d]] /\ reads'[e] = BootView /\ \A d \in Disks : d # e => reads'[d] = reads[d]
        BY <1>2, <2>2 DEF LoaderOK
      <3>2. /\ DOMAIN esp' = Disks /\ esp' = [d \in Disks |-> esp'[d]]
            /\ esp'[e] = [esp[e] EXCEPT !.vendor = V]
            /\ \A d \in Disks : d # e => esp'[d] = esp[d]
        BY <1>2, <2>1 DEF LoaderOK
      <3>3. esp[e] = [vendor |-> esp[e].vendor, fallback |-> esp[e].fallback, beside |-> esp[e].beside]
        BY <1>2 DEF LoaderOK
      <3>4. esp'[e] = [vendor |-> V, fallback |-> esp[e].fallback, beside |-> esp[e].beside]
        BY <3>2, <3>3
      <3>5. \A d \in Disks : esp'[d] = [vendor |-> esp'[d].vendor, fallback |-> esp'[d].fallback, beside |-> esp'[d].beside]
        BY <1>2, <3>2, <3>4 DEF LoaderOK
      <3>6. LoaderOK'
        BY <1>2, <2>2, <3>1, <3>2, <3>5 DEF LoaderOK
      <3> QED
        BY <3>1, <3>2, <3>4, <3>6
    <2>4. (Fallen(e)' <=> Fallen(e)) /\ (Beside(e)' <=> Beside(e))
      BY <2>2, <2>3 DEF Fallen, Beside
    <2>5. reads[e] # None => reads'[e] # None
      BY <2>3, Grub2diskAssumption DEF BootView, View
    <2>6. Fault \/ (status' = status /\ at' = at /\ n' = n /\ pc' = "mkconfig")
      BY <2>2 DEF Go
    <2> QED
      BY <1>0, <1>1, <2>2, <2>3, <2>4, <2>5, <2>6, GrubMoves
  <1>7. CASE UpdateGrub
    <2>1. /\ pc = "mkconfig" /\ defaults' = defaults /\ scars' = scars /\ esp' = esp /\ reads' = reads
      BY <1>7 DEF UpdateGrub, At, loader
    <2>2. reads[e] = BootView /\ BootView \in {"seen", "hidden"} /\ (BootView = "seen" => MenuIn(BootView) = Menu)
      BY <1>0, <1>1, <2>1 DEF DiskInv, InGrub2disk, BootView, View, MenuIn
    <2>3. CASE grubcfg' = [grubcfg EXCEPT ![BootView] = MenuIn(BootView)] /\ IF Act.mode = "bios" THEN ActionDone ELSE Go("fallback", n)
      <3>1. LoaderOK' /\ grubcfg'.seen = (IF BootView = "seen" THEN Menu ELSE grubcfg.seen)
        BY <1>2, <2>1, <2>2, <2>3 DEF LoaderOK
      <3>2. CASE Act.mode = "bios"
        BY <1>0, <1>1, <1>2, <1>3, <2>1, <2>2, <2>3, <3>1, <3>2, GrubMoves
      <3>3. CASE Act.mode # "bios"
        <4>1. status' = status /\ at' = at /\ n' = n /\ pc' = "fallback"
          BY <2>3, <3>3 DEF Go
        <4> QED
          BY <1>0, <1>1, <1>2, <1>3, <2>1, <2>2, <3>1, <4>1, GrubMoves
      <3> QED
        BY <3>2, <3>3
    <2>4. CASE (grubcfg' = grubcfg \/ grubcfg' = [grubcfg EXCEPT ![BootView] = <<>>]) /\ Fault
      <3>1. LoaderOK'
        BY <1>2, <2>1, <2>2, <2>4 DEF LoaderOK
      <3> QED
        BY <2>4, <3>1, ExitBehind DEF DiskInv, DisksDone, Through, InGrub2disk, MenuMade
    <2> QED
      BY <1>7, <2>3, <2>4 DEF UpdateGrub, MkConfig
  <1>8. CASE CopyFallback
    <2>1. /\ pc = "fallback" /\ defaults' = defaults /\ scars' = scars /\ reads' = reads /\ grubcfg' = grubcfg
      BY <1>8 DEF CopyFallback, At, grub
    <2>2. PICK f : esp' = [esp EXCEPT ![e].fallback = f] /\ ((f \in {"grub", "shim"} /\ Go("beside", n)) \/ Fault)
      BY <1>1, <1>8 DEF CopyFallback, FallbackSource
    <2>3. /\ LoaderOK' /\ \A d \in Disks : d # e => reads'[d] = reads[d] /\ esp'[d] = esp[d]
          /\ esp'[e].fallback = f /\ esp'[e].beside = esp[e].beside
      BY <1>2, <2>1, <2>2 DEF LoaderOK
    <2>4. (f \in {"grub", "shim"} => Fallen(e)') /\ (Beside(e)' <=> Beside(e))
      BY <2>1, <2>3 DEF Fallen, Beside
    <2>5. reads[e] = BootView /\ (BootView = "seen" => grubcfg.seen = Menu)
      BY <1>0, <1>1, <2>1 DEF DiskInv, InGrub2disk
    <2>6. Fault \/ (status' = status /\ at' = at /\ n' = n /\ pc' = "beside" /\ Fallen(e)')
      BY <2>2, <2>4 DEF Go
    <2> QED
      BY <1>0, <1>1, <2>1, <2>3, <2>4, <2>5, <2>6, GrubMoves
  <1>9. CASE CopyGrub
    <2>1. /\ pc = "beside" /\ defaults' = defaults /\ reads' = reads /\ grubcfg' = grubcfg
      BY <1>9 DEF CopyGrub, At, grub
    <2>2. PICK b : /\ esp' = [esp EXCEPT ![e].beside = b]
                   /\ b = TRUE \/ scars' = scars \cup {<<"beside", e>>}
                   /\ scars' \in {scars \ {<<"beside", e>>}, scars \cup {<<"beside", e>>}}
      BY <1>1, <1>9 DEF CopyGrub
    <2>3. /\ LoaderOK' /\ \A d \in Disks : d # e => reads'[d] = reads[d] /\ esp'[d] = esp[d]
          /\ esp'[e].fallback = esp[e].fallback /\ esp'[e].beside = b
      BY <1>2, <2>1, <2>2 DEF LoaderOK
    <2>4. /\ \A i : <<"siblings", i>> \in scars' <=> <<"siblings", i>> \in scars
          /\ \A d : d # e => (<<"beside", d>> \in scars' <=> <<"beside", d>> \in scars)
      <3>1. PICK x : x = <<"beside", e>>
        OBVIOUS
      <3>2. (\A i : <<"siblings", i>> # x) /\ (\A d : d # e => <<"beside", d>> # x)
        BY <3>1
      <3> QED
        BY <2>2, <3>1, <3>2
    <2>5. (Fallen(e)' <=> Fallen(e)) /\ Beside(e)'
      <3>1. scars' = scars \cup {<<"beside", e>>} => <<"beside", e>> \in scars'
        OBVIOUS
      <3> QED
        BY <2>2, <2>3, <3>1 DEF Fallen, Beside
    <2>6. reads[e] = BootView /\ (BootView = "seen" => grubcfg.seen = Menu) /\ Fallen(e)
      BY <1>0, <1>1, <2>1 DEF DiskInv, InGrub2disk, Fallen
    <2>7. status' = status /\ at' = at /\ n' = n /\ pc' = "nvram"
      BY <1>9 DEF CopyGrub, Go, Slip
    <2> QED
      BY <1>0, <1>1, <2>1, <2>3, <2>4, <2>5, <2>6, <2>7, GrubMoves
  <1>10. CASE RegisterNVRAM
    <2>1. /\ pc = "nvram" /\ defaults' = defaults /\ scars' = scars /\ reads' = reads /\ grubcfg' = grubcfg /\ esp' = esp /\ ActionDone
      BY <1>10 DEF RegisterNVRAM, At, grub
    <2>2. LoaderOK'
      BY <1>2, <2>1 DEF LoaderOK
    <2>3. reads[e] = BootView /\ (BootView = "seen" => grubcfg.seen = Menu) /\ Fallen(e) /\ Beside(e)
      BY <1>0, <1>1, <2>1 DEF DiskInv, InGrub2disk, Fallen, Beside
    <2> QED
      BY <1>0, <1>1, <1>3, <2>1, <2>2, <2>3, GrubMoves
  <1> QED
    BY <1>4, <1>5, <1>6, <1>7, <1>8, <1>9, <1>10 DEF Grub2diskNext

\* The boot loaders keep their invariant.
LEMMA DiskStep == Control /\ DiskInv /\ [Next]_all => DiskInv'
  <1> SUFFICES ASSUME Control, DiskInv, [Next]_all PROVE DiskInv'
    OBVIOUS
  <1>1. CASE WriteFileNext /\ UNCHANGED <<users, grub, loader, booted>> /\ status = "running" /\ Act.kind = "writefile"
    BY <1>1, ScarsOfWriteFile, ElsewhereDisks
  <1>2. CASE UserManageNext /\ UNCHANGED <<grub, loader, booted>> /\ status = "running" /\ Act.kind = "user-manage"
    BY <1>2, ScarsOfUserManage, ElsewhereDisks
  <1>3. CASE SerialConsoleNext /\ UNCHANGED <<users, loader, booted>> /\ status = "running" /\ Act.kind = "serial-console"
    BY <1>3, SerialConsoleDisks
  <1>4. CASE Grub2diskNext /\ UNCHANGED <<users, booted>> /\ status = "running" /\ Act.kind = "grub2disk"
    BY <1>4, Grub2diskDisks
  <1>5. CASE KexecNext /\ UNCHANGED <<users, loader>> /\ status = "running" /\ Act.kind = "kexec" /\ UNCHANGED grub
    BY <1>5, ScarsOfKexec, ElsewhereDisks
  <1>6. CASE (Stop \/ Rerun \/ UNCHANGED all) /\ UNCHANGED <<users, grub, loader, booted, scars>>
    BY <1>6, ElsewhereDisks
  <1> QED
    BY <1>1, <1>2, <1>3, <1>4, <1>5, <1>6, StepKind

LEMMA DiskInvBoots == Control /\ DiskInv => DisksBoot
  <1> SUFFICES ASSUME Control, DiskInv, Finished PROVE DisksBoot
    BY DEF DisksBoot
  <1>1. ~Rewriting /\ MenuMakers \subseteq DOMAIN doc.plan /\ Behind = DOMAIN doc.plan
    BY DEF Rewriting, Finished, MenuMakers, Planned, Behind
  <1>2. MenuMakers # {} => grubcfg.seen = Menu
    BY <1>1 DEF DiskInv, MenuMade
  <1>3. ASSUME NEW i \in Planned("grub2disk")
        PROVE  DiskDone(i)
    BY <1>3, FinishedThrough DEF DiskInv, DisksDone
  <1> QED
    BY <1>2, <1>3 DEF DisksBoot, DiskDone, LastOn, Fallen, Beside, FallbackBoots

\* For every plan, number of disks and history: after a finished workflow the
\* firmware finds on each disk of the plan a loader that works, whose grub finds a
\* whole menu with the defaults as they were left (grub2disk/main.go:61-114), up to
\* the two faults that the code does not tell.
THEOREM DisksAreBootable == Spec => []DisksBoot
  <1>1. Init => Control /\ DiskInv
    BY InitControl, InitDiskInv
  <1>2. Control /\ DiskInv /\ [Next]_all => (Control /\ DiskInv)'
    BY ControlStep, DiskStep
  <1>3. Control /\ DiskInv => DisksBoot
    BY DiskInvBoots
  <1> QED
    BY <1>1, <1>2, <1>3, PTL DEF Spec

-----------------------------------------------------------------------------
(* Sequences of sequences.                                                 *)

\* The recursion of FlattenSeq defines a function.
LEMMA FlattenExists ==
    ASSUME NEW seqs, NEW m \in Nat
    PROVE  \E f : f = [i \in 1..m |-> IF i = 1 THEN seqs[i] ELSE f[i-1] \o seqs[i]]
  <1> DEFINE Has(k) == \E f : f = [i \in 1..k |-> IF i = 1 THEN seqs[i] ELSE f[i-1] \o seqs[i]]
             T == {k \in Nat : ~Has(k)}
  <1> SUFFICES ASSUME T # {} PROVE FALSE
    OBVIOUS
  <1>1. PICK k \in T : \A y \in T : k <= y
    <2>1. T \in SUBSET Nat
      OBVIOUS
    <2> HIDE DEF T
    <2> QED
      BY <2>1, LeastPlace
  <1>2. CASE k = 0
    <2>1. Has(0)
      <3>1. \A i \in 1..0 : FALSE
        OBVIOUS
      <3>2. PICK f : f = [i \in 1..0 |-> i]
        OBVIOUS
      <3>3. f = [i \in 1..0 |-> IF i = 1 THEN seqs[i] ELSE f[i-1] \o seqs[i]]
        BY <3>1, <3>2
      <3> QED
        BY <3>3
    <2> QED
      BY <1>1, <1>2, <2>1
  <1>3. CASE k # 0
    <2>1. k \in Nat /\ k - 1 \in Nat /\ ~(k <= k - 1)
      BY <1>1, <1>3
    <2>2. Has(k - 1)
      BY <1>1, <2>1
    <2>3. PICK f : f = [i \in 1..(k - 1) |-> IF i = 1 THEN seqs[i] ELSE f[i-1] \o seqs[i]]
      BY <2>2
    <2> DEFINE last == IF k = 1 THEN seqs[k] ELSE f[k-1] \o seqs[k]
    <2>4. PICK e : e = last
      OBVIOUS
    <2>5. PICK g : g = [i \in 1..k |-> IF i = k THEN e ELSE f[i]]
      OBVIOUS
    <2>6. DOMAIN g = 1..k /\ g[k] = e /\ \A i \in 1..(k - 1) : g[i] = f[i]
      BY <2>1, <2>5
    <2>7. \A i \in 1..(k - 1) : f[i] = IF i = 1 THEN seqs[i] ELSE f[i-1] \o seqs[i]
      BY <2>3
    <2>8. \A i \in 1..k : g[i] = IF i = 1 THEN seqs[i] ELSE g[i-1] \o seqs[i]
      <3>1. ASSUME NEW i \in 1..k
            PROVE  g[i] = IF i = 1 THEN seqs[i] ELSE g[i-1] \o seqs[i]
        <4>1. CASE i = 1
          <5>1. g[1] = seqs[1]
            <6>1. CASE k = 1
              BY <2>4, <2>6, <6>1
            <6>2. CASE k # 1
              <7>1. 1 \in 1..(k - 1)
                BY <2>1, <6>2
              <7> QED
                BY <2>6, <2>7, <7>1
            <6> QED
              BY <6>1, <6>2
          <5> QED
            BY <4>1, <5>1
        <4>2. CASE i # 1
          <5>1. i - 1 \in 1..(k - 1) /\ g[i-1] = f[i-1]
            BY <2>1, <2>6, <4>2, <3>1
          <5>2. CASE i = k
            BY <2>4, <2>6, <4>2, <5>1, <5>2
          <5>3. CASE i # k
            <6>1. i \in 1..(k - 1)
              BY <2>1, <3>1, <5>3
            <6>2. f[i] = f[i-1] \o seqs[i]
              BY <2>7, <4>2, <6>1
            <6>3. g[i] = f[i] /\ g[i-1] = f[i-1]
              BY <2>6, <5>1, <6>1
            <6> QED
              BY <4>2, <6>2, <6>3
          <5> QED
            BY <5>2, <5>3
        <4> QED
          BY <4>1, <4>2
      <3> QED
        BY <3>1
    <2>9. g = [i \in 1..k |-> IF i = 1 THEN seqs[i] ELSE g[i-1] \o seqs[i]]
      BY <2>5, <2>8
    <2>10. Has(k)
      BY <2>9
    <2> QED
      BY <1>1, <2>10
  <1> QED
    BY <1>2, <1>3

LEMMA FlattenUnfolds ==
    ASSUME NEW seqs, Len(seqs) \in Nat, Len(seqs) # 0
    PROVE  \E f : /\ FlattenSeq(seqs) = f[Len(seqs)] /\ f[1] = seqs[1]
                  /\ \A i \in 2..Len(seqs) : f[i] = f[i-1] \o seqs[i]
  <1> DEFINE f == CHOOSE g : g = [i \in 1..Len(seqs) |-> IF i = 1 THEN seqs[i] ELSE g[i-1] \o seqs[i]]
  <1>1. f = [i \in 1..Len(seqs) |-> IF i = 1 THEN seqs[i] ELSE f[i-1] \o seqs[i]]
    BY FlattenExists
  <1>2. FlattenSeq(seqs) = f[Len(seqs)]
    BY DEF FlattenSeq
  <1> HIDE DEF f
  <1>3. \A i \in 1..Len(seqs) : f[i] = IF i = 1 THEN seqs[i] ELSE f[i-1] \o seqs[i]
    <2>1. PICK e : e = f
      OBVIOUS
    <2>2. e = [i \in 1..Len(seqs) |-> IF i = 1 THEN seqs[i] ELSE e[i-1] \o seqs[i]]
      BY <1>1, <2>1
    <2>3. \A i \in 1..Len(seqs) : e[i] = IF i = 1 THEN seqs[i] ELSE e[i-1] \o seqs[i]
      BY <2>2
    <2> QED
      BY <2>1, <2>3
  <1>4. 1 \in 1..Len(seqs) /\ \A i \in 2..Len(seqs) : i \in 1..Len(seqs) /\ i # 1
    OBVIOUS
  <1>5. f[1] = seqs[1] /\ \A i \in 2..Len(seqs) : f[i] = f[i-1] \o seqs[i]
    BY <1>3, <1>4
  <1> QED
    BY <1>2, <1>5

\* What concatenation keeps, flattening keeps.
LEMMA FlattenKeeps ==
    ASSUME NEW M, \A a, b \in M : a \o b \in M,
           NEW seqs, Len(seqs) \in Nat, Len(seqs) # 0, \A i \in 1..Len(seqs) : seqs[i] \in M
    PROVE  FlattenSeq(seqs) \in M
  <1>1. PICK f : /\ FlattenSeq(seqs) = f[Len(seqs)] /\ f[1] = seqs[1]
                 /\ \A i \in 2..Len(seqs) : f[i] = f[i-1] \o seqs[i]
    BY FlattenUnfolds
  <1> DEFINE T == {i \in 1..Len(seqs) : f[i] \notin M}
  <1> SUFFICES ASSUME T # {} PROVE FALSE
    BY <1>1
  <1>2. T \in SUBSET Nat
    OBVIOUS
  <1>3. PICK k \in T : \A y \in T : k <= y
    <2> HIDE DEF T
    <2> QED
      BY <1>2, LeastPlace
  <1>4. k # 1
    BY <1>1, <1>3
  <1>5. k - 1 \in 1..Len(seqs) /\ k \in 2..Len(seqs) /\ ~(k <= k - 1)
    BY <1>3, <1>4
  <1>6. f[k-1] \in M
    BY <1>3, <1>5
  <1>7. f[k] \in M
    BY <1>1, <1>5, <1>6
  <1> QED
    BY <1>3, <1>7

-----------------------------------------------------------------------------
(* What grub-mkconfig makes.                                               *)

LineKinds == {"set default", "menuentry", "submenu", "linux", "initrd", "other"}
LineSet(V, args) == [kind : LineKinds, val : V, args : {<<>>, args}]

\* A kernel's line follows the head of its entry and has the command line, and an
\* initramfs follows its kernel.
Made(V, args) == {l \in Seq(LineSet(V, args)) : \A i \in 1..Len(l) :
    /\ l[i].kind = "linux" => i > 1 /\ l[i-1].kind = "menuentry" /\ l[i].args = args
    /\ l[i].kind = "initrd" => i > 1 /\ l[i-1].kind = "linux" /\ l[i-1].val = l[i].val}

LEMMA MadeConcat ==
    ASSUME NEW V, NEW args, NEW a \in Made(V, args), NEW b \in Made(V, args)
    PROVE  a \o b \in Made(V, args)
  <1> DEFINE S == LineSet(V, args)
             r == a \o b
  <1>1. a \in Seq(S) /\ b \in Seq(S)
    BY DEF Made
  <1> HIDE DEF S
  <1>2. /\ r \in Seq(S) /\ Len(r) = Len(a) + Len(b) /\ Len(a) \in Nat /\ Len(b) \in Nat
        /\ \A i \in 1..Len(a) : r[i] = a[i]
        /\ \A i \in (Len(a) + 1)..(Len(a) + Len(b)) : r[i] = b[i - Len(a)]
    BY <1>1, ConcatProperties
  <1> HIDE DEF r
  <1>3. ASSUME NEW i \in 1..Len(r)
        PROVE  /\ r[i].kind = "linux" => i > 1 /\ r[i-1].kind = "menuentry" /\ r[i].args = args
               /\ r[i].kind = "initrd" => i > 1 /\ r[i-1].kind = "linux" /\ r[i-1].val = r[i].val
    <2>1. CASE i \in 1..Len(a)
      <3>1. r[i] = a[i] /\ (i > 1 => r[i-1] = a[i-1])
        BY <1>2, <2>1
      <3>2. /\ a[i].kind = "linux" => i > 1 /\ a[i-1].kind = "menuentry" /\ a[i].args = args
            /\ a[i].kind = "initrd" => i > 1 /\ a[i-1].kind = "linux" /\ a[i-1].val = a[i].val
        BY <2>1 DEF Made
      <3> QED
        BY <3>1, <3>2
    <2>2. CASE i \notin 1..Len(a)
      <3>0. PICK j : j = i - Len(a)
        OBVIOUS
      <3>1. j \in 1..Len(b) /\ r[i] = b[j] /\ (j > 1 => i > 1 /\ r[i-1] = b[j-1])
        <4>1. i \in (Len(a) + 1)..(Len(a) + Len(b)) /\ j \in 1..Len(b) /\ r[i] = b[j]
          BY <1>2, <1>3, <2>2, <3>0
        <4>2. ASSUME j > 1
              PROVE  i > 1 /\ r[i-1] = b[j-1]
          <5>1. i - 1 \in (Len(a) + 1)..(Len(a) + Len(b)) /\ (i - 1) - Len(a) = j - 1 /\ i > 1
            BY <1>2, <1>3, <3>0, <4>1, <4>2
          <5>2. r[i-1] = b[(i - 1) - Len(a)]
            BY <1>2, <5>1
          <5> QED
            BY <5>1, <5>2
        <4> QED
          BY <4>1, <4>2
      <3>2. /\ b[j].kind = "linux" => j > 1 /\ b[j-1].kind = "menuentry" /\ b[j].args = args
            /\ b[j].kind = "initrd" => j > 1 /\ b[j-1].kind = "linux" /\ b[j-1].val = b[j].val
        BY <3>1 DEF Made
      <3> QED
        BY <3>1, <3>2
    <2> QED
      BY <2>1, <2>2
  <1> QED
    BY <1>2, <1>3 DEF Made, S, r

\* The shape of an entry.
LEMMA EntryShape ==
    ASSUME NEW V, None \in V, NEW args, NEW e, e.kernel \in V, e.initrd \in BOOLEAN, e.initrd => e.kernel # None
    PROVE  LET l == EntryLines(e, args)
           IN /\ l \in Seq(LineSet(V, args)) /\ Len(l) = IF e.initrd THEN 3 ELSE 2
              /\ l[1].kind = "menuentry"
              /\ IF e.kernel = None THEN l[2].kind = "other"
                 ELSE l[2].kind = "linux" /\ l[2].val = e.kernel /\ l[2].args = args
              /\ e.initrd => l[3].kind = "initrd" /\ l[3].val = e.kernel
  <1> DEFINE S == LineSet(V, args)
             h == GrubLine("menuentry", None)
             k == IF e.kernel = None THEN GrubLine("other", None) ELSE [kind |-> "linux", val |-> e.kernel, args |-> args]
             g == GrubLine("initrd", e.kernel)
  <1>1. h \in S /\ k \in S /\ g \in S
    BY DEF GrubLine, LineSet, LineKinds
  <1>2. /\ h.kind = "menuentry" /\ g.kind = "initrd" /\ g.val = e.kernel
        /\ IF e.kernel = None THEN k.kind = "other" ELSE k.kind = "linux" /\ k.val = e.kernel /\ k.args = args
    BY DEF GrubLine
  <1>3. EntryLines(e, args) = (<<h>> \o <<k>>) \o (IF e.initrd THEN <<g>> ELSE <<>>)
    BY DEF EntryLines
  <1> HIDE DEF S, h, k, g
  <1>4. <<h>> \in Seq(S) /\ <<k>> \in Seq(S) /\ <<g>> \in Seq(S) /\ <<>> \in Seq(S)
    BY <1>1
  <1>5. PICK a : a = <<h>> \o <<k>>
    OBVIOUS
  <1>6. a \in Seq(S) /\ Len(a) = 2 /\ a[1] = h /\ a[2] = k
    BY <1>4, <1>5
  <1>7. CASE e.initrd
    <2>1. PICK l : l = a \o <<g>>
      OBVIOUS
    <2>2. l \in Seq(S) /\ Len(l) = 3 /\ l[1] = h /\ l[2] = k /\ l[3] = g
      <3>1. PICK b : b = <<g>>
        OBVIOUS
      <3>2. b \in Seq(S) /\ Len(b) = 1 /\ b[1] = g
        BY <1>4, <3>1
      <3>3. /\ l \in Seq(S) /\ Len(l) = 3
            /\ \A i \in 1..3 : l[i] = IF i <= 2 THEN a[i] ELSE b[i - 2]
        <4>1. /\ a \o b \in Seq(S) /\ Len(a \o b) = Len(a) + Len(b)
              /\ \A i \in 1..(Len(a) + Len(b)) : (a \o b)[i] = IF i <= Len(a) THEN a[i] ELSE b[i - Len(a)]
          BY <1>6, <3>2, ConcatProperties
        <4>2. l = a \o b /\ Len(a) = 2 /\ Len(b) = 1
          BY <1>6, <2>1, <3>1, <3>2
        <4> QED
          BY <4>1, <4>2
      <3> QED
        BY <1>6, <3>2, <3>3
    <2>3. EntryLines(e, args) = l
      BY <1>3, <1>5, <1>7, <2>1
    <2> QED
      BY <1>2, <1>7, <2>2, <2>3 DEF S
  <1>8. CASE ~e.initrd
    <2>1. PICK l : l = a \o <<>>
      OBVIOUS
    <2>2. l \in Seq(S) /\ Len(l) = 2 /\ l[1] = h /\ l[2] = k
      BY <1>4, <1>6, <2>1
    <2>3. EntryLines(e, args) = l
      BY <1>3, <1>5, <1>8, <2>1
    <2> QED
      BY <1>2, <1>8, <2>2, <2>3 DEF S
  <1> QED
    BY <1>7, <1>8

LEMMA EntryMade ==
    ASSUME NEW V, None \in V, NEW args, NEW e, e.kernel \in V, e.initrd \in BOOLEAN, e.initrd => e.kernel # None
    PROVE  EntryLines(e, args) \in Made(V, args)
  <1>1. PICK l : l = EntryLines(e, args)
    OBVIOUS
  <1>2. /\ l \in Seq(LineSet(V, args)) /\ Len(l) = (IF e.initrd THEN 3 ELSE 2)
        /\ l[1].kind = "menuentry"
        /\ IF e.kernel = None THEN l[2].kind = "other" ELSE l[2].kind = "linux" /\ l[2].val = e.kernel /\ l[2].args = args
        /\ e.initrd => l[3].kind = "initrd" /\ l[3].val = e.kernel
    BY <1>1, EntryShape
  <1>3. ASSUME NEW i \in 1..Len(l)
        PROVE  /\ l[i].kind = "linux" => i > 1 /\ l[i-1].kind = "menuentry" /\ l[i].args = args
               /\ l[i].kind = "initrd" => i > 1 /\ l[i-1].kind = "linux" /\ l[i-1].val = l[i].val
    <2>1. i = 1 \/ i = 2 \/ (i = 3 /\ e.initrd)
      BY <1>2, <1>3
    <2>2. CASE i = 1
      BY <1>2, <2>2
    <2>3. CASE i = 2
      BY <1>2, <2>3
    <2>4. CASE i = 3 /\ e.initrd
      BY <1>2, <2>4
    <2> QED
      BY <2>1, <2>2, <2>3, <2>4
  <1> QED
    BY <1>1, <1>2, <1>3 DEF Made

\* A sequence of one.
LEMMA Singleton ==
    ASSUME NEW S, NEW x \in S
    PROVE  <<x>> \in Seq(S) /\ Len(<<x>>) = 1 /\ \A i \in 1..Len(<<x>>) : i = 1 /\ <<x>>[i] = x
  <1>1. Len(<<x>>) = 1 /\ <<x>>[1] = x
    OBVIOUS
  <1>2. <<x>> = Append(<<>>, x)
    OBVIOUS
  <1>3. <<x>> \in Seq(S)
    OBVIOUS
  <1> QED
    BY <1>1, <1>3

\* One line that is neither a kernel nor an initramfs.
LEMMA LineMade ==
    ASSUME NEW V, NEW args, NEW k \in {"set default", "submenu"}, NEW v \in V
    PROVE  <<GrubLine(k, v)>> \in Made(V, args)
  <1>1. PICK x : x = GrubLine(k, v)
    OBVIOUS
  <1>2. x \in LineSet(V, args) /\ x.kind # "linux" /\ x.kind # "initrd"
    BY <1>1 DEF GrubLine, LineSet, LineKinds
  <1>3. <<x>> \in Seq(LineSet(V, args)) /\ \A i \in 1..Len(<<x>>) : i = 1 /\ <<x>>[i] = x
    BY <1>2, Singleton
  <1>4. <<x>> \in Made(V, args)
    BY <1>2, <1>3 DEF Made
  <1> QED
    BY <1>1, <1>4

Vals(image) == {None, image.default} \cup UNION {{image.menu[i].entries[j].kernel : j \in DOMAIN image.menu[i].entries} : i \in DOMAIN image.menu}

LEMMA MenuMadeOf ==
    ASSUME NEW d \in Documents, NEW args
    PROVE  MenuOf(d.image, args) \in Made(Vals(d.image), args)
  <1> DEFINE image == d.image
             V == Vals(image)
             M == Made(V, args)
             items == [i \in DOMAIN image.menu |-> ItemLines(image.menu[i], args)]
  <1>0. /\ image.menu \in Seq({image.menu[i] : i \in DOMAIN image.menu}) /\ Len(image.menu) > 0
        /\ \A i \in DOMAIN image.menu :
              /\ image.menu[i].entries \in Seq({image.menu[i].entries[j] : j \in DOMAIN image.menu[i].entries})
              /\ Len(image.menu[i].entries) > 0
              /\ \A j \in DOMAIN image.menu[i].entries :
                    /\ image.menu[i].entries[j].initrd \in BOOLEAN
                    /\ image.menu[i].entries[j].initrd => image.menu[i].entries[j].kernel # None
    BY GrubAssumption
  <1>1. \A a, b \in M : a \o b \in M
    BY MadeConcat
  <1>2. None \in V /\ image.default \in V
    BY DEF Vals
  <1>3. ASSUME NEW i \in DOMAIN image.menu
        PROVE  ItemLines(image.menu[i], args) \in M
    <2> DEFINE entries == image.menu[i].entries
               lines == [j \in DOMAIN entries |-> EntryLines(entries[j], args)]
    <2>1. DOMAIN entries = 1..Len(entries) /\ Len(entries) \in Nat /\ Len(entries) > 0
      <3>1. PICK S : entries \in Seq(S) /\ Len(entries) > 0
        BY <1>0, <1>3
      <3> HIDE DEF entries
      <3> QED
        BY <3>1
    <2>2. \A j \in DOMAIN entries : EntryLines(entries[j], args) \in M
      <3>1. ASSUME NEW j \in DOMAIN entries
            PROVE  EntryLines(entries[j], args) \in M
        <4>1. entries[j].kernel \in V
          BY <1>3, <3>1 DEF Vals
        <4>2. entries[j].initrd \in BOOLEAN /\ (entries[j].initrd => entries[j].kernel # None)
          BY <1>0, <1>3, <3>1
        <4> HIDE DEF V, entries
        <4> QED
          BY <1>2, <4>1, <4>2, EntryMade
      <3> QED
        BY <3>1
    <2>3. DOMAIN lines = 1..Len(entries) /\ Len(lines) = Len(entries) /\ \A j \in 1..Len(entries) : lines[j] \in M
      <3> HIDE DEF M, entries
      <3> QED
        BY <2>1, <2>2
    <2>4. FlattenSeq(lines) \in M
      <3> HIDE DEF M, lines, entries
      <3> QED
        BY <1>1, <2>1, <2>3, FlattenKeeps
    <2>5. <<GrubLine("submenu", None)>> \o FlattenSeq(lines) \in M
      <3>1. <<GrubLine("submenu", None)>> \in M
        BY <1>2, LineMade
      <3> HIDE DEF M, lines
      <3> QED
        BY <1>1, <2>4, <3>1
    <2>6. EntryLines(entries[1], args) \in M
      BY <2>1, <2>2
    <2> QED
      BY <2>5, <2>6 DEF ItemLines
  <1>4. FlattenSeq(items) \in M
    <2>1. DOMAIN image.menu = 1..Len(image.menu) /\ Len(image.menu) \in Nat
      BY <1>0
    <2>2. Len(items) = Len(image.menu) /\ \A i \in 1..Len(items) : items[i] \in M
      <3> HIDE DEF M, image
      <3> QED
        BY <1>3, <2>1
    <2> HIDE DEF M, items, image
    <2> QED
      BY <1>0, <1>1, <2>1, <2>2, FlattenKeeps
  <1>5. <<GrubLine("set default", image.default)>> \in M
    BY <1>2, LineMade
  <1>6. MenuOf(image, args) = <<GrubLine("set default", image.default)>> \o FlattenSeq(items)
    BY DEF MenuOf
  <1> HIDE DEF M, items
  <1>7. MenuOf(image, args) \in M
    BY <1>1, <1>4, <1>5, <1>6
  <1> QED
    BY <1>7 DEF M

-----------------------------------------------------------------------------
(* What kexec reads in a menu.                                             *)

NothingRead == [configs |-> <<>>, cfg |-> NoConfig, in |-> FALSE, default |-> 0]

\* The reader is a function of the lines that were read.
LEMMA ParsedExists ==
    ASSUME NEW lines, Len(lines) \in Nat
    PROVE  \E p : p = [i \in 0..Len(lines) |-> IF i = 0 THEN NothingRead ELSE ParseLine(p[i - 1], lines[i])]
  <1> DEFINE Has(k) == \E p : p = [i \in 0..k |-> IF i = 0 THEN NothingRead ELSE ParseLine(p[i - 1], lines[i])]
             T == {k \in Nat : ~Has(k)}
  <1> SUFFICES ASSUME T # {} PROVE FALSE
    OBVIOUS
  <1>1. PICK k \in T : \A y \in T : k <= y
    <2>1. T \in SUBSET Nat
      OBVIOUS
    <2> HIDE DEF T
    <2> QED
      BY <2>1, LeastPlace
  <1>2. CASE k = 0
    <2>1. PICK f : f = [i \in 0..0 |-> NothingRead]
      OBVIOUS
    <2>2. \A i \in 0..0 : i = 0
      OBVIOUS
    <2>3. f = [i \in 0..0 |-> IF i = 0 THEN NothingRead ELSE ParseLine(f[i - 1], lines[i])]
      BY <2>1, <2>2
    <2> QED
      BY <1>1, <1>2, <2>3
  <1>3. CASE k # 0
    <2>1. k \in Nat /\ k - 1 \in Nat /\ ~(k <= k - 1)
      BY <1>1, <1>3
    <2>2. Has(k - 1)
      BY <1>1, <2>1
    <2>3. PICK f : f = [i \in 0..(k - 1) |-> IF i = 0 THEN NothingRead ELSE ParseLine(f[i - 1], lines[i])]
      BY <2>2
    <2>4. PICK e : e = ParseLine(f[k - 1], lines[k])
      OBVIOUS
    <2>5. PICK g : g = [i \in 0..k |-> IF i = k THEN e ELSE f[i]]
      OBVIOUS
    <2>6. DOMAIN g = 0..k /\ g[k] = e /\ \A i \in 0..(k - 1) : g[i] = f[i]
      BY <2>1, <2>5
    <2>7. \A i \in 0..(k - 1) : f[i] = IF i = 0 THEN NothingRead ELSE ParseLine(f[i - 1], lines[i])
      BY <2>3
    <2>8. \A i \in 0..k : g[i] = IF i = 0 THEN NothingRead ELSE ParseLine(g[i - 1], lines[i])
      <3>1. ASSUME NEW i \in 0..k
            PROVE  g[i] = IF i = 0 THEN NothingRead ELSE ParseLine(g[i - 1], lines[i])
        <4>1. CASE i = 0
          <5>1. 0 \in 0..(k - 1)
            BY <2>1
          <5>2. g[0] = NothingRead
            BY <2>6, <2>7, <5>1
          <5> QED
            BY <4>1, <5>2
        <4>2. CASE i # 0
          <5>1. i - 1 \in 0..(k - 1) /\ g[i-1] = f[i-1]
            BY <2>1, <2>6, <4>2, <3>1
          <5>2. CASE i = k
            <6>1. g[i] = e
              BY <2>6, <5>2
            <6>2. e = ParseLine(g[i - 1], lines[i])
              BY <2>4, <5>1, <5>2
            <6> QED
              BY <4>2, <6>1, <6>2
          <5>3. CASE i # k
            <6>1. i \in 0..(k - 1)
              BY <2>1, <3>1, <5>3
            <6>2. f[i] = ParseLine(f[i - 1], lines[i])
              BY <2>7, <4>2, <6>1
            <6>3. g[i] = f[i] /\ g[i-1] = f[i-1]
              BY <2>6, <5>1, <6>1
            <6> QED
              BY <4>2, <6>2, <6>3
          <5> QED
            BY <5>2, <5>3
        <4> QED
          BY <4>1, <4>2
      <3> QED
        BY <3>1
    <2>9. g = [i \in 0..k |-> IF i = 0 THEN NothingRead ELSE ParseLine(g[i - 1], lines[i])]
      BY <2>5, <2>8
    <2>10. Has(k)
      BY <2>9
    <2> QED
      BY <1>1, <2>10
  <1> QED
    BY <1>2, <1>3

LEMMA ParsedUnfolds ==
    ASSUME NEW lines, Len(lines) \in Nat
    PROVE  /\ Parsed(lines)[0] = NothingRead
           /\ \A i \in 1..Len(lines) : Parsed(lines)[i] = ParseLine(Parsed(lines)[i - 1], lines[i])
  <1> DEFINE f == CHOOSE p : p = [i \in 0..Len(lines) |-> IF i = 0 THEN NothingRead ELSE ParseLine(p[i - 1], lines[i])]
  <1>1. f = [i \in 0..Len(lines) |-> IF i = 0 THEN NothingRead ELSE ParseLine(f[i - 1], lines[i])]
    BY ParsedExists
  <1>2. Parsed(lines) = f
    BY DEF Parsed, NothingRead
  <1> HIDE DEF f
  <1>3. PICK e : e = f
    OBVIOUS
  <1>4. e = [i \in 0..Len(lines) |-> IF i = 0 THEN NothingRead ELSE ParseLine(e[i - 1], lines[i])]
    BY <1>1, <1>3
  <1>5. \A i \in 0..Len(lines) : e[i] = IF i = 0 THEN NothingRead ELSE ParseLine(e[i - 1], lines[i])
    BY <1>4
  <1>6. 0 \in 0..Len(lines) /\ \A i \in 1..Len(lines) : i \in 0..Len(lines) /\ i # 0
    OBVIOUS
  <1>7. e[0] = NothingRead /\ \A i \in 1..Len(lines) : e[i] = ParseLine(e[i - 1], lines[i])
    BY <1>5, <1>6
  <1> QED
    BY <1>2, <1>3, <1>7

\* The fields of what the reader holds.
Fields(p) ==
    /\ p = [configs |-> p.configs, cfg |-> p.cfg, in |-> p.in, default |-> p.default]
    /\ p.cfg = [kernel |-> p.cfg.kernel, initrd |-> p.cfg.initrd, args |-> p.cfg.args]

\* What one line makes of it.
Becomes(p, line, r) ==
    /\ Fields(r)
    /\ line.kind = "menuentry" => r.configs = Keep(p) /\ r.cfg = NoConfig /\ r.in = TRUE /\ r.default = p.default
    /\ line.kind = "linux" /\ p.in = TRUE =>
           /\ r.configs = p.configs /\ r.in = TRUE /\ r.default = p.default
           /\ r.cfg = [kernel |-> line.val, initrd |-> p.cfg.initrd, args |-> line.args]
    /\ line.kind = "initrd" /\ p.in = TRUE =>
           /\ r.configs = p.configs /\ r.in = TRUE /\ r.default = p.default
           /\ r.cfg = [kernel |-> p.cfg.kernel, initrd |-> line.val, args |-> p.cfg.args]
    /\ line.kind = "set default" =>
           r.configs = p.configs /\ r.in = p.in /\ r.cfg = p.cfg /\ r.default = ParseBase8(line.val)
    /\ line.kind \notin {"menuentry", "linux", "initrd", "set default"} => r = p

LEMMA ParseLineIs ==
    ASSUME NEW p, Fields(p), p.in \in BOOLEAN, NEW line, NEW r, r = ParseLine(p, line)
    PROVE  Becomes(p, line, r)
  <1>1. NoConfig = [kernel |-> NoConfig.kernel, initrd |-> NoConfig.initrd, args |-> NoConfig.args]
    BY DEF NoConfig
  <1>2. CASE line.kind = "set default"
    <2>1. r = [p EXCEPT !.default = ParseBase8(line.val)]
      BY <1>2 DEF ParseLine
    <2> QED
      BY <1>2, <2>1 DEF Fields, Becomes
  <1>3. CASE line.kind = "menuentry"
    <2>1. r = [p EXCEPT !.configs = Keep(p), !.cfg = NoConfig, !.in = TRUE]
      BY <1>3 DEF ParseLine
    <2> QED
      BY <1>1, <1>3, <2>1 DEF Fields, Becomes
  <1>4. CASE line.kind = "linux" /\ p.in = TRUE
    <2>1. r = [p EXCEPT !.cfg.kernel = line.val, !.cfg.args = line.args]
      BY <1>4 DEF ParseLine
    <2>2. PICK q : q = [kernel |-> line.val, initrd |-> p.cfg.initrd, args |-> line.args]
      OBVIOUS
    <2>3. [p.cfg EXCEPT !.kernel = line.val, !.args = line.args] = q
      <3>1. PICK c : c = p.cfg
        OBVIOUS
      <3>2. c = [kernel |-> c.kernel, initrd |-> c.initrd, args |-> c.args]
        BY <3>1 DEF Fields
      <3>3. PICK e : e = [c EXCEPT !.kernel = line.val]
        OBVIOUS
      <3>4. e = [kernel |-> line.val, initrd |-> c.initrd, args |-> c.args]
        BY <3>2, <3>3
      <3>5. [c EXCEPT !.kernel = line.val, !.args = line.args] = [e EXCEPT !.args = line.args]
        BY <3>3, <3>4
      <3>6. [e EXCEPT !.args = line.args] = [kernel |-> line.val, initrd |-> c.initrd, args |-> line.args]
        BY <3>4
      <3> QED
        BY <2>2, <3>1, <3>5, <3>6
    <2>4. r = [p EXCEPT !.cfg = q]
      BY <2>1, <2>3 DEF Fields
    <2>5. r = [configs |-> p.configs, cfg |-> q, in |-> p.in, default |-> p.default]
      BY <2>4 DEF Fields
    <2> QED
      BY <1>4, <2>2, <2>5 DEF Fields, Becomes
  <1>5. CASE line.kind = "initrd" /\ p.in = TRUE
    <2>1. r = [p EXCEPT !.cfg.initrd = line.val]
      BY <1>5 DEF ParseLine
    <2>2. PICK q : q = [kernel |-> p.cfg.kernel, initrd |-> line.val, args |-> p.cfg.args]
      OBVIOUS
    <2>3. [p.cfg EXCEPT !.initrd = line.val] = q
      BY <2>2 DEF Fields
    <2>4. r = [p EXCEPT !.cfg = q]
      BY <2>1, <2>3 DEF Fields
    <2>5. r = [configs |-> p.configs, cfg |-> q, in |-> p.in, default |-> p.default]
      BY <2>4 DEF Fields
    <2> QED
      BY <1>5, <2>2, <2>5 DEF Fields, Becomes
  <1>6. CASE line.kind \in {"linux", "initrd"} /\ p.in = FALSE
    <2>1. r = p
      BY <1>6 DEF ParseLine
    <2> QED
      BY <1>6, <2>1 DEF Becomes
  <1>7. CASE line.kind \notin {"menuentry", "linux", "initrd", "set default"}
    <2>1. r = p
      BY <1>7 DEF ParseLine
    <2> QED
      BY <1>7, <2>1 DEF Becomes
  <1> QED
    BY <1>2, <1>3, <1>4, <1>5, <1>6, <1>7

\* What kexec can boot: a kernel with its own initramfs and the command line.
Bootable(V, args) == {c \in [kernel : V, initrd : V, args : {args}] : c.kernel # None /\ c.initrd = c.kernel}

\* What the reader holds in a menu of ours, after the line `last'.
Reading(V, args, p) ==
    /\ Fields(p) /\ p.in \in BOOLEAN /\ p.configs \in Seq(Bootable(V, args))
    /\ p.cfg.kernel \in V /\ p.cfg.initrd \in V
    /\ p.cfg.kernel # None => p.cfg.args = args
    /\ p.cfg.initrd # None => p.cfg.initrd = p.cfg.kernel
ReadTo(p, last) ==
    /\ last.kind = "menuentry" => p.cfg = NoConfig /\ p.in = TRUE
    /\ last.kind = "linux" => p.cfg.kernel = last.val /\ p.cfg.initrd = None /\ p.in = TRUE

LEMMA KeepBoots ==
    ASSUME NEW V, NEW args, NEW p, Reading(V, args, p)
    PROVE  Keep(p) \in Seq(Bootable(V, args))
  <1>1. CASE p.cfg.kernel # None /\ p.cfg.initrd # None
    <2>1. PICK c : c = p.cfg
      OBVIOUS
    <2>2. c \in Bootable(V, args)
      <3>1. c = [kernel |-> c.kernel, initrd |-> c.initrd, args |-> c.args]
        BY <2>1 DEF Reading, Fields
      <3>2. c.kernel \in V /\ c.initrd \in V /\ c.args = args /\ c.kernel # None /\ c.initrd = c.kernel
        BY <1>1, <2>1 DEF Reading
      <3> QED
        BY <3>1, <3>2 DEF Bootable
    <2>3. PICK s : s = p.configs
      OBVIOUS
    <2>4. Append(s, c) \in Seq(Bootable(V, args))
      BY <2>2, <2>3 DEF Reading
    <2> QED
      BY <1>1, <2>1, <2>3, <2>4 DEF Keep
  <1>2. CASE ~(p.cfg.kernel # None /\ p.cfg.initrd # None)
    BY <1>2 DEF Keep, Reading
  <1> QED
    BY <1>1, <1>2

\* One more line of a menu, which follows `last'.
LEMMA ReadingStep ==
    ASSUME NEW V, None \in V, NEW args, NEW p, Reading(V, args, p), NEW line \in LineSet(V, args),
           line.kind = "linux" => p.cfg = NoConfig /\ p.in = TRUE /\ line.args = args,
           line.kind = "initrd" => p.cfg.kernel = line.val /\ p.cfg.initrd = None /\ p.in = TRUE,
           NEW r, r = ParseLine(p, line)
    PROVE  Reading(V, args, r) /\ ReadTo(r, line)
  <1>1. Fields(p) /\ p.in \in BOOLEAN /\ line.val \in V
    BY DEF Reading, LineSet
  <1>2. Becomes(p, line, r) /\ Fields(r)
    <2>1. Becomes(p, line, r)
      BY <1>1, ParseLineIs
    <2> QED
      BY <2>1 DEF Becomes
  <1>3. CASE line.kind = "menuentry"
    <2>1. r.configs = Keep(p) /\ r.cfg = NoConfig /\ r.in = TRUE
      BY <1>2, <1>3 DEF Becomes
    <2>2. r.cfg.kernel = None /\ r.cfg.initrd = None
      BY <2>1 DEF NoConfig
    <2> QED
      BY <1>2, <1>3, <2>1, <2>2, KeepBoots DEF Reading, ReadTo
  <1>4. CASE line.kind = "linux"
    <2>1. r.configs = p.configs /\ r.in = TRUE /\ r.cfg = [kernel |-> line.val, initrd |-> p.cfg.initrd, args |-> line.args]
      BY <1>2, <1>4 DEF Becomes
    <2>2. p.cfg.initrd = None
      BY <1>4 DEF NoConfig
    <2>3. r.cfg.kernel = line.val /\ r.cfg.initrd = None /\ r.cfg.args = args /\ r.in = TRUE
      BY <1>4, <2>1, <2>2
    <2> QED
      BY <1>1, <1>2, <1>4, <2>1, <2>3 DEF Reading, ReadTo
  <1>5. CASE line.kind = "initrd"
    <2>1. r.configs = p.configs /\ r.in = TRUE /\ r.cfg = [kernel |-> p.cfg.kernel, initrd |-> line.val, args |-> p.cfg.args]
      BY <1>2, <1>5 DEF Becomes
    <2>2. r.cfg.kernel = line.val /\ r.cfg.initrd = line.val /\ r.cfg.args = p.cfg.args /\ p.cfg.kernel = line.val
      BY <1>5, <2>1
    <2> QED
      BY <1>1, <1>2, <1>5, <2>1, <2>2 DEF Reading, ReadTo
  <1>6. CASE line.kind = "set default"
    <2>1. r.configs = p.configs /\ r.in = p.in /\ r.cfg = p.cfg
      BY <1>2, <1>6 DEF Becomes
    <2> QED
      BY <1>2, <1>6, <2>1 DEF Reading, ReadTo
  <1>7. CASE line.kind \notin {"menuentry", "linux", "initrd", "set default"}
    <2>1. r = p
      BY <1>2, <1>7 DEF Becomes
    <2> QED
      BY <1>7, <2>1 DEF Reading, ReadTo
  <1> QED
    BY <1>3, <1>4, <1>5, <1>6, <1>7

\* kexec finds nothing in a menu but kernels with their own initramfs.
LEMMA MadeBoots ==
    ASSUME NEW V, None \in V, NEW args, NEW l \in Made(V, args)
    PROVE  GetDefaultConfig(l) \in {None} \cup Bootable(V, args)
  <1>1. /\ l \in Seq(LineSet(V, args)) /\ Len(l) \in Nat
        /\ \A i \in 1..Len(l) :
              /\ l[i] \in LineSet(V, args)
              /\ l[i].kind = "linux" => i > 1 /\ l[i-1].kind = "menuentry" /\ l[i].args = args
              /\ l[i].kind = "initrd" => i > 1 /\ l[i-1].kind = "linux" /\ l[i-1].val = l[i].val
    BY DEF Made
  <1>2. PICK p : p = Parsed(l)
    OBVIOUS
  <1>3. p[0] = NothingRead /\ \A i \in 1..Len(l) : p[i] = ParseLine(p[i - 1], l[i])
    BY <1>1, <1>2, ParsedUnfolds
  <1> DEFINE T == {i \in 0..Len(l) : ~(Reading(V, args, p[i]) /\ (i > 0 => ReadTo(p[i], l[i])))}
  <1>4. T = {}
    <2> SUFFICES ASSUME T # {} PROVE FALSE
      OBVIOUS
    <2>1. T \in SUBSET Nat
      BY <1>1
    <2>2. PICK k \in T : \A y \in T : k <= y
      <3> HIDE DEF T
      <3> QED
        BY <2>1, LeastPlace
    <2>3. k \in 0..Len(l) /\ ~(Reading(V, args, p[k]) /\ (k > 0 => ReadTo(p[k], l[k])))
      BY <2>2
    <2>4. CASE k = 0
      <3>1. Reading(V, args, NothingRead)
        BY DEF Reading, NothingRead, Fields, NoConfig
      <3> QED
        BY <1>3, <2>3, <2>4, <3>1
    <2>5. CASE k # 0
      <3>1. k \in 1..Len(l) /\ k - 1 \in 0..Len(l) /\ ~(k <= k - 1)
        BY <1>1, <2>3, <2>5
      <3>2. Reading(V, args, p[k-1]) /\ (k - 1 > 0 => ReadTo(p[k-1], l[k-1]))
        BY <2>2, <3>1
      <3>3. p[k] = ParseLine(p[k-1], l[k]) /\ l[k] \in LineSet(V, args)
        BY <1>1, <1>3, <3>1
      <3>4. l[k].kind = "linux" => p[k-1].cfg = NoConfig /\ p[k-1].in = TRUE /\ l[k].args = args
        BY <1>1, <3>1, <3>2 DEF ReadTo
      <3>5. l[k].kind = "initrd" => p[k-1].cfg.kernel = l[k].val /\ p[k-1].cfg.initrd = None /\ p[k-1].in = TRUE
        BY <1>1, <3>1, <3>2 DEF ReadTo
      <3>6. Reading(V, args, p[k]) /\ ReadTo(p[k], l[k])
        BY <3>2, <3>3, <3>4, <3>5, ReadingStep
      <3> QED
        BY <2>3, <3>6
    <2> QED
      BY <2>4, <2>5
  <1>5. Reading(V, args, p[Len(l)])
    <2>1. Len(l) \in 0..Len(l)
      BY <1>1
    <2> QED
      BY <1>4, <2>1
  <1>6. PICK c : c = Keep(p[Len(l)])
    OBVIOUS
  <1>7. c \in Seq(Bootable(V, args))
    BY <1>5, <1>6, KeepBoots
  <1>8. ParseGrubCfg(l).configs = c
    BY <1>2, <1>6 DEF ParseGrubCfg
  <1>9. PICK j : j = ParseGrubCfg(l).default + 1
    OBVIOUS
  <1>10. GetDefaultConfig(l) = IF j \in DOMAIN c THEN c[j] ELSE None
    BY <1>8, <1>9 DEF GetDefaultConfig
  <1> QED
    BY <1>7, <1>10

-----------------------------------------------------------------------------
(* The menus that kexec reads as grub does.                                *)

\* Sequences of three, one behind the other.
LEMMA FlattenThree ==
    ASSUME NEW S, NEW seqs, Len(seqs) \in Nat, Len(seqs) # 0,
           \A i \in 1..Len(seqs) : seqs[i] \in Seq(S) /\ Len(seqs[i]) = 3
    PROVE  LET f == FlattenSeq(seqs)
           IN /\ f \in Seq(S) /\ Len(f) = 3 * Len(seqs)
              /\ \A i \in 1..Len(seqs), k \in 1..3 : f[3 * i - 3 + k] = seqs[i][k]
  <1>1. PICK f : /\ FlattenSeq(seqs) = f[Len(seqs)] /\ f[1] = seqs[1]
                 /\ \A i \in 2..Len(seqs) : f[i] = f[i-1] \o seqs[i]
    BY FlattenUnfolds
  <1> DEFINE P(j) == /\ f[j] \in Seq(S) /\ Len(f[j]) = 3 * j
                     /\ \A i \in 1..j, k \in 1..3 : f[j][3 * i - 3 + k] = seqs[i][k]
             T == {j \in 1..Len(seqs) : ~P(j)}
  <1>2. T = {}
    <2> SUFFICES ASSUME T # {} PROVE FALSE
      OBVIOUS
    <2>1. T \in SUBSET Nat
      OBVIOUS
    <2>2. PICK m \in T : \A y \in T : m <= y
      <3> HIDE DEF T
      <3> QED
        BY <2>1, LeastPlace
    <2>3. m \in 1..Len(seqs) /\ ~P(m)
      BY <2>2
    <2>4. CASE m = 1
      <3>1. seqs[1] \in Seq(S) /\ Len(seqs[1]) = 3
        BY <2>3, <2>4
      <3>2. \A i \in 1..1, k \in 1..3 : seqs[1][3 * i - 3 + k] = seqs[i][k]
        <4>1. ASSUME NEW i \in 1..1, NEW k \in 1..3
              PROVE  3 * i - 3 + k = k /\ i = 1
          OBVIOUS
        <4> QED
          BY <4>1
      <3>3. P(1)
        BY <1>1, <3>1, <3>2
      <3> QED
        BY <2>3, <2>4, <3>3
    <2>5. CASE m # 1
      <3>1. m - 1 \in 1..Len(seqs) /\ m \in 2..Len(seqs) /\ ~(m <= m - 1)
        BY <2>3, <2>5
      <3>2. P(m - 1)
        BY <2>2, <3>1
      <3>3. PICK a : a = f[m - 1]
        OBVIOUS
      <3>4. PICK b : b = seqs[m]
        OBVIOUS
      <3>5. /\ a \in Seq(S) /\ Len(a) = 3 * (m - 1) /\ b \in Seq(S) /\ Len(b) = 3
            /\ \A i \in 1..(m - 1), k \in 1..3 : a[3 * i - 3 + k] = seqs[i][k]
        BY <2>3, <3>2, <3>3, <3>4
      <3>6. PICK c : c = a \o b
        OBVIOUS
      <3>7. f[m] = c
        BY <1>1, <3>1, <3>3, <3>4, <3>6
      <3>8. /\ c \in Seq(S) /\ Len(c) = Len(a) + Len(b)
            /\ \A i \in 1..(Len(a) + Len(b)) : c[i] = IF i <= Len(a) THEN a[i] ELSE b[i - Len(a)]
        <4>1. /\ a \o b \in Seq(S) /\ Len(a \o b) = Len(a) + Len(b)
              /\ \A i \in 1..(Len(a) + Len(b)) : (a \o b)[i] = IF i <= Len(a) THEN a[i] ELSE b[i - Len(a)]
          <5>1. a \in Seq(S) /\ b \in Seq(S)
            BY <3>5
          <5> QED
            BY <5>1, ConcatProperties
        <4> QED
          BY <3>6, <4>1
      <3>9. c \in Seq(S) /\ Len(c) = 3 * m
        BY <3>1, <3>5, <3>8
      <3>10. ASSUME NEW i \in 1..m, NEW k \in 1..3
             PROVE  c[3 * i - 3 + k] = seqs[i][k]
        <4>1. PICK x : x = 3 * i - 3 + k
          OBVIOUS
        <4>2. x \in 1..(Len(a) + Len(b))
          BY <3>1, <3>5, <3>10, <4>1
        <4>3. CASE i = m
          <5>1. ~(x <= Len(a)) /\ x - Len(a) = k
            BY <3>1, <3>5, <4>1, <4>3
          <5> QED
            BY <3>4, <3>8, <4>1, <4>2, <4>3, <5>1
        <4>4. CASE i # m
          <5>1. x <= Len(a) /\ i \in 1..(m - 1)
            BY <3>1, <3>5, <3>10, <4>1, <4>4
          <5>2. a[x] = seqs[i][k]
            BY <3>5, <4>1, <5>1
          <5> QED
            BY <3>8, <4>1, <4>2, <5>1, <5>2
        <4> QED
          BY <4>3, <4>4
      <3>11. P(m)
        BY <3>7, <3>9, <3>10
      <3> QED
        BY <2>3, <3>11
    <2> QED
      BY <2>4, <2>5
  <1>3. P(Len(seqs))
    BY <1>2
  <1> HIDE DEF P, T
  <1>4. PICK g : g = FlattenSeq(seqs)
    OBVIOUS
  <1>5. g \in Seq(S) /\ Len(g) = 3 * Len(seqs) /\ \A i \in 1..Len(seqs), k \in 1..3 : g[3 * i - 3 + k] = seqs[i][k]
    BY <1>1, <1>3, <1>4 DEF P
  <1> QED
    BY <1>4, <1>5

\* Such a menu has three lines for each item.
PlainShape(l, args) ==
    LET image == doc.image
    IN /\ DOMAIN image.menu = 1..Len(image.menu) /\ Len(image.menu) \in Nat /\ Len(image.menu) > 0
       /\ Len(l) = 3 * Len(image.menu) + 1
       /\ l[1] = GrubLine("set default", image.default)
       /\ \A i \in 1..Len(image.menu) :
             LET kernel == image.menu[i].entries[1].kernel
             IN /\ kernel # None
                /\ l[3 * i - 1].kind = "menuentry"
                /\ l[3 * i].kind = "linux" /\ l[3 * i].val = kernel /\ l[3 * i].args = args
                /\ l[3 * i + 1].kind = "initrd" /\ l[3 * i + 1].val = kernel

LEMMA PlainLines ==
    ASSUME doc \in Documents, PlainMenu, NEW args
    PROVE  PlainShape(MenuOf(doc.image, args), args)
  <1> DEFINE image == doc.image
             V == Vals(image)
             S == LineSet(V, args)
             entry(i) == image.menu[i].entries[1]
             items == [i \in DOMAIN image.menu |-> ItemLines(image.menu[i], args)]
  <1>1. PICK L : L = Len(image.menu)
    OBVIOUS
  <1>2. /\ image.menu \in Seq({image.menu[i] : i \in DOMAIN image.menu}) /\ Len(image.menu) > 0
        /\ \A i \in DOMAIN image.menu :
              /\ image.menu[i].entries \in Seq({image.menu[i].entries[j] : j \in DOMAIN image.menu[i].entries})
              /\ Len(image.menu[i].entries) > 0
              /\ \A j \in DOMAIN image.menu[i].entries : image.menu[i].entries[j].initrd \in BOOLEAN
    BY GrubAssumption
  <1>3. DOMAIN image.menu = 1..L /\ L \in Nat /\ L > 0
    <2> HIDE DEF image
    <2> QED
      BY <1>2, <1>1
  <1>4. ASSUME NEW i \in 1..L
        PROVE  /\ ~image.menu[i].submenu /\ entry(i).kernel # None /\ entry(i).initrd
               /\ entry(i).kernel \in V /\ entry(i).initrd \in BOOLEAN
    <2>1. i \in DOMAIN image.menu
      BY <1>3
    <2>2. ~image.menu[i].submenu /\ entry(i).kernel # None /\ entry(i).initrd
      BY <2>1 DEF PlainMenu
    <2>3. 1 \in DOMAIN image.menu[i].entries
      <3>1. PICK s, M : s = image.menu[i].entries /\ s \in Seq(M) /\ Len(s) > 0
        BY <1>2, <2>1
      <3>2. 1 \in DOMAIN s
        BY <3>1
      <3> QED
        BY <3>1, <3>2
    <2>4. entry(i).initrd \in BOOLEAN
      BY <1>2, <2>1, <2>3
    <2>5. entry(i).kernel \in V
      BY <2>1, <2>3 DEF Vals
    <2> QED
      BY <2>2, <2>4, <2>5
  <1>5. None \in V
    BY DEF Vals
  <1>6. ASSUME NEW i \in 1..L
        PROVE  /\ items[i] \in Seq(S) /\ Len(items[i]) = 3 /\ items[i][1].kind = "menuentry"
               /\ items[i][2].kind = "linux" /\ items[i][2].val = entry(i).kernel /\ items[i][2].args = args
               /\ items[i][3].kind = "initrd" /\ items[i][3].val = entry(i).kernel
    <2>1. items[i] = EntryLines(entry(i), args)
      BY <1>3, <1>4, <1>6 DEF ItemLines
    <2>2. PICK e : e = entry(i)
      OBVIOUS
    <2>3. e.kernel # None /\ e.initrd /\ e.kernel \in V /\ e.initrd \in BOOLEAN
      BY <1>4, <2>2
    <2>4. PICK x : x = EntryLines(e, args)
      OBVIOUS
    <2> HIDE DEF V, entry, items
    <2>5. /\ x \in Seq(LineSet(V, args)) /\ Len(x) = 3 /\ x[1].kind = "menuentry"
          /\ x[2].kind = "linux" /\ x[2].val = e.kernel /\ x[2].args = args
          /\ x[3].kind = "initrd" /\ x[3].val = e.kernel
      <3>1. PICK W : W = V
        OBVIOUS
      <3>2. None \in W /\ e.kernel \in W /\ e.initrd \in BOOLEAN /\ (e.initrd => e.kernel # None)
        BY <1>5, <2>3, <3>1
      <3>3. /\ x \in Seq(LineSet(W, args)) /\ Len(x) = (IF e.initrd THEN 3 ELSE 2)
            /\ x[1].kind = "menuentry"
            /\ IF e.kernel = None THEN x[2].kind = "other" ELSE x[2].kind = "linux" /\ x[2].val = e.kernel /\ x[2].args = args
            /\ e.initrd => x[3].kind = "initrd" /\ x[3].val = e.kernel
        BY <2>4, <3>2, EntryShape
      <3> QED
        BY <2>3, <3>1, <3>3
    <2> QED
      BY <2>1, <2>2, <2>4, <2>5
  <1>7. DOMAIN items = 1..L /\ Len(items) = L
    <2> HIDE DEF image
    <2> QED
      BY <1>3
  <1>8. PICK f : f = FlattenSeq(items)
    OBVIOUS
  <1>9. /\ f \in Seq(S) /\ Len(f) = 3 * L
        /\ \A i \in 1..L, k \in 1..3 : f[3 * i - 3 + k] = items[i][k]
    <2> HIDE DEF S, items, entry
    <2>1. L # 0
      BY <1>3
    <2>2. \A i \in 1..Len(items) : items[i] \in Seq(S) /\ Len(items[i]) = 3
      BY <1>6, <1>7
    <2>3. PICK q : q = items
      OBVIOUS
    <2>4. Len(q) \in Nat /\ Len(q) # 0 /\ \A i \in 1..Len(q) : q[i] \in Seq(S) /\ Len(q[i]) = 3
      BY <1>3, <1>7, <2>1, <2>2, <2>3
    <2>5. /\ FlattenSeq(q) \in Seq(S) /\ Len(FlattenSeq(q)) = 3 * Len(q)
          /\ \A i \in 1..Len(q), k \in 1..3 : FlattenSeq(q)[3 * i - 3 + k] = q[i][k]
      BY <2>4, FlattenThree
    <2> QED
      BY <1>7, <1>8, <2>3, <2>5
  <1>10. PICK h : h = GrubLine("set default", image.default)
    OBVIOUS
  <1>11. h \in S
    BY <1>10 DEF GrubLine, LineSet, LineKinds, Vals
  <1>12. PICK l : l = <<h>> \o f
    OBVIOUS
  <1>13. MenuOf(image, args) = l
    BY <1>8, <1>10, <1>12 DEF MenuOf
  <1>14. /\ Len(l) = 3 * L + 1 /\ l[1] = h
         /\ \A x \in 2..(3 * L + 1) : l[x] = f[x - 1]
    <2> HIDE DEF S
    <2>1. PICK a : a = <<h>>
      OBVIOUS
    <2>2. a \in Seq(S) /\ Len(a) = 1 /\ a[1] = h
      <3>1. 1 \in 1..Len(<<h>>)
        BY <1>11, Singleton
      <3> QED
        BY <1>11, <2>1, <3>1, Singleton
    <2>3. f \in Seq(S)
      BY <1>9
    <2>4. /\ Len(a \o f) = Len(a) + Len(f)
          /\ \A i \in 1..(Len(a) + Len(f)) : (a \o f)[i] = IF i <= Len(a) THEN a[i] ELSE f[i - Len(a)]
      BY <2>2, <2>3, ConcatProperties
    <2>5. l = a \o f /\ Len(a) = 1 /\ Len(f) = 3 * L
      BY <1>9, <1>12, <2>1, <2>2
    <2> QED
      BY <1>3, <2>2, <2>4, <2>5
  <1>15. ASSUME NEW i \in 1..L
         PROVE  l[3 * i - 1] = items[i][1] /\ l[3 * i] = items[i][2] /\ l[3 * i + 1] = items[i][3]
    <2> HIDE DEF items, entry, S
    <2>1. /\ 3 * i - 1 \in 2..(3 * L + 1) /\ 3 * i \in 2..(3 * L + 1) /\ 3 * i + 1 \in 2..(3 * L + 1)
          /\ (3 * i - 1) - 1 = 3 * i - 3 + 1 /\ (3 * i) - 1 = 3 * i - 3 + 2 /\ (3 * i + 1) - 1 = 3 * i - 3 + 3
      BY <1>3
    <2>2. f[3 * i - 3 + 1] = items[i][1] /\ f[3 * i - 3 + 2] = items[i][2] /\ f[3 * i - 3 + 3] = items[i][3]
      BY <1>9
    <2> QED
      BY <1>14, <2>1, <2>2
  <1> HIDE DEF items, S, V
  <1>16. ASSUME NEW i \in 1..L
         PROVE  /\ entry(i).kernel # None /\ l[3 * i - 1].kind = "menuentry"
                /\ l[3 * i].kind = "linux" /\ l[3 * i].val = entry(i).kernel /\ l[3 * i].args = args
                /\ l[3 * i + 1].kind = "initrd" /\ l[3 * i + 1].val = entry(i).kernel
    BY <1>4, <1>6, <1>15
  <1> QED
    BY <1>1, <1>3, <1>10, <1>13, <1>14, <1>16 DEF PlainShape

\* Three lines of an item add its kernel to what is kept.
LEMMA ReadItem ==
    ASSUME NEW s0, NEW s1, NEW s2, NEW s3, NEW a, NEW b, NEW c, NEW S, NEW kernel, NEW args,
           Fields(s0), s0.in \in BOOLEAN, Keep(s0) \in Seq(S), kernel # None,
           s1 = ParseLine(s0, a), a.kind = "menuentry",
           s2 = ParseLine(s1, b), b.kind = "linux", b.val = kernel, b.args = args,
           s3 = ParseLine(s2, c), c.kind = "initrd", c.val = kernel
    PROVE  /\ Fields(s3) /\ s3.in \in BOOLEAN /\ s3.default = s0.default
           /\ Keep(s3) = Append(Keep(s0), [kernel |-> kernel, initrd |-> kernel, args |-> args])
  <1>1. Fields(s1) /\ s1.configs = Keep(s0) /\ s1.cfg = NoConfig /\ s1.in = TRUE /\ s1.default = s0.default
    <2>1. Becomes(s0, a, s1)
      BY ParseLineIs
    <2> QED
      BY <2>1 DEF Becomes
  <1>2. /\ Fields(s2) /\ s2.configs = Keep(s0) /\ s2.in = TRUE /\ s2.default = s0.default
        /\ s2.cfg = [kernel |-> kernel, initrd |-> None, args |-> args]
    <2>1. Becomes(s1, b, s2)
      BY <1>1, ParseLineIs
    <2>2. s1.cfg.initrd = None
      BY <1>1 DEF NoConfig
    <2> QED
      BY <1>1, <2>1, <2>2 DEF Becomes
  <1>3. /\ Fields(s3) /\ s3.configs = Keep(s0) /\ s3.in = TRUE /\ s3.default = s0.default
        /\ s3.cfg = [kernel |-> kernel, initrd |-> kernel, args |-> args]
    <2>1. Becomes(s2, c, s3)
      BY <1>2, ParseLineIs
    <2>2. s2.cfg.kernel = kernel /\ s2.cfg.args = args
      BY <1>2
    <2> QED
      BY <1>2, <2>1, <2>2 DEF Becomes
  <1>4. s3.cfg.kernel # None /\ s3.cfg.initrd # None
    BY <1>3
  <1> QED
    BY <1>3, <1>4 DEF Keep

\* A digit that is read in base 8.
LEMMA Digit == \A v \in 0..7 : v % 10 = v /\ v \div 10 = 0
  OBVIOUS

LEMMA PlainBoots ==
    ASSUME doc \in Documents, PlainMenu, NEW args, NEW c, c = GetDefaultConfig(MenuOf(doc.image, args))
    PROVE  c = [kernel |-> GrubDefault.kernel, initrd |-> GrubDefault.kernel, args |-> args] /\ GrubDefault.kernel # None
  <1> DEFINE image == doc.image
             K(i) == image.menu[i].entries[1].kernel
             C(i) == [kernel |-> K(i), initrd |-> K(i), args |-> args]
             S == {C(i) : i \in 1..Len(image.menu)}
  <1>1. PICK l : l = MenuOf(image, args)
    OBVIOUS
  <1>2. PICK L : L = Len(image.menu)
    OBVIOUS
  <1>3. /\ DOMAIN image.menu = 1..L /\ L \in Nat /\ L > 0 /\ Len(l) = 3 * L + 1
        /\ l[1] = GrubLine("set default", image.default)
        /\ \A i \in 1..L :
              /\ K(i) # None /\ l[3 * i - 1].kind = "menuentry"
              /\ l[3 * i].kind = "linux" /\ l[3 * i].val = K(i) /\ l[3 * i].args = args
              /\ l[3 * i + 1].kind = "initrd" /\ l[3 * i + 1].val = K(i)
    <2>1. PlainShape(l, args)
      BY <1>1, PlainLines
    <2> QED
      BY <1>2, <2>1 DEF PlainShape
  <1>4. L \in Nat /\ L > 0
    BY <1>3
  <1>5. DOMAIN image.menu = 1..L
    BY <1>3
  <1>6. Len(l) = 3 * L + 1
    BY <1>3
  <1>7. l[1] = GrubLine("set default", image.default)
    BY <1>3
  <1>8. PICK p : p = Parsed(l)
    OBVIOUS
  <1>9. p[0] = NothingRead /\ \A i \in 1..(3 * L + 1) : p[i] = ParseLine(p[i - 1], l[i])
    <2>1. Len(l) \in Nat /\ Len(l) = 3 * L + 1
      BY <1>4, <1>6
    <2> QED
      BY <1>8, <2>1, ParsedUnfolds
  <1>10. PICK D : D = ParseBase8(image.default)
    OBVIOUS
  <1> DEFINE Q(j) == LET s == p[3 * j + 1]
                     IN /\ Fields(s) /\ s.in \in BOOLEAN /\ s.default = D
                        /\ Keep(s) \in Seq(S) /\ Len(Keep(s)) = j /\ \A i \in 1..j : Keep(s)[i] = C(i)
             T == {j \in 0..L : ~Q(j)}
  <1>11. Q(0)
    <2>1. PICK s : s = p[1]
      OBVIOUS
    <2>2. s = ParseLine(NothingRead, l[1])
      <3>1. 1 \in 1..(3 * L + 1) /\ 1 - 1 = 0
        BY <1>4
      <3> QED
        BY <1>9, <2>1, <3>1
    <2>3. Fields(NothingRead) /\ NothingRead.in = FALSE /\ NothingRead.configs = <<>> /\ NothingRead.cfg = NoConfig
      BY DEF NothingRead, Fields, NoConfig
    <2>4. Becomes(NothingRead, l[1], s)
      BY <2>2, <2>3, ParseLineIs
    <2>5. l[1].kind = "set default" /\ l[1].val = image.default
      <3>1. PICK h : h = GrubLine("set default", image.default)
        OBVIOUS
      <3>2. h.kind = "set default" /\ h.val = image.default
        BY <3>1 DEF GrubLine
      <3> QED
        BY <1>7, <3>1, <3>2
    <2>6. Fields(s) /\ s.in = FALSE /\ s.default = D /\ s.configs = <<>> /\ s.cfg = NoConfig
      BY <1>10, <2>3, <2>4, <2>5 DEF Becomes
    <2>7. Keep(s) = <<>>
      BY <2>6 DEF Keep, NoConfig
    <2>8. \A i \in 1..0 : FALSE
      OBVIOUS
    <2> HIDE DEF S, C
    <2>9. <<>> \in Seq(S) /\ Len(<<>>) = 0
      OBVIOUS
    <2>10. PICK i : i = 3 * 0 + 1
      OBVIOUS
    <2>11. p[i] = s
      BY <2>1, <2>10
    <2> QED
      BY <2>6, <2>7, <2>8, <2>9, <2>10, <2>11
  <1>12. ASSUME NEW j \in 1..L, Q(j - 1)
        PROVE  Q(j)
    <2>1. PICK s0 : s0 = p[3 * (j - 1) + 1]
      OBVIOUS
    <2>2. PICK s1 : s1 = p[3 * j - 1]
      OBVIOUS
    <2>3. PICK s2 : s2 = p[3 * j]
      OBVIOUS
    <2>4. PICK s3 : s3 = p[3 * j + 1]
      OBVIOUS
    <2>5. /\ s1 = ParseLine(s0, l[3 * j - 1]) /\ s2 = ParseLine(s1, l[3 * j]) /\ s3 = ParseLine(s2, l[3 * j + 1])
      <3>1. /\ 3 * j - 1 \in 1..(3 * L + 1) /\ 3 * j \in 1..(3 * L + 1) /\ 3 * j + 1 \in 1..(3 * L + 1)
            /\ (3 * j - 1) - 1 = 3 * (j - 1) + 1 /\ (3 * j + 1) - 1 = 3 * j
        BY <1>4
      <3> QED
        BY <1>9, <2>1, <2>2, <2>3, <2>4, <3>1
    <2>6. PICK k : k = Keep(s0)
      OBVIOUS
    <2>7. /\ Fields(s0) /\ s0.in \in BOOLEAN /\ s0.default = D
          /\ k \in Seq(S) /\ Len(k) = j - 1 /\ \A i \in 1..(j - 1) : k[i] = C(i)
      <3> HIDE DEF S, C
      <3> QED
        BY <1>12, <2>1, <2>6
    <2>8. PICK e : e = C(j)
      OBVIOUS
    <2>9. e \in S
      BY <1>2, <2>8
    <2>10. /\ Fields(s3) /\ s3.in \in BOOLEAN /\ s3.default = D /\ Keep(s3) = Append(k, e)
      <3>1. /\ K(j) # None /\ l[3 * j - 1].kind = "menuentry"
            /\ l[3 * j].kind = "linux" /\ l[3 * j].val = K(j) /\ l[3 * j].args = args
            /\ l[3 * j + 1].kind = "initrd" /\ l[3 * j + 1].val = K(j)
        BY <1>3
      <3>2. PICK v : v = K(j)
        OBVIOUS
      <3>3. e = [kernel |-> v, initrd |-> v, args |-> args]
        BY <2>8, <3>2
      <3>4. Fields(s0) /\ s0.in \in BOOLEAN /\ s0.default = D /\ Keep(s0) \in Seq(S)
        BY <2>6, <2>7
      <3> HIDE DEF S, K
      <3> QED
        BY <2>5, <2>6, <3>1, <3>2, <3>3, <3>4, ReadItem
    <2> HIDE DEF S
    <2>11. PICK q : q = Append(k, e)
      OBVIOUS
    <2>12. q \in Seq(S) /\ Len(q) = j /\ q[j] = e /\ \A i \in 1..(j - 1) : q[i] = k[i]
      BY <2>7, <2>9, <2>11
    <2> HIDE DEF C
    <2>13. \A i \in 1..j : q[i] = C(i)
      BY <2>7, <2>8, <2>12
    <2> QED
      BY <2>4, <2>10, <2>11, <2>12, <2>13
  <1>13. Q(L)
    <2>1. T = {}
      <3> SUFFICES ASSUME T # {} PROVE FALSE
        OBVIOUS
      <3>1. T \in SUBSET Nat
        BY <1>4
      <3>2. PICK m \in T : \A y \in T : m <= y
        <4> HIDE DEF T
        <4> QED
          BY <3>1, LeastPlace
      <3> HIDE DEF Q
      <3>3. m \in 0..L /\ ~Q(m)
        BY <3>2
      <3>4. m # 0
        BY <1>11, <3>3
      <3>5. m \in 1..L /\ m - 1 \in 0..L /\ ~(m <= m - 1)
        BY <1>4, <3>3, <3>4
      <3>6. Q(m - 1)
        BY <3>2, <3>5
      <3> QED
        BY <1>12, <3>3, <3>5, <3>6
    <2> HIDE DEF Q
    <2>2. L \in 0..L
      BY <1>4
    <2> QED
      BY <2>1, <2>2
  <1>14. PICK k : k = Keep(p[3 * L + 1])
    OBVIOUS
  <1>15. k \in Seq(S) /\ Len(k) = L /\ (\A i \in 1..L : k[i] = C(i)) /\ p[3 * L + 1].default = D
    <2> HIDE DEF S, C
    <2> QED
      BY <1>13, <1>14
  <1>16. ParseGrubCfg(l).configs = k /\ ParseGrubCfg(l).default = D
    BY <1>6, <1>8, <1>14, <1>15 DEF ParseGrubCfg
  <1>17. PICK x : x = D + 1
    OBVIOUS
  <1>18. c = IF x \in DOMAIN k THEN k[x] ELSE None
    BY <1>1, <1>16, <1>17 DEF GetDefaultConfig
  <1>19. x \in 1..L /\ GrubDefault = image.menu[x].entries[1]
    <2>1. CASE image.default = None
      <3>1. D = 0
        BY <1>10, <2>1 DEF ParseBase8
      <3>2. x = 1 /\ x \in 1..L
        BY <1>4, <1>17, <3>1
      <3> QED
        BY <2>1, <3>2 DEF GrubDefault
    <2>2. CASE image.default # None
      <3>1. image.default \in 0..7 /\ image.default < L
        <4>1. image.default \in Nat
          BY <2>2, GrubAssumption
        <4>2. image.default < 8 /\ image.default < L
          BY <1>2, <2>2 DEF PlainMenu
        <4> QED
          BY <4>1, <4>2
      <3>2. D = image.default
        <4>1. PICK v : v = image.default
          OBVIOUS
        <4>2. v \in 0..7 /\ v # None /\ v % 10 = v /\ v \div 10 = 0
          BY <2>2, <3>1, <4>1, Digit
        <4>3. ParseBase8(v) = v
          BY <4>2 DEF ParseBase8
        <4> QED
          BY <1>10, <4>1, <4>3
      <3>3. x \in 1..L /\ image.default + 1 = x
        <4> HIDE DEF image
        <4> QED
          BY <1>4, <1>17, <3>1, <3>2
      <3> QED
        BY <1>5, <2>2, <3>3 DEF GrubDefault
    <2> QED
      BY <2>1, <2>2
  <1>20. c = C(x)
    <2> HIDE DEF S, C
    <2> QED
      BY <1>15, <1>18, <1>19
  <1> QED
    BY <1>3, <1>19, <1>20

-----------------------------------------------------------------------------
(* The defaults and what grub.cfg is made of.                              *)

DefaultsLost == <<"defaults", "defaults">> \in scars
TornDefaults == [cmdline |-> <<>>, serial |-> None]
Rewritten == RewriteGrubDefaults(doc.image.defaults, doc.console)

\* What the file of the defaults has been so far.
DefaultsSeen ==
    {doc.image.defaults}
    \cup (IF doc.console # None /\ doc.image.defaults # None THEN {Rewritten} ELSE {})
    \cup (IF DefaultsLost THEN {TornDefaults} ELSE {})

DefaultsInv ==
    /\ defaults \in DefaultsSeen
    /\ DefaultsLost => doc.console # None /\ doc.image.defaults # None
    /\ status = "running" /\ Act.kind = "serial-console" /\ pc \in {"rewrite", "mkconfig"} =>
           doc.console # None /\ doc.image.defaults # None
    /\ doc.console # None /\ (Through("serial-console") # {} \/ Rewriting) =>
           doc.image.defaults # None /\ (~DefaultsLost => defaults = Rewritten)

\* A menu is made from defaults that there have been.
MenuFrom(lines) ==
    lines \in {None, <<>>} \cup {MenuOf(doc.image, Args(file)) : file \in DefaultsSeen}
MenusInv ==
    /\ MenuFrom(grubcfg.seen)
    /\ grubcfg.hidden \in {None, <<>>, <<GrubLine("set default", doc.image.default)>>}

\* What kexec has loaded is what its action finds.
BootInv ==
    /\ status = "running" /\ Act.kind = "kexec" /\ pc = "load" => BootConfig # None
    /\ booted # None => status = "booted" /\ Act.kind = "kexec" /\ booted = BootConfig /\ BootConfig # None

\* Rewriting twice is rewriting once.
LEMMA RewriteShape ==
    ASSUME NEW file, NEW console, NEW r, r = RewriteGrubDefaults(file, console),
           file = [cmdline |-> file.cmdline, serial |-> file.serial]
    PROVE  /\ r = [cmdline |-> r.cmdline, serial |-> r.serial]
           /\ r.cmdline = [i \in DOMAIN file.cmdline |->
                  IF IsSerial(file.cmdline[i][1]) THEN <<console.tty, Baud(console)>> ELSE file.cmdline[i]]
           /\ r.serial = IF file.serial = None THEN None ELSE <<TTYUnit(console.tty), Baud(console)>>
  <1>1. PICK c : c = [i \in DOMAIN file.cmdline |->
                  IF IsSerial(file.cmdline[i][1]) THEN <<console.tty, Baud(console)>> ELSE file.cmdline[i]]
    OBVIOUS
  <1>2. PICK e : e = IF file.serial = None THEN None ELSE <<TTYUnit(console.tty), Baud(console)>>
    OBVIOUS
  <1>3. r = [file EXCEPT !.cmdline = c, !.serial = e]
    BY <1>1, <1>2 DEF RewriteGrubDefaults
  <1>4. r = [cmdline |-> c, serial |-> e]
    BY <1>3
  <1> QED
    BY <1>1, <1>2, <1>4

LEMMA RewriteTwice ==
    ASSUME NEW file, NEW console, file = [cmdline |-> file.cmdline, serial |-> file.serial],
           NEW r, r = RewriteGrubDefaults(file, console),
           NEW s, s = RewriteGrubDefaults(r, console)
    PROVE  s = r
  <1> DEFINE asked == <<console.tty, Baud(console)>>
             port == <<TTYUnit(console.tty), Baud(console)>>
  <1>1. /\ r = [cmdline |-> r.cmdline, serial |-> r.serial]
        /\ r.cmdline = [i \in DOMAIN file.cmdline |-> IF IsSerial(file.cmdline[i][1]) THEN asked ELSE file.cmdline[i]]
        /\ r.serial = IF file.serial = None THEN None ELSE port
    BY RewriteShape
  <1>2. /\ s = [cmdline |-> s.cmdline, serial |-> s.serial]
        /\ s.cmdline = [i \in DOMAIN r.cmdline |-> IF IsSerial(r.cmdline[i][1]) THEN asked ELSE r.cmdline[i]]
        /\ s.serial = IF r.serial = None THEN None ELSE port
    BY <1>1, RewriteShape
  <1> HIDE DEF asked, port
  <1>3. PICK a : a = r.cmdline
    OBVIOUS
  <1>4. PICK b : b = s.cmdline
    OBVIOUS
  <1>5. a = [i \in DOMAIN a |-> a[i]]
    BY <1>1, <1>3
  <1>6. \A i \in DOMAIN a : IsSerial(a[i][1]) => a[i] = asked
    <2>1. PICK f : f = file.cmdline
      OBVIOUS
    <2>2. a = [i \in DOMAIN f |-> IF IsSerial(f[i][1]) THEN asked ELSE f[i]]
      BY <1>1, <1>3, <2>1
    <2> QED
      BY <2>2
  <1>7. b = [i \in DOMAIN a |-> IF IsSerial(a[i][1]) THEN asked ELSE a[i]]
    BY <1>2, <1>3, <1>4
  <1>8. b = [i \in DOMAIN a |-> a[i]]
    BY <1>6, <1>7
  <1>9. s.cmdline = r.cmdline
    BY <1>3, <1>4, <1>5, <1>8
  <1>10. s.serial = r.serial
    BY <1>1, <1>2
  <1> QED
    BY <1>1, <1>2, <1>9, <1>10

\* The rewritten defaults have the console that was asked for, where there was a serial one.
LEMMA RewrittenConsole ==
    ASSUME NEW file, NEW console, file = [cmdline |-> file.cmdline, serial |-> file.serial],
           NEW r, r = RewriteGrubDefaults(file, console)
    PROVE  /\ DOMAIN r.cmdline = DOMAIN file.cmdline
           /\ \A i \in DOMAIN r.cmdline : IsSerial(r.cmdline[i][1]) => r.cmdline[i] = <<console.tty, Baud(console)>>
           /\ \A i \in DOMAIN file.cmdline : IsSerial(file.cmdline[i][1]) => r.cmdline[i] = <<console.tty, Baud(console)>>
           /\ r.serial # None => r.serial = <<TTYUnit(console.tty), Baud(console)>>
  <1> DEFINE asked == <<console.tty, Baud(console)>>
             port == <<TTYUnit(console.tty), Baud(console)>>
  <1>1. /\ r.cmdline = [i \in DOMAIN file.cmdline |-> IF IsSerial(file.cmdline[i][1]) THEN asked ELSE file.cmdline[i]]
        /\ r.serial = IF file.serial = None THEN None ELSE port
    BY RewriteShape
  <1> HIDE DEF asked, port
  <1>2. PICK a : a = r.cmdline
    OBVIOUS
  <1>3. PICK f : f = file.cmdline
    OBVIOUS
  <1>4. a = [i \in DOMAIN f |-> IF IsSerial(f[i][1]) THEN asked ELSE f[i]]
    BY <1>1, <1>2, <1>3
  <1>5. /\ DOMAIN a = DOMAIN f /\ \A i \in DOMAIN a : IsSerial(a[i][1]) => a[i] = asked
        /\ \A i \in DOMAIN f : IsSerial(f[i][1]) => a[i] = asked
    BY <1>4
  <1> QED
    BY <1>1, <1>2, <1>3, <1>5 DEF asked, port

\* The image's own file.
LEMMA ImageDefaults ==
    ASSUME doc \in Documents, doc.image.defaults # None
    PROVE  /\ doc.image.defaults = [cmdline |-> doc.image.defaults.cmdline, serial |-> doc.image.defaults.serial]
           /\ doc.console # None => Rewritten # None
  <1>1. PICK d \in Documents : d = doc
    OBVIOUS
  <1>2. /\ d.image.defaults # None => d.image.defaults = [cmdline |-> d.image.defaults.cmdline, serial |-> d.image.defaults.serial]
        /\ d.image.defaults # None => (d.console # None => RewriteGrubDefaults(d.image.defaults, d.console) # None)
    BY GrubAssumption
  <1> QED
    BY <1>1, <1>2 DEF Rewritten

LEMMA TornStays ==
    ASSUME NEW console
    PROVE  RewriteGrubDefaults(TornDefaults, console) = TornDefaults
  <1>1. PICK t : t = TornDefaults
    OBVIOUS
  <1>2. t = [cmdline |-> t.cmdline, serial |-> t.serial] /\ t.cmdline = <<>> /\ t.serial = None
    BY <1>1 DEF TornDefaults
  <1>3. PICK r : r = RewriteGrubDefaults(t, console)
    OBVIOUS
  <1>4. /\ r = [cmdline |-> r.cmdline, serial |-> r.serial]
        /\ r.cmdline = [i \in DOMAIN t.cmdline |-> IF IsSerial(t.cmdline[i][1]) THEN <<console.tty, Baud(console)>> ELSE t.cmdline[i]]
        /\ r.serial = IF t.serial = None THEN None ELSE <<TTYUnit(console.tty), Baud(console)>>
    <2>1. t = [cmdline |-> t.cmdline, serial |-> t.serial]
      BY <1>2
    <2> QED
      BY <1>3, <2>1, RewriteShape
  <1>5. r.serial = None
    BY <1>2, <1>4
  <1>6. r.cmdline = <<>>
    <2>1. PICK a : a = r.cmdline
      OBVIOUS
    <2>2. DOMAIN a = {} /\ a = [i \in {} |-> None]
      <3>1. DOMAIN t.cmdline = {}
        BY <1>2
      <3> QED
        BY <1>4, <2>1, <3>1
    <2>3. <<>> = [i \in {} |-> None]
      OBVIOUS
    <2> QED
      BY <2>1, <2>2, <2>3
  <1> QED
    BY <1>1, <1>2, <1>3, <1>4, <1>5, <1>6

LEMMA RewriteSeen ==
    ASSUME doc \in Documents, defaults \in DefaultsSeen, doc.console # None, doc.image.defaults # None
    PROVE  /\ RewriteGrubDefaults(defaults, doc.console) \in {Rewritten, defaults}
           /\ RewriteGrubDefaults(defaults, doc.console) \in DefaultsSeen
           /\ ~DefaultsLost => RewriteGrubDefaults(defaults, doc.console) = Rewritten
  <1>1. Rewritten \in DefaultsSeen
    BY DEF DefaultsSeen
  <1>2. CASE defaults = doc.image.defaults
    BY <1>1, <1>2 DEF Rewritten
  <1>3. CASE defaults = Rewritten
    <2>1. PICK s : s = RewriteGrubDefaults(defaults, doc.console)
      OBVIOUS
    <2>2. s = Rewritten
      BY <1>3, <2>1, ImageDefaults, RewriteTwice DEF Rewritten
    <2> QED
      BY <1>1, <2>1, <2>2
  <1>4. CASE DefaultsLost /\ defaults = TornDefaults
    BY <1>4, TornStays DEF DefaultsSeen
  <1> QED
    BY <1>2, <1>3, <1>4 DEF DefaultsSeen

LEMMA SeenStays ==
    ASSUME doc' = doc, DefaultsLost => DefaultsLost'
    PROVE  DefaultsSeen \subseteq DefaultsSeen' /\ Rewritten' = Rewritten
  BY DEF DefaultsSeen, Rewritten

\* A step that leaves the file of the defaults alone.
LEMMA DefaultsStay ==
    ASSUME Control, DefaultsInv, [Next]_all, defaults' = defaults, DefaultsLost' <=> DefaultsLost,
           (status = "running" /\ Act.kind # "serial-console") \/ Stop \/ Rerun \/ UNCHANGED all
    PROVE  DefaultsInv'
  <1>1. doc' = doc
    BY BehindStep
  <1>2. DefaultsSeen \subseteq DefaultsSeen' /\ Rewritten' = Rewritten
    BY <1>1, SeenStays
  <1>3. Through("serial-console")' \subseteq Through("serial-console")
    <2>1. Stop => Behind' = {}
      BY ExitBehind DEF Stop
    <2>2. Rerun => Behind' \subseteq Behind
      BY DEF Rerun, Control, Behind, Finished
    <2>3. UNCHANGED all => Behind' = Behind
      BY DEF all, control, Behind, Finished
    <2>4. Planned("serial-console")' = Planned("serial-console")
      BY <1>1, DocFrame
    <2> QED
      BY <2>1, <2>2, <2>3, <2>4, ThroughStep DEF Through
  <1>4. UNCHANGED all \/ ~(status' = "running" /\ Act'.kind = "serial-console" /\ pc' \in {"rewrite", "mkconfig"})
    <2>1. Stop => status' # "running"
      BY ExitBehind DEF Stop
    <2>2. Rerun => pc' = "begin"
      BY DEF Rerun, Control
    <2>3. status = "running" /\ Act.kind # "serial-console" => UNCHANGED all \/ Stop \/ pc' = "begin" \/ Act' = Act
      BY MoveKind, MoveBehind DEF Rerun
    <2> QED
      BY <2>1, <2>2, <2>3
  <1>5. UNCHANGED all => (Rewriting' <=> Rewriting) /\ Act' = Act /\ pc' = pc /\ status' = status
    BY DEF all, control, Rewriting, Act
  <1>6. UNCHANGED all \/ ~Rewriting'
    BY <1>4 DEF Rewriting
  <1>7. defaults' \in DefaultsSeen'
    BY <1>2 DEF DefaultsInv
  <1>8. DefaultsLost' => doc'.console # None /\ doc'.image.defaults # None
    BY <1>1 DEF DefaultsInv
  <1>9. status' = "running" /\ Act'.kind = "serial-console" /\ pc' \in {"rewrite", "mkconfig"} =>
           doc'.console # None /\ doc'.image.defaults # None
    BY <1>1, <1>4, <1>5 DEF DefaultsInv
  <1>10. doc'.console # None /\ (Through("serial-console")' # {} \/ Rewriting') =>
           doc'.image.defaults # None /\ (~DefaultsLost' => defaults' = Rewritten')
    BY <1>1, <1>2, <1>3, <1>5, <1>6 DEF DefaultsInv
  <1> QED
    BY <1>7, <1>8, <1>9, <1>10 DEF DefaultsInv

LEMMA SerialConsoleDefaults == Control /\ DefaultsInv /\ SerialConsoleNext /\ UNCHANGED <<users, loader, booted>> => DefaultsInv'
  <1> SUFFICES ASSUME Control, DefaultsInv, SerialConsoleNext, UNCHANGED <<users, loader, booted>> PROVE DefaultsInv'
    OBVIOUS
  <1>0. /\ [Next]_all /\ status = "running" /\ Act.kind = "serial-console" /\ doc' = doc /\ doc \in Documents
    BY BehindStep DEF Next, SerialConsoleNext, BeginSerialConsole, RewriteDefaults, RunMkConfig, At, Control
  <1>1. CASE BeginSerialConsole
    <2>1. defaults' = defaults /\ scars' = scars
      BY <1>1 DEF BeginSerialConsole, grub
    <2>2. (DefaultsLost' <=> DefaultsLost) /\ DefaultsSeen' = DefaultsSeen /\ Rewritten' = Rewritten
      BY <1>0, <2>1 DEF DefaultsLost, DefaultsSeen, Rewritten
    <2>3. CASE doc.console = None /\ ActionDone
      <3>1. pc' = "begin"
        BY <1>0, <2>3, DoneBehind
      <3> QED
        BY <1>0, <2>1, <2>2, <2>3, <3>1 DEF DefaultsInv
    <2>4. CASE doc.console # None /\ defaults # None /\ Go("rewrite", 0)
      <3>1. doc.image.defaults # None
        BY <2>4 DEF DefaultsInv, DefaultsSeen
      <3>2. Behind' = Behind /\ pc' = "rewrite"
        BY <2>4, GoBehind
      <3>3. Through("serial-console")' = Through("serial-console") /\ ~Rewriting'
        BY <1>0, <3>2, DocFrame DEF Through, Rewriting
      <3> QED
        BY <1>0, <2>1, <2>2, <2>4, <3>1, <3>3 DEF DefaultsInv
    <2>5. CASE Refuse
      <3>1. Behind' = {} /\ status' = "failed"
        BY <2>5, ExitBehind
      <3>2. Through("serial-console")' = {} /\ ~Rewriting'
        BY <3>1 DEF Through, Rewriting
      <3> QED
        BY <1>0, <2>1, <2>2, <3>1, <3>2 DEF DefaultsInv
    <2> QED
      BY <1>1, <2>3, <2>4, <2>5 DEF BeginSerialConsole
  <1>2. CASE RewriteDefaults
    <2>1. doc.console # None /\ doc.image.defaults # None
      BY <1>0, <1>2 DEF RewriteDefaults, At, DefaultsInv
    <2>2. CASE defaults' = RewriteGrubDefaults(defaults, doc.console) /\ Go("mkconfig", 0) /\ UNCHANGED scars
      <3>1. (DefaultsLost' <=> DefaultsLost) /\ DefaultsSeen' = DefaultsSeen /\ Rewritten' = Rewritten
        BY <1>0, <2>2 DEF DefaultsLost, DefaultsSeen, Rewritten
      <3>2. defaults' \in DefaultsSeen /\ (~DefaultsLost => defaults' = Rewritten)
        BY <1>0, <2>1, <2>2, RewriteSeen DEF DefaultsInv
      <3> QED
        BY <1>0, <2>1, <3>1, <3>2 DEF DefaultsInv
    <2>3. CASE defaults' = TornDefaults /\ Fault /\ scars' = scars \cup {<<"defaults", "defaults">>}
      <3>1. DefaultsLost' /\ defaults' \in DefaultsSeen'
        BY <2>3 DEF DefaultsLost, DefaultsSeen, TornDefaults
      <3>2. status' = "failed"
        BY <2>3, ExitBehind
      <3> QED
        BY <1>0, <2>1, <3>1, <3>2 DEF DefaultsInv
    <2> QED
      BY <1>2, <2>2, <2>3 DEF RewriteDefaults, TornDefaults
  <1>3. CASE RunMkConfig
    <2>1. defaults' = defaults /\ scars' = scars /\ Rewriting
      BY <1>0, <1>3 DEF RunMkConfig, At, Rewriting
    <2>2. (DefaultsLost' <=> DefaultsLost) /\ DefaultsSeen' = DefaultsSeen /\ Rewritten' = Rewritten
      BY <1>0, <2>1 DEF DefaultsLost, DefaultsSeen, Rewritten
    <2>3. doc.console # None /\ doc.image.defaults # None /\ (~DefaultsLost => defaults = Rewritten)
      BY <1>0, <1>3, <2>1 DEF DefaultsInv, RunMkConfig, At
    <2>4. pc' = "begin"
      <3>1. ActionDone \/ Fault
        BY <1>3 DEF RunMkConfig, MkConfig
      <3> QED
        BY <1>0, <3>1, DoneBehind, ExitBehind
    <2> QED
      BY <1>0, <2>1, <2>2, <2>3, <2>4 DEF DefaultsInv
  <1> QED
    BY <1>1, <1>2, <1>3 DEF SerialConsoleNext

LEMMA DefaultsStep == Control /\ DefaultsInv /\ [Next]_all => DefaultsInv'
  <1> SUFFICES ASSUME Control, DefaultsInv, [Next]_all PROVE DefaultsInv'
    OBVIOUS
  <1>1. CASE WriteFileNext /\ UNCHANGED <<users, grub, loader, booted>> /\ status = "running" /\ Act.kind = "writefile"
    BY <1>1, ScarsOfWriteFile, DefaultsStay DEF DefaultsLost, grub
  <1>2. CASE UserManageNext /\ UNCHANGED <<grub, loader, booted>> /\ status = "running" /\ Act.kind = "user-manage"
    BY <1>2, ScarsOfUserManage, DefaultsStay DEF DefaultsLost, grub
  <1>3. CASE SerialConsoleNext /\ UNCHANGED <<users, loader, booted>> /\ status = "running" /\ Act.kind = "serial-console"
    BY <1>3, SerialConsoleDefaults
  <1>4. CASE Grub2diskNext /\ UNCHANGED <<users, booted>> /\ status = "running" /\ Act.kind = "grub2disk"
    <2>1. defaults' = defaults
      BY <1>4 DEF Grub2diskNext, BeginGrub2disk, DoBIOS, GrubInstall, UpdateGrub, CopyFallback, CopyGrub, RegisterNVRAM, grub
    <2> QED
      BY <1>4, <2>1, ScarsOfGrub2disk, DefaultsStay DEF DefaultsLost
  <1>5. CASE KexecNext /\ UNCHANGED <<users, loader>> /\ status = "running" /\ Act.kind = "kexec" /\ UNCHANGED grub
    BY <1>5, ScarsOfKexec, DefaultsStay DEF DefaultsLost, grub
  <1>6. CASE (Stop \/ Rerun \/ UNCHANGED all) /\ UNCHANGED <<users, grub, loader, booted, scars>>
    BY <1>6, DefaultsStay DEF DefaultsLost, grub
  <1> QED
    BY <1>1, <1>2, <1>3, <1>4, <1>5, <1>6, StepKind

LEMMA InitDefaults == Init => DefaultsInv
  <1> SUFFICES ASSUME Init PROVE DefaultsInv
    OBVIOUS
  <1>1. defaults = doc.image.defaults /\ scars = {} /\ status = "running" /\ at = 1 /\ pc = "begin"
    BY DEF Init, TargetInit, SerialConsoleInit
  <1>2. Through("serial-console") = {} /\ ~Rewriting /\ ~DefaultsLost
    BY <1>1 DEF Through, Behind, Finished, Rewriting, DefaultsLost
  <1> QED
    BY <1>1, <1>2 DEF DefaultsInv, DefaultsSeen

-----------------------------------------------------------------------------
(* grub.cfg, and what kexec loads from it.                                 *)

LEMMA MkConfigMenus ==
    ASSUME Control, DefaultsInv, LoaderOK, MenusInv, doc' = doc, defaults' = defaults, NEW view \in {"seen", "hidden"},
           \/ grubcfg' = [grubcfg EXCEPT ![view] = MenuIn(view)]
           \/ grubcfg' = grubcfg \/ grubcfg' = [grubcfg EXCEPT ![view] = <<>>],
           DefaultsLost => DefaultsLost'
    PROVE  MenusInv'
  <1>1. DefaultsSeen \subseteq DefaultsSeen'
    BY SeenStays
  <1>2. MenuFrom(grubcfg.seen)' \/ grubcfg'.seen # grubcfg.seen
    BY <1>1 DEF MenusInv, MenuFrom
  <1>3. Menu \in {MenuOf(doc'.image, Args(file)) : file \in DefaultsSeen'}
    BY <1>1 DEF DefaultsInv, Menu
  <1>4. CASE grubcfg' = grubcfg
    BY <1>2, <1>4 DEF MenusInv
  <1>5. CASE view = "seen" /\ grubcfg' # grubcfg
    <2>1. PICK m : m \in {Menu, <<>>} /\ grubcfg' = [grubcfg EXCEPT !["seen"] = m]
      BY <1>5 DEF MenuIn
    <2>2. grubcfg'.seen = m /\ grubcfg'.hidden = grubcfg.hidden
      BY <2>1 DEF LoaderOK
    <2> QED
      BY <1>3, <2>1, <2>2 DEF MenusInv, MenuFrom
  <1>6. CASE view = "hidden" /\ grubcfg' # grubcfg
    <2>1. PICK m : m \in {<<GrubLine("set default", doc.image.default)>>, <<>>} /\ grubcfg' = [grubcfg EXCEPT !["hidden"] = m]
      BY <1>6 DEF MenuIn
    <2>2. grubcfg'.hidden = m /\ grubcfg'.seen = grubcfg.seen
      BY <2>1 DEF LoaderOK
    <2> QED
      BY <1>2, <2>1, <2>2 DEF MenusInv
  <1> QED
    BY <1>4, <1>5, <1>6

LEMMA MenusStep == Control /\ DefaultsInv /\ LoaderOK /\ MenusInv /\ [Next]_all => MenusInv'
  <1> SUFFICES ASSUME Control, DefaultsInv, LoaderOK, MenusInv, [Next]_all PROVE MenusInv'
    OBVIOUS
  <1>1. doc' = doc
    BY BehindStep
  <1>2. DefaultsLost => DefaultsLost'
    <2>1. UserManageNext => DefaultsLost' = DefaultsLost
      BY ScarsOfUserManage DEF DefaultsLost
    <2>2. WriteFileNext => DefaultsLost' = DefaultsLost
      BY ScarsOfWriteFile DEF DefaultsLost
    <2>3. SerialConsoleNext => scars \subseteq scars'
      BY DEF SerialConsoleNext, BeginSerialConsole, RewriteDefaults, RunMkConfig
    <2>4. Grub2diskNext => DefaultsLost' = DefaultsLost
      BY ScarsOfGrub2disk DEF DefaultsLost
    <2>5. KexecNext => scars' = scars
      BY ScarsOfKexec
    <2> QED
      BY <2>1, <2>2, <2>3, <2>4, <2>5, StepKind DEF DefaultsLost
  <1>3. CASE grubcfg' = grubcfg
    <2>1. DefaultsSeen \subseteq DefaultsSeen'
      BY <1>1, <1>2, SeenStays
    <2> QED
      BY <1>1, <1>3, <2>1 DEF MenusInv, MenuFrom
  <1>4. CASE RunMkConfig
    <2>1. View(TRUE) = "seen" /\ defaults' = defaults
      BY <1>4 DEF View, RunMkConfig
    <2>2. \/ grubcfg' = [grubcfg EXCEPT !["seen"] = MenuIn("seen")]
          \/ grubcfg' = grubcfg \/ grubcfg' = [grubcfg EXCEPT !["seen"] = <<>>]
      BY <1>4, <2>1 DEF RunMkConfig, MkConfig
    <2> QED
      BY <1>1, <1>2, <2>1, <2>2, MkConfigMenus
  <1>5. CASE UpdateGrub
    <2>1. BootView \in {"seen", "hidden"} /\ defaults' = defaults
      BY <1>5 DEF BootView, View, UpdateGrub
    <2>2. PICK view : view = BootView
      OBVIOUS
    <2>3. \/ grubcfg' = [grubcfg EXCEPT ![view] = MenuIn(view)]
          \/ grubcfg' = grubcfg \/ grubcfg' = [grubcfg EXCEPT ![view] = <<>>]
      BY <1>5, <2>2 DEF UpdateGrub, MkConfig
    <2> QED
      BY <1>1, <1>2, <2>1, <2>2, <2>3, MkConfigMenus
  <1>6. SerialConsoleNext => RunMkConfig \/ grubcfg' = grubcfg
    BY DEF SerialConsoleNext, BeginSerialConsole, RewriteDefaults, grub
  <1>7. Grub2diskNext => UpdateGrub \/ grubcfg' = grubcfg
    BY DEF Grub2diskNext, BeginGrub2disk, DoBIOS, GrubInstall, CopyFallback, CopyGrub, RegisterNVRAM, grub
  <1> QED
    BY <1>3, <1>4, <1>5, <1>6, <1>7, StepKind DEF grub

LEMMA InitMenus == Init => MenusInv
  <1> SUFFICES ASSUME Init PROVE MenusInv
    OBVIOUS
  <1>1. doc \in Documents /\ grubcfg.seen = doc.image.grubcfg /\ grubcfg.hidden = None
    BY DEF Init, TargetInit, SerialConsoleInit
  <1>2. doc.image.grubcfg \in {None, MenuOf(doc.image, Args(doc.image.defaults))}
    BY <1>1, GrubAssumption
  <1> QED
    BY <1>1, <1>2 DEF MenusInv, MenuFrom, DefaultsSeen

\* What kexec finds depends on its place in the plan and on grub.cfg.
LEMMA BootFrame ==
    ASSUME doc' = doc, at' = at, grubcfg' = grubcfg
    PROVE  BootConfig' = BootConfig /\ Act' = Act
  BY DEF BootConfig, Act, View

LEMMA BootStep == Control /\ BootInv /\ [Next]_all => BootInv'
  <1> SUFFICES ASSUME Control, BootInv, [Next]_all PROVE BootInv'
    OBVIOUS
  <1>1. CASE UNCHANGED all
    <2>1. BootConfig' = BootConfig /\ Act' = Act /\ status' = status /\ pc' = pc /\ booted' = booted
      BY <1>1, BootFrame DEF all, control, grub
    <2> QED
      BY <2>1 DEF BootInv
  <1>2. CASE booted' = booted /\ booted = None /\ (pc' = "begin" \/ Act'.kind # "kexec" \/ status' # "running")
    BY <1>2 DEF BootInv
  <1>3. CASE (Stop \/ Rerun) /\ UNCHANGED booted
    <2>1. booted' = booted /\ booted = None
      BY <1>3 DEF BootInv, Stop, Rerun
    <2>2. pc' = "begin"
      BY <1>3, ExitBehind DEF Stop, Rerun, Control
    <2> QED
      BY <1>2, <2>1, <2>2
  <1>4. CASE UNCHANGED booted /\ status = "running" /\ Act.kind # "kexec" /\ ~UNCHANGED all
    <2>1. booted = None
      BY <1>4 DEF BootInv
    <2>2. pc' = "begin" \/ Act' = Act
      <3>1. Move \/ Stop
        BY <1>4, MoveKind DEF Rerun
      <3> QED
        BY <1>4, <3>1, MoveBehind, ExitBehind DEF Stop
    <2> QED
      BY <1>2, <1>4, <2>1, <2>2
  <1>5. CASE KexecNext /\ status = "running" /\ Act.kind = "kexec" /\ UNCHANGED grub
    <2>0. booted = None /\ grubcfg' = grubcfg
      BY <1>5 DEF BootInv, grub
    <2>1. CASE BeginKexec
      <3>1. CASE Refuse
        BY <1>2, <2>0, <2>1, <3>1, ExitBehind DEF BeginKexec
      <3>2. CASE BootConfig # None /\ Go("load", 0)
        <4>1. BootConfig' = BootConfig /\ booted' = None
          BY <2>0, <2>1, <3>2, GoBehind, BootFrame DEF BeginKexec
        <4> QED
          BY <3>2, <4>1 DEF BootInv
      <3> QED
        BY <2>1, <3>1, <3>2 DEF BeginKexec
    <2>2. CASE LoadAndReboot
      <3>1. CASE (Refuse \/ ActionDone) /\ UNCHANGED booted
        <4>1. pc' = "begin"
          BY <1>5, <3>1, ExitBehind, DoneBehind
        <4> QED
          BY <1>2, <2>0, <3>1, <4>1
      <3>2. CASE /\ BootConfig.initrd # None
                 /\ status' = "booted" /\ booted' = BootConfig
                 /\ UNCHANGED <<doc, at, pc, n, runs, faults, disturbed>>
        <4>1. BootConfig' = BootConfig /\ Act' = Act
          BY <2>0, <3>2, BootFrame
        <4>2. BootConfig # None
          BY <1>5, <2>2 DEF BootInv, LoadAndReboot, At
        <4> QED
          BY <1>5, <3>2, <4>1, <4>2 DEF BootInv
      <3> QED
        BY <2>2, <3>1, <3>2 DEF LoadAndReboot
    <2> QED
      BY <1>5, <2>1, <2>2 DEF KexecNext
  <1> QED
    BY <1>1, <1>3, <1>4, <1>5, StepKind

LEMMA NoLineMade ==
    ASSUME NEW V, NEW args
    PROVE  <<>> \in Made(V, args)
  <1>1. <<>> \in Seq(LineSet(V, args))
    OBVIOUS
  <1>2. Len(<<>>) = 0
    OBVIOUS
  <1>3. 1..0 = {}
    OBVIOUS
  <1> QED
    BY <1>1, <1>2, <1>3 DEF Made

\* Where there is no kernel, kexec finds none.
LEMMA NothingToBoot ==
    ASSUME NEW default, NEW lines \in {<<>>, <<GrubLine("set default", default)>>}
    PROVE  GetDefaultConfig(lines) = None
  <1> DEFINE V == {None, default}
  <1>1. \A args : lines \in Made(V, args)
    <2>1. \A args : <<>> \in Made(V, args)
      BY NoLineMade
    <2>2. \A args : <<GrubLine("set default", default)>> \in Made(V, args)
      BY LineMade
    <2> QED
      BY <2>1, <2>2
  <1>2. PICK c : c = GetDefaultConfig(lines)
    OBVIOUS
  <1>3. None \in V
    OBVIOUS
  <1> HIDE DEF V
  <1>4. \A args : c \in {None} \cup Bootable(V, args)
    BY <1>1, <1>2, <1>3, MadeBoots
  <1>5. c # None => c.args = "a" /\ c.args = "b"
    <2>1. c \in {None} \cup Bootable(V, "a") /\ c \in {None} \cup Bootable(V, "b")
      BY <1>4
    <2> QED
      BY <2>1 DEF Bootable
  <1>6. c = None
    BY <1>5
  <1> QED
    BY <1>2, <1>6

\* What was booted was read in the menu that is there at boot.
LEMMA BootedFound ==
    ASSUME Control, MenusInv, BootInv, booted # None, Act.kernel = None
    PROVE  \E file, c :
               /\ file \in DefaultsSeen
               /\ grubcfg.seen = MenuOf(doc.image, Args(file)) /\ c = GetDefaultConfig(grubcfg.seen) /\ c # None
               /\ c \in Bootable(Vals(doc.image), Args(file))
               /\ booted = IF Act.args # None THEN [c EXCEPT !.args = Act.args] ELSE c
  <1>1. booted = BootConfig /\ BootConfig # None
    BY DEF BootInv
  <1>2. PICK lines : lines = grubcfg[View(Act.onBoot)]
    OBVIOUS
  <1>3. PICK c : c = IF lines = None THEN None ELSE GetDefaultConfig(lines)
    OBVIOUS
  <1>4. BootConfig = IF c # None /\ Act.args # None THEN [c EXCEPT !.args = Act.args] ELSE c
    BY <1>2, <1>3 DEF BootConfig
  <1>5. c # None /\ lines # None /\ c = GetDefaultConfig(lines)
    BY <1>1, <1>3, <1>4
  <1>6. lines \notin {<<>>, <<GrubLine("set default", doc.image.default)>>}
    BY <1>5, NothingToBoot
  <1>7. lines = grubcfg.seen
    <2>1. View(Act.onBoot) \in {"seen", "hidden"}
      BY DEF View
    <2> QED
      BY <1>2, <1>5, <1>6, <2>1 DEF MenusInv
  <1>8. PICK file \in DefaultsSeen : lines = MenuOf(doc.image, Args(file))
    BY <1>5, <1>6, <1>7 DEF MenusInv, MenuFrom
  <1>9. c \in Bootable(Vals(doc.image), Args(file))
    <2>1. lines \in Made(Vals(doc.image), Args(file))
      <3>1. doc \in Documents
        BY DEF Control
      <3> QED
        BY <1>8, <3>1, MenuMadeOf
    <2>2. None \in Vals(doc.image)
      BY DEF Vals
    <2> QED
      BY <1>5, <2>1, <2>2, MadeBoots
  <1> QED
    BY <1>1, <1>4, <1>5, <1>7, <1>8, <1>9

LEMMA InvBootsDefault == Control /\ MenusInv /\ BootInv => KexecBootsDefault
  <1> SUFFICES ASSUME Control, MenusInv, BootInv, booted # None, Act.kernel = None
               PROVE  booted.kernel = booted.initrd /\ (PlainMenu => booted.kernel = GrubDefault.kernel)
    BY DEF KexecBootsDefault
  <1>1. PICK file, c :
               /\ file \in DefaultsSeen
               /\ grubcfg.seen = MenuOf(doc.image, Args(file)) /\ c = GetDefaultConfig(grubcfg.seen) /\ c # None
               /\ c \in Bootable(Vals(doc.image), Args(file))
               /\ booted = IF Act.args # None THEN [c EXCEPT !.args = Act.args] ELSE c
    BY BootedFound
  <1>2. PICK r : r = booted
    OBVIOUS
  <1>3. c = [kernel |-> c.kernel, initrd |-> c.initrd, args |-> c.args] /\ c.initrd = c.kernel
    BY <1>1 DEF Bootable
  <1>4. r.kernel = c.kernel /\ r.initrd = c.initrd
    <2>1. CASE Act.args # None
      <3>1. r = [c EXCEPT !.args = Act.args]
        BY <1>1, <1>2, <2>1
      <3> QED
        BY <1>3, <3>1
    <2>2. CASE Act.args = None
      BY <1>1, <1>2, <2>2
    <2> QED
      BY <2>1, <2>2
  <1>5. PlainMenu => c.kernel = GrubDefault.kernel
    <2> SUFFICES ASSUME PlainMenu PROVE c.kernel = GrubDefault.kernel
      OBVIOUS
    <2>1. doc \in Documents
      BY DEF Control
    <2>2. c = [kernel |-> GrubDefault.kernel, initrd |-> GrubDefault.kernel, args |-> Args(file)]
      BY <1>1, <2>1, PlainBoots
    <2> QED
      BY <2>2
  <1> QED
    BY <1>2, <1>3, <1>4, <1>5

LEMMA InvReachesKernel ==
    Control /\ DiskInv /\ DefaultsInv /\ MenusInv /\ BootInv => ConsoleReachesKernel
  <1> SUFFICES ASSUME Control, DiskInv, DefaultsInv, MenusInv, BootInv PROVE ConsoleReachesKernel
    OBVIOUS
  <1> DEFINE asked == <<doc.console.tty, Baud(doc.console)>>
             ours(args) == /\ \E i \in DOMAIN args : args[i] = asked
                           /\ \A i \in DOMAIN args : IsSerial(args[i][1]) => args[i] = asked
  <1> SUFFICES ASSUME Finished, Planned("serial-console") # {}, doc.console # None,
                      \E i \in DOMAIN doc.image.defaults.cmdline : IsSerial(doc.image.defaults.cmdline[i][1]),
                      ~DefaultsLost
               PROVE  /\ \A i \in DOMAIN grubcfg.seen : grubcfg.seen[i].kind = "linux" => ours(grubcfg.seen[i].args)
                      /\ booted # None /\ Act.kernel = None /\ Act.args = None => ours(booted.args)
                      /\ defaults.serial # None => defaults.serial = <<TTYUnit(doc.console.tty), Baud(doc.console)>>
    BY DEF ConsoleReachesKernel, DefaultsLost
  <1>1. doc \in Documents
    BY DEF Control
  <1>2. doc.image.defaults # None /\ defaults = Rewritten
    BY FinishedThrough DEF DefaultsInv
  <1>3. PICK file : file = doc.image.defaults
    OBVIOUS
  <1>4. file = [cmdline |-> file.cmdline, serial |-> file.serial] /\ Rewritten # None
    BY <1>1, <1>2, <1>3, ImageDefaults
  <1>5. PICK r : r = Rewritten
    OBVIOUS
  <1>6. /\ \A i \in DOMAIN r.cmdline : IsSerial(r.cmdline[i][1]) => r.cmdline[i] = asked
        /\ \E i \in DOMAIN r.cmdline : r.cmdline[i] = asked
        /\ r.serial # None => r.serial = <<TTYUnit(doc.console.tty), Baud(doc.console)>>
    BY <1>3, <1>4, <1>5, RewrittenConsole DEF Rewritten
  <1>7. ours(r.cmdline)
    BY <1>6
  <1>8. Args(defaults) = r.cmdline
    BY <1>2, <1>4, <1>5 DEF Args
  <1>9. MenuMakers # {}
    BY DEF MenuMakers
  <1>10. grubcfg.seen = MenuOf(doc.image, r.cmdline)
    BY <1>8, <1>9, DiskInvBoots DEF DisksBoot, Menu
  <1>11. grubcfg.seen \in Made(Vals(doc.image), r.cmdline)
    BY <1>1, <1>10, MenuMadeOf
  <1>12. ASSUME NEW i \in DOMAIN grubcfg.seen, grubcfg.seen[i].kind = "linux"
         PROVE  grubcfg.seen[i].args = r.cmdline
    <2>1. PICK l : l = grubcfg.seen
      OBVIOUS
    <2>2. l \in Seq(LineSet(Vals(doc.image), r.cmdline)) /\ \A k \in 1..Len(l) : l[k].kind = "linux" => l[k].args = r.cmdline
      BY <1>11, <2>1 DEF Made
    <2> QED
      BY <1>12, <2>1, <2>2
  <1>13. ASSUME booted # None, Act.kernel = None, Act.args = None
         PROVE  booted.args = r.cmdline
    <2>1. booted = GetDefaultConfig(grubcfg.seen) /\ booted # None
      BY <1>13, BootedFound
    <2>2. None \in Vals(doc.image)
      BY DEF Vals
    <2>3. booted \in Bootable(Vals(doc.image), r.cmdline)
      BY <1>11, <2>1, <2>2, MadeBoots
    <2> QED
      BY <2>3 DEF Bootable
  <1> HIDE DEF ours
  <1> QED
    BY <1>2, <1>5, <1>6, <1>7, <1>12, <1>13

LEMMA InitBoot == Init => BootInv
  BY DEF Init, TargetInit, KexecInit, BootInv

\* For every document and history: after a finished workflow the kernel lines of
\* the menu, the command line that kexec took from it and grub's serial port have
\* the console of the metadata and no other serial one
\* (serial-console/internal/serial/serial.go:52-104), unless the image has no
\* serial console or a fault truncated its file of defaults.
THEOREM ConsoleIsReached == Spec => []ConsoleReachesKernel
  <1> DEFINE I == Control /\ DiskInv /\ DefaultsInv /\ MenusInv /\ BootInv
  <1>1. Init => I
    BY InitControl, InitDiskInv, InitDefaults, InitMenus, InitBoot
  <1>2. I /\ [Next]_all => I'
    BY ControlStep, DiskStep, DefaultsStep, MenusStep, BootStep DEF DiskInv
  <1>3. I => ConsoleReachesKernel
    BY InvReachesKernel
  <1> QED
    BY <1>1, <1>2, <1>3, PTL DEF Spec

\* Of no menu that grub-mkconfig makes, however long, does kexec boot the kernel
\* of one entry with the initramfs of another, and of a menu without submenus it
\* boots grub's own default (kexec/cmd/grub/grub.go).
THEOREM DefaultIsBooted == Spec => []KexecBootsDefault
  <1> DEFINE I == Control /\ DiskInv /\ DefaultsInv /\ MenusInv /\ BootInv
  <1>1. Init => I
    BY InitControl, InitDiskInv, InitDefaults, InitMenus, InitBoot
  <1>2. I /\ [Next]_all => I'
    BY ControlStep, DiskStep, DefaultsStep, MenusStep, BootStep DEF DiskInv
  <1>3. I => KexecBootsDefault
    BY InvBootsDefault
  <1> QED
    BY <1>1, <1>2, <1>3, PTL DEF Spec

-----------------------------------------------------------------------------
(* Nothing refuses its work.                                               *)

Shadowed(p) == <<"shadowed">> \o p

LEMMA ShadowedFacts ==
    ASSUME NEW p \in Paths
    PROVE  /\ Shadowed(p) \in Paths /\ Len(Shadowed(p)) = Len(p) + 1 /\ Len(p) \in Nat
           /\ Shadowed(p)[1] = "shadowed" /\ \A k \in 1..Len(p) : Shadowed(p)[k + 1] = p[k]
  <1>1. PICK a : a = <<"shadowed">>
    OBVIOUS
  <1>2. a \in Seq(Name) /\ Len(a) = 1 /\ a[1] = "shadowed" /\ p \in Seq(Name)
    BY <1>1 DEF Name, Paths
  <1>3. /\ a \o p \in Seq(Name) /\ Len(a \o p) = Len(a) + Len(p)
        /\ \A i \in 1..(Len(a) + Len(p)) : (a \o p)[i] = IF i <= Len(a) THEN a[i] ELSE p[i - Len(a)]
    <2>1. a \in Seq(Name) /\ p \in Seq(Name)
      BY <1>2
    <2> QED
      BY <2>1, ConcatProperties
  <1>4. PICK r : r = a \o p
    OBVIOUS
  <1>5. Len(p) \in Nat /\ Len(r) = Len(p) + 1 /\ \A i \in 1..(1 + Len(p)) : r[i] = IF i <= 1 THEN a[i] ELSE p[i - 1]
    BY <1>2, <1>3, <1>4
  <1>6. r[1] = "shadowed"
    BY <1>2, <1>5
  <1>7. ASSUME NEW k \in 1..Len(p)
        PROVE  r[k + 1] = p[k]
    <2>1. k + 1 \in 1..(1 + Len(p)) /\ ~(k + 1 <= 1) /\ (k + 1) - 1 = k
      BY <1>5
    <2> QED
      BY <1>5, <2>1
  <1> QED
    BY <1>1, <1>3, <1>4, <1>5, <1>6, <1>7 DEF Shadowed, Paths

\* Where writefile writes is the path itself, or the path below the mount point.
LEMMA WrittenIs ==
    ASSUME doc \in Documents, NEW i \in Planned("writefile"), NEW p, p = doc.plan[i].path
    PROVE  /\ p \in Paths /\ Len(p) > 0 /\ p[1] # "shadowed" /\ WrittenAt(i) \in Paths /\ Len(WrittenAt(i)) > 0
           /\ \/ WrittenAt(i) = p
              \/ WrittenAt(i) = Shadowed(p) /\ WrittenAt(i)[1] = "shadowed" /\ p[1] \in doc.siblings
  <1>1. p \in Paths /\ Len(p) > 0 /\ p[1] # "shadowed" /\ WrittenAt(i) \in Paths /\ Len(WrittenAt(i)) > 0
    BY WrittenFacts
  <1>2. WrittenAt(i) = p \/ (WrittenAt(i) = Shadowed(p) /\ p[1] \in doc.siblings)
    BY DEF WrittenAt, OnRootOnly, Shadowed
  <1> QED
    BY <1>1, <1>2, ShadowedFacts

\* Paths start as what is above them does.
LEMMA SameStart ==
    ASSUME NEW p \in Paths, Len(p) > 0, NEW q \in UpTo(p)
    PROVE  q \in Paths /\ Len(q) \in 1..Len(p) /\ q[1] = p[1]
  <1>1. q \in Paths
    BY AbovePaths DEF UpTo
  <1>2. Len(q) \in 1..Len(p) /\ \A k \in 1..Len(q) : q[k] = p[k]
    BY <1>1, UpToIff
  <1>3. 1 \in 1..Len(q)
    BY <1>2
  <1> QED
    BY <1>1, <1>2, <1>3

\* One file is above another where it was asked to be.
LEMMA WrittenAbove ==
    ASSUME doc \in Documents, NEW i \in Planned("writefile"), NEW j \in Planned("writefile"),
           WrittenAt(i) \in Above(WrittenAt(j))
    PROVE  doc.plan[i].path \in Above(doc.plan[j].path)
  <1>1. PICK p : p = doc.plan[i].path
    OBVIOUS
  <1>2. PICK q : q = doc.plan[j].path
    OBVIOUS
  <1>3. PICK v : v = WrittenAt(i)
    OBVIOUS
  <1>4. PICK w : w = WrittenAt(j)
    OBVIOUS
  <1>5. /\ p \in Paths /\ Len(p) > 0 /\ p[1] # "shadowed" /\ v \in Paths /\ Len(v) > 0
        /\ v = p \/ (v = Shadowed(p) /\ v[1] = "shadowed")
    BY <1>1, <1>3, WrittenIs
  <1>6. /\ q \in Paths /\ Len(q) > 0 /\ q[1] # "shadowed" /\ w \in Paths /\ Len(w) > 0
        /\ w = q \/ (w = Shadowed(q) /\ w[1] = "shadowed")
    BY <1>2, <1>4, WrittenIs
  <1>7. v \in Above(w) /\ v[1] = w[1]
    BY <1>3, <1>4, <1>6, SameStart DEF UpTo
  <1>8. CASE v = p /\ w = q
    BY <1>1, <1>2, <1>7, <1>8
  <1>9. CASE v = Shadowed(p) /\ w = Shadowed(q)
    <2>1. Len(v) \in 1..(Len(w) - 1) /\ \A k \in 1..Len(v) : v[k] = w[k]
      BY <1>5, <1>6, <1>7, AboveIff
    <2>2. Len(v) = Len(p) + 1 /\ Len(p) \in Nat /\ \A k \in 1..Len(p) : v[k + 1] = p[k]
      BY <1>5, <1>9, ShadowedFacts
    <2>3. Len(w) = Len(q) + 1 /\ Len(q) \in Nat /\ \A k \in 1..Len(q) : w[k + 1] = q[k]
      BY <1>6, <1>9, ShadowedFacts
    <2>4. Len(p) \in 1..(Len(q) - 1)
      BY <1>5, <2>1, <2>2, <2>3
    <2>5. ASSUME NEW k \in 1..Len(p)
          PROVE  p[k] = q[k]
      <3>1. k + 1 \in 1..Len(v) /\ k \in 1..Len(q)
        BY <2>2, <2>3, <2>4
      <3> QED
        BY <2>1, <2>2, <2>3, <3>1
    <2>6. p \in Above(q)
      BY <1>5, <1>6, <2>4, <2>5, AboveIff
    <2> QED
      BY <1>1, <1>2, <2>6
  <1> QED
    BY <1>5, <1>6, <1>7, <1>8, <1>9

\* The paths that were asked for, and those of the users, do not meet.
LEMMA FreeFacts ==
    ASSUME doc \in Documents, PathsFree, NEW i \in Planned("writefile"), NEW p, p = doc.plan[i].path
    PROVE  /\ p \notin DOMAIN doc.image.tree
           /\ \A q \in Above(p) \cap DOMAIN doc.image.tree : doc.image.tree[q].kind = "dir"
           /\ \A j \in Planned("writefile") : p \notin Above(doc.plan[j].path)
           /\ \A u \in Names : p \notin UpTo(SSHDir(u)) /\ KeysFile(u) \notin Above(p)
  BY DEF PathsFree, Wrote, Names

LEMMA UserFree ==
    ASSUME doc \in Documents, PathsFree, NEW u \in Names
    PROVE  /\ \A q \in UpTo(SSHDir(u)) \cap DOMAIN doc.image.tree : doc.image.tree[q].kind = "dir"
           /\ KeysFile(u) \in DOMAIN doc.image.tree => doc.image.tree[KeysFile(u)].kind = "file"
  BY DEF PathsFree, Names

\* Paths of users do not start like what lies below a mount point.
LEMMA UserStart ==
    ASSUME NEW u \in Name
    PROVE  /\ \A q \in UpTo(SSHDir(u)) : q \in Paths /\ Len(q) > 0 /\ q[1] # "shadowed"
           /\ KeysFile(u)[1] # "shadowed" /\ KeysFile(u) \in Paths /\ Len(KeysFile(u)) > 0
  <1>1. /\ SSHDir(u) \in Paths /\ Len(SSHDir(u)) > 0 /\ SSHDir(u)[1] # "shadowed"
        /\ KeysFile(u) \in Paths /\ Len(KeysFile(u)) > 0 /\ KeysFile(u)[1] # "shadowed"
    BY UserPaths
  <1> QED
    BY <1>1, SameStart

LEMMA GivenStart ==
    ASSUME doc \in Documents, NEW p \in DOMAIN doc.image.tree, p # <<>>
    PROVE  p[1] # "shadowed"
  BY ImageAssumption

LEMMA MountStart ==
    ASSUME NEW p \in MountPoints(doc)
    PROVE  p[1] = "shadowed"
  BY DEF MountPoints

LEMMA Unblocked ==
    ASSUME Control, Kept, Origin, TreeOK, PathsFree
    PROVE  /\ \A j \in Planned("writefile") : (\A q \in Above(WrittenAt(j)) : ~IsFile(q)) /\ ~IsDir(WrittenAt(j))
           /\ \A u \in Names : (\A q \in UpTo(SSHDir(u)) : ~IsFile(q)) /\ ~IsDir(KeysFile(u))
  <1>1. doc \in Documents
    BY DEF Control
  <1>2. \A u \in Names : u \in Name
    BY <1>1, NameFacts
  \* What the image has is still of its kind, and so is what was found.
  <1>3. ASSUME NEW q \in DOMAIN tree
        PROVE  \/ q \in DOMAIN doc.image.tree /\ (tree[q].kind = "dir" <=> doc.image.tree[q].kind = "dir")
               \/ q \in MountPoints(doc) /\ tree[q].kind = "dir" /\ q[1] = "shadowed"
               \/ OriginOf(q)
    BY MountStart DEF Kept, Origin, Given
  <1>4. ASSUME NEW j \in Planned("writefile"), NEW q \in Above(WrittenAt(j)), IsFile(q)
        PROVE  FALSE
    <2>1. PICK p : p = doc.plan[j].path
      OBVIOUS
    <2>2. PICK w : w = WrittenAt(j)
      OBVIOUS
    <2>3. w \in Paths /\ Len(w) > 0 /\ (w[1] # "shadowed" => w = p)
      BY <1>1, <2>1, <2>2, WrittenIs
    <2>4. q \in Paths /\ Len(q) > 0 /\ q[1] = w[1] /\ q \in DOMAIN tree /\ tree[q].kind # "dir"
      BY <1>4, <2>2, <2>3, SameStart DEF UpTo, IsFile
    <2>5. CASE q \in DOMAIN doc.image.tree /\ doc.image.tree[q].kind # "dir"
      <3>1. q # <<>>
        BY <2>4
      <3>2. q[1] # "shadowed"
        BY <1>1, <2>5, <3>1, GivenStart
      <3>3. q \in Above(p)
        BY <2>2, <2>3, <2>4, <3>2
      <3> QED
        BY <1>1, <2>1, <2>5, <3>3, FreeFacts
    <2>6. CASE \E i \in Planned("writefile") : q = WrittenAt(i)
      BY <1>1, <2>6, WrittenAbove, FreeFacts
    <2>7. CASE \E u \in Names : q = KeysFile(u)
      <3>1. PICK u \in Names : q = KeysFile(u)
        BY <2>7
      <3>2. q[1] # "shadowed"
        BY <1>2, <3>1, UserStart
      <3>3. KeysFile(u) \in Above(p)
        BY <2>2, <2>3, <2>4, <3>1, <3>2
      <3> QED
        BY <1>1, <2>1, <3>3, FreeFacts
    <2> QED
      BY <1>3, <2>4, <2>5, <2>6, <2>7 DEF OriginOf
  <1>5. ASSUME NEW j \in Planned("writefile"), IsDir(WrittenAt(j))
        PROVE  FALSE
    <2>1. PICK p : p = doc.plan[j].path
      OBVIOUS
    <2>2. PICK w : w = WrittenAt(j)
      OBVIOUS
    <2>3. /\ p \in Paths /\ Len(p) > 0 /\ p[1] # "shadowed" /\ w \in Paths /\ Len(w) > 0
          /\ w = p \/ (w = Shadowed(p) /\ w[1] = "shadowed" /\ p[1] \in doc.siblings)
      BY <1>1, <2>1, <2>2, WrittenIs
    <2>4. w \in DOMAIN tree /\ tree[w].kind = "dir"
      BY <1>5, <2>2 DEF IsDir
    <2>5. CASE w \in DOMAIN doc.image.tree
      <3>1. w # <<>>
        BY <2>3
      <3>2. w[1] # "shadowed"
        BY <1>1, <2>5, <3>1, GivenStart
      <3> QED
        BY <1>1, <2>1, <2>3, <2>5, <3>2, FreeFacts
    <2>6. CASE w \in MountPoints(doc)
      <3>1. w = Shadowed(p)
        BY <2>3, <2>6, MountStart
      <3>2. Len(w) = Len(p) + 1 /\ Len(p) \in Nat /\ \A k \in 1..Len(p) : w[k + 1] = p[k]
        BY <2>3, <3>1, ShadowedFacts
      <3>3. PICK s \in doc.siblings : w = <<"shadowed", s>>
        <4>1. Len(w) # 1
          BY <2>3, <3>2
        <4>2. Len(<<"shadowed">>) = 1
          OBVIOUS
        <4> QED
          BY <2>6, <4>1, <4>2 DEF MountPoints
      <3>4. Len(w) = 2 /\ w[2] = s
        BY <3>3
      <3>5. Len(p) = 1
        <4>1. PICK m : m = Len(p)
          OBVIOUS
        <4>2. m \in Nat /\ 2 = m + 1
          BY <3>2, <3>4, <4>1, Zenon
        <4>3. m = 1
          BY <4>2
        <4> QED
          BY <4>1, <4>3
      <3>6. p[1] = s
        <4>1. 1 \in 1..Len(p) /\ 1 + 1 = 2
          BY <3>5
        <4> QED
          BY <3>2, <3>4, <4>1
      <3>7. p = <<s>>
        BY <2>3, <3>5, <3>6 DEF Paths
      <3>8. p \in DOMAIN doc.image.tree
        BY <1>1, <3>3, <3>7, ImageAssumption
      <3> QED
        BY <1>1, <2>1, <3>8, FreeFacts
    <2>7. CASE \E i \in Planned("writefile") : w \in Above(WrittenAt(i))
      BY <1>1, <2>2, <2>7, WrittenAbove, FreeFacts
    <2>8. CASE \E u \in Names : w \in UpTo(SSHDir(u))
      <3>1. PICK u \in Names : w \in UpTo(SSHDir(u))
        BY <2>8
      <3>2. w[1] # "shadowed"
        BY <1>2, <3>1, UserStart
      <3>3. p \in UpTo(SSHDir(u))
        BY <2>3, <3>1, <3>2
      <3> QED
        BY <1>1, <2>1, <3>3, FreeFacts
    <2> QED
      BY <1>3, <2>4, <2>5, <2>6, <2>7, <2>8 DEF OriginOf
  <1>6. ASSUME NEW u \in Names, NEW q \in UpTo(SSHDir(u)), IsFile(q)
        PROVE  FALSE
    <2>1. q[1] # "shadowed" /\ q \in DOMAIN tree /\ tree[q].kind # "dir"
      BY <1>2, <1>6, UserStart DEF IsFile
    <2>2. CASE q \in DOMAIN doc.image.tree /\ doc.image.tree[q].kind # "dir"
      BY <1>1, <2>2, UserFree
    <2>3. CASE \E i \in Planned("writefile") : q = WrittenAt(i)
      <3>1. PICK i \in Planned("writefile") : q = WrittenAt(i)
        BY <2>3
      <3>2. q = doc.plan[i].path
        BY <1>1, <2>1, <3>1, WrittenIs
      <3> QED
        BY <1>1, <3>2, FreeFacts
    <2>4. CASE \E v \in Names : q = KeysFile(v)
      BY <1>2, <2>4, UserPathsApart
    <2> QED
      BY <1>3, <2>1, <2>2, <2>3, <2>4 DEF OriginOf
  <1>7. ASSUME NEW u \in Names, IsDir(KeysFile(u))
        PROVE  FALSE
    <2>1. PICK k : k = KeysFile(u)
      OBVIOUS
    <2>2. k[1] # "shadowed" /\ k \in DOMAIN tree /\ tree[k].kind = "dir"
      BY <1>2, <1>7, <2>1, UserStart DEF IsDir
    <2>3. CASE k \in DOMAIN doc.image.tree /\ doc.image.tree[k].kind = "dir"
      BY <1>1, <2>1, <2>3, UserFree
    <2>4. CASE \E i \in Planned("writefile") : k \in Above(WrittenAt(i))
      <3>1. PICK i \in Planned("writefile") : k \in Above(WrittenAt(i))
        BY <2>4
      <3>2. PICK w : w = WrittenAt(i)
        OBVIOUS
      <3>3. w \in Paths /\ Len(w) > 0 /\ (w[1] # "shadowed" => w = doc.plan[i].path)
        BY <1>1, <3>2, WrittenIs
      <3>4. k[1] = w[1]
        BY <3>1, <3>2, <3>3, SameStart DEF UpTo
      <3>5. k \in Above(doc.plan[i].path)
        BY <2>2, <3>1, <3>2, <3>3, <3>4
      <3> QED
        BY <1>1, <2>1, <3>5, FreeFacts
    <2>5. CASE \E v \in Names : k \in UpTo(SSHDir(v))
      BY <1>2, <2>1, <2>5, UserPathsApart
    <2> QED
      BY <1>3, <2>2, <2>3, <2>4, <2>5 DEF OriginOf
  <1> QED
    BY <1>4, <1>5, <1>6, <1>7

-----------------------------------------------------------------------------
(* What kexec finds.                                                       *)

\* Nobody wrote a menu where nobody was asked to.
Untouched == Writers = {} => grubcfg.seen = doc.image.grubcfg

LEMMA InitUntouched == Init => Untouched
  BY DEF Init, SerialConsoleInit, Untouched

LEMMA UntouchedStep == Control /\ DefaultsInv /\ Untouched /\ [Next]_all => Untouched'
  <1> SUFFICES ASSUME Control, DefaultsInv, Untouched, [Next]_all PROVE Untouched'
    OBVIOUS
  <1>1. doc' = doc
    BY BehindStep
  <1>2. Writers' = Writers
    BY <1>1 DEF Writers, Planned
  <1>3. CASE grubcfg' = grubcfg
    BY <1>1, <1>2, <1>3 DEF Untouched
  <1>4. CASE RunMkConfig
    <2>1. at \in Planned("serial-console") /\ doc.console # None
      BY <1>4 DEF RunMkConfig, At, Act, Planned, Control, DefaultsInv
    <2> QED
      BY <1>2, <2>1 DEF Untouched, Writers
  <1>5. CASE UpdateGrub
    <2>1. at \in Planned("grub2disk")
      BY <1>5 DEF UpdateGrub, At, Act, Planned, Control
    <2> QED
      BY <1>2, <2>1 DEF Untouched, Writers
  <1>6. SerialConsoleNext => RunMkConfig \/ grubcfg' = grubcfg
    BY DEF SerialConsoleNext, BeginSerialConsole, RewriteDefaults, grub
  <1>7. Grub2diskNext => UpdateGrub \/ grubcfg' = grubcfg
    BY DEF Grub2diskNext, BeginGrub2disk, DoBIOS, GrubInstall, CopyFallback, CopyGrub, RegisterNVRAM, grub
  <1> QED
    BY <1>3, <1>4, <1>5, <1>6, <1>7, StepKind DEF grub

\* Kernels and command lines that kexec can come upon.
ToBoot == {doc.plan[i] : i \in Planned("kexec")}
Kernels ==
    (UNION {{doc.image.menu[i].entries[j].kernel : j \in DOMAIN doc.image.menu[i].entries} : i \in DOMAIN doc.image.menu})
    \cup (UNION {{a.kernel, a.initrd} : a \in ToBoot})
CmdLines == {<<>>} \cup {Args(file) : file \in DefaultsSeen} \cup {a.args : a \in ToBoot}

LEMMA NothingIsNone ==
    ASSUME doc \in Documents
    PROVE  /\ \A args \in CmdLines : MenuOf(doc.image, args) # None
           /\ \A k \in Kernels, i \in Kernels, args \in CmdLines : [kernel |-> k, initrd |-> i, args |-> args] # None
  <1> DEFINE files == {doc.image.defaults} \cup (IF doc.console # None /\ doc.image.defaults # None
                                                THEN {RewriteGrubDefaults(doc.image.defaults, doc.console)} ELSE {})
             cmdlines == {<<>>} \cup {Args(file) : file \in files} \cup {a.args : a \in ToBoot}
  <1>1. /\ None \notin {MenuOf(doc.image, args) : args \in cmdlines}
        /\ None \notin [kernel : Kernels, initrd : Kernels, args : cmdlines]
    BY KexecAssumption DEF ToBoot, Kernels, Planned
  <1>2. CmdLines \subseteq cmdlines
    <2>1. ASSUME NEW file \in DefaultsSeen
          PROVE  Args(file) \in cmdlines
      <3>1. CASE file \in files
        BY <3>1
      <3>2. CASE file = TornDefaults
        <4>1. Args(file) = <<>>
          BY <3>2, TornAssumption DEF Args, TornDefaults
        <4> QED
          BY <4>1
      <3> QED
        BY <2>1, <3>1, <3>2 DEF DefaultsSeen, Rewritten
    <2> QED
      BY <2>1 DEF CmdLines
  <1> HIDE DEF cmdlines
  <1> QED
    BY <1>1, <1>2

\* The file of defaults stays a file.
LEMMA DefaultsThere ==
    ASSUME Control, DefaultsInv, doc.image.defaults # None
    PROVE  defaults # None
  <1>1. doc \in Documents
    BY DEF Control
  <1>2. doc.console # None => Rewritten # None
    BY <1>1, ImageDefaults
  <1> QED
    BY <1>2, TornAssumption DEF DefaultsInv, DefaultsSeen, TornDefaults

LEMMA DefaultKernel ==
    ASSUME doc \in Documents
    PROVE  GrubDefault.kernel \in Kernels
  <1>1. PICK m : m = doc.image.menu
    OBVIOUS
  <1>2. /\ m \in Seq({m[i] : i \in DOMAIN m}) /\ Len(m) > 0
        /\ \A i \in DOMAIN m : /\ m[i].entries \in Seq({m[i].entries[j] : j \in DOMAIN m[i].entries})
                               /\ Len(m[i].entries) > 0
    <2>1. /\ doc.image.menu \in Seq({doc.image.menu[i] : i \in DOMAIN doc.image.menu}) /\ Len(doc.image.menu) > 0
          /\ \A i \in DOMAIN doc.image.menu :
                /\ doc.image.menu[i].entries \in Seq({doc.image.menu[i].entries[j] : j \in DOMAIN doc.image.menu[i].entries})
                /\ Len(doc.image.menu[i].entries) > 0
      BY GrubAssumption
    <2> QED
      BY <1>1, <2>1
  <1>3. 1 \in DOMAIN m
    BY <1>2
  <1>4. \A i \in DOMAIN m : 1 \in DOMAIN m[i].entries
    <2> SUFFICES ASSUME NEW i \in DOMAIN m PROVE 1 \in DOMAIN m[i].entries
      OBVIOUS
    <2>1. PICK e : e = m[i].entries
      OBVIOUS
    <2>2. PICK S : e \in Seq(S) /\ Len(e) > 0
      BY <1>2, <2>1
    <2>3. 1 \in DOMAIN e
      BY <2>2
    <2> QED
      BY <2>1, <2>3
  <1>5. PICK x \in DOMAIN m : GrubDefault = m[x].entries[1]
    BY <1>1, <1>3 DEF GrubDefault
  <1>6. GrubDefault.kernel \in {m[x].entries[j].kernel : j \in DOMAIN m[x].entries}
    BY <1>4, <1>5
  <1> DEFINE sets == {{doc.image.menu[i].entries[j].kernel : j \in DOMAIN doc.image.menu[i].entries} : i \in DOMAIN doc.image.menu}
  <1>7. UNION sets \subseteq Kernels
    BY DEF Kernels
  <1>8. {m[x].entries[j].kernel : j \in DOMAIN m[x].entries} \in sets
    BY <1>1, <1>5
  <1> HIDE DEF sets
  <1> QED
    BY <1>6, <1>7, <1>8

LEMMA KexecFinds ==
    ASSUME Control, DiskInv, DefaultsInv, Untouched, Workable, status = "running", Act.kind = "kexec"
    PROVE  BootConfig # None /\ BootConfig.initrd # None /\ Openable(BootConfig)
  <1>1. doc \in Documents /\ at \in Planned("kexec") /\ Act \in ToBoot
    BY DEF Control, Planned, Act, ToBoot
  <1>2. Args(defaults) \in CmdLines /\ Act.args \in CmdLines
    BY <1>1 DEF CmdLines, DefaultsInv
  <1>3. CASE Act.kernel # None
    <2>1. PICK args \in CmdLines : BootConfig = [kernel |-> Act.kernel, initrd |-> Act.initrd, args |-> args]
      <3>1. <<>> \in CmdLines
        BY DEF CmdLines
      <3> QED
        BY <1>2, <1>3, <3>1 DEF BootConfig
    <2>2. Act.kernel \in Kernels /\ Act.initrd \in Kernels
      <3> DEFINE sets == {{a.kernel, a.initrd} : a \in ToBoot}
      <3>1. {Act.kernel, Act.initrd} \in sets
        BY <1>1
      <3>2. UNION sets \subseteq Kernels
        BY DEF Kernels
      <3> HIDE DEF sets
      <3> QED
        BY <3>1, <3>2
    <2>3. Act.initrd # None /\ {Act.kernel, Act.initrd} \subseteq doc.image.files
      BY <1>1, <1>3 DEF Workable, Act
    <2>4. BootConfig.kernel = Act.kernel /\ BootConfig.initrd = Act.initrd
      BY <2>1
    <2>5. Openable(BootConfig)
      BY <2>3, <2>4 DEF Openable
    <2> QED
      BY <1>1, <2>1, <2>2, <2>3, <2>5, NothingIsNone
  <1>4. CASE Act.kernel = None
    <2>1. /\ PlainMenu /\ View(Act.onBoot) = "seen" /\ GrubDefault.kernel \in doc.image.files
          /\ (\E i \in MenuMakers : i < at) \/ (doc.image.grubcfg # None /\ Writers = {})
      BY <1>1, <1>4 DEF Workable, Act, View
    <2>2. PICK args \in CmdLines : grubcfg.seen = MenuOf(doc.image, args)
      <3>1. CASE \E i \in MenuMakers : i < at
        <4>1. PICK i \in MenuMakers : i < at
          BY <3>1
        <4>2. i \in 1..(at - 1)
          <5>1. i \in DOMAIN doc.plan /\ at \in DOMAIN doc.plan
            BY DEF MenuMakers, Planned, Control
          <5> QED
            BY <1>1, <4>1, <5>1, PlanFacts
        <4>3. i \in Behind
          BY <4>2 DEF Behind, Finished
        <4>4. grubcfg.seen = Menu
          BY <4>3 DEF DiskInv, MenuMade, Rewriting
        <4> QED
          BY <1>2, <4>4 DEF Menu
      <3>2. CASE doc.image.grubcfg # None /\ Writers = {}
        <4>1. grubcfg.seen = MenuOf(doc.image, Args(doc.image.defaults))
          BY <1>1, <3>2, GrubAssumption DEF Untouched
        <4> QED
          BY <4>1 DEF CmdLines, DefaultsSeen
      <3> QED
        BY <2>1, <3>1, <3>2
    <2>3. PICK c : c = GetDefaultConfig(grubcfg.seen)
      OBVIOUS
    <2>4. /\ c = [kernel |-> GrubDefault.kernel, initrd |-> GrubDefault.kernel, args |-> args]
          /\ GrubDefault.kernel # None
      BY <1>1, <2>1, <2>2, <2>3, PlainBoots
    <2>5. grubcfg.seen # None
      BY <1>1, <2>2, NothingIsNone
    <2>6. GrubDefault.kernel \in Kernels
      BY <1>1, DefaultKernel
    <2>7. c # None
      BY <1>1, <2>4, <2>6, NothingIsNone
    <2>8. PICK lines : lines = grubcfg[View(Act.onBoot)]
      OBVIOUS
    <2>9. lines = grubcfg.seen
      BY <2>1, <2>8
    <2>10. BootConfig = IF Act.args # None THEN [c EXCEPT !.args = Act.args] ELSE c
      <3>1. c = IF lines = None THEN None ELSE GetDefaultConfig(lines)
        BY <2>3, <2>5, <2>9
      <3> QED
        BY <1>4, <2>7, <2>8, <3>1 DEF BootConfig
    <2>11. PICK k : k = GrubDefault.kernel
      OBVIOUS
    <2>12. PICK r : r = BootConfig
      OBVIOUS
    <2>13. r = [kernel |-> k, initrd |-> k, args |-> args] \/ r = [kernel |-> k, initrd |-> k, args |-> Act.args]
      BY <2>4, <2>10, <2>11, <2>12
    <2>14. Openable(r)
      <3>1. r.kernel = k /\ r.initrd = k /\ k \in doc.image.files
        BY <2>1, <2>11, <2>13
      <3> QED
        BY <3>1 DEF Openable
    <2> QED
      BY <1>1, <1>2, <2>4, <2>6, <2>11, <2>12, <2>13, <2>14, NothingIsNone
  <1> QED
    BY <1>3, <1>4

-----------------------------------------------------------------------------
(* Nothing refuses its work.                                               *)

\* What makes an action exit with an error, without a fault.
Refused ==
    \/ Act.kind = "writefile" /\ ((\E q \in Above(Dest) : IsFile(q)) \/ IsDir(Dest))
    \/ Act.kind = "user-manage" /\ pc = "keys"
       /\ (\/ (\E q \in UpTo(SSHDir(Who.name)) : IsFile(q)) \/ IsDir(KeysFile(Who.name))
           \/ Who.keys /\ ~OwnGroup(Who.name))
    \/ Act.kind = "user-manage" /\ pc = "ensure" /\ Who.name \notin DOMAIN accounts /\ Who.name \in doc.image.groups
    \/ Act.kind = "user-manage" /\ pc = "sudo" /\ Who.sudo /\ "sudo" \notin doc.image.groups
    \/ Act.kind = "serial-console" /\ doc.console # None /\ defaults = None
    \/ Act.kind = "kexec" /\ (BootConfig = None \/ BootConfig.initrd = None \/ ~Openable(BootConfig))

LEMMA Refusals ==
    ASSUME [Next]_all, status' = "failed", ~disturbed'
    PROVE  scars' = scars /\ ((status = "failed" /\ disturbed' = disturbed) \/ (status = "running" /\ Refused))
  <1>1. Fault => disturbed'
    BY DEF Fault
  <1>2. \A p, i : Go(p, i) => status' = status
    BY DEF Go
  <1>3. ActionDone => status' # "failed"
    BY DEF ActionDone
  <1>4. CASE WriteFileNext
    <2>1. status = "running" /\ Act.kind = "writefile"
      BY <1>4 DEF WriteFileNext, BeginWriteFile, EnsureDir, DirsEnsured, WriteContents, At
    <2>2. scars' = scars /\ ((\E q \in Above(Dest) : IsFile(q)) \/ IsDir(Dest))
      BY <1>1, <1>2, <1>3, <1>4, <2>1 DEF WriteFileNext, BeginWriteFile, EnsureDir, DirsEnsured, WriteContents
    <2> QED
      BY <2>1, <2>2 DEF Refused
  <1>5. CASE UserManageNext
    <2>1. status = "running" /\ Act.kind = "user-manage"
      BY <1>5 DEF UserManageNext, BeginUserManage, EnsureUser, SetPassword, WriteAuthorizedKeys, AddToGroup, UpdateSSHD, At
    <2>2. ~BeginUserManage /\ ~SetPassword
      BY <1>2, <2>1 DEF BeginUserManage, SetPassword
    <2>3. CASE EnsureUser
      <3>1. pc = "ensure"
        BY <2>3 DEF EnsureUser, At
      <3>2. scars' = scars /\ Who.name \notin DOMAIN accounts /\ Who.name \in doc.image.groups
        BY <1>1, <1>2, <2>1, <2>3 DEF EnsureUser
      <3> QED
        BY <2>1, <3>1, <3>2 DEF Refused
    <2>4. ~UpdateSSHD
      BY <1>1, <1>3, <2>1 DEF UpdateSSHD
    <2>5. CASE WriteAuthorizedKeys
      <3>1. pc = "keys" /\ scars' = scars
        BY <2>5 DEF WriteAuthorizedKeys, At
      <3>2. \/ (\E q \in UpTo(SSHDir(Who.name)) : IsFile(q)) \/ IsDir(KeysFile(Who.name))
            \/ Who.keys /\ ~OwnGroup(Who.name)
        BY <1>1, <1>2, <2>1, <2>5 DEF WriteAuthorizedKeys
      <3> QED
        BY <2>1, <3>1, <3>2 DEF Refused
    <2>6. CASE AddToGroup
      <3>1. pc = "sudo" /\ scars' = scars
        BY <2>6 DEF AddToGroup, At
      <3>2. Who.sudo /\ "sudo" \notin doc.image.groups
        BY <1>2, <2>1, <2>6 DEF AddToGroup
      <3> QED
        BY <2>1, <3>1, <3>2 DEF Refused
    <2> QED
      BY <1>5, <2>2, <2>3, <2>4, <2>5, <2>6 DEF UserManageNext
  <1>6. CASE SerialConsoleNext
    <2>1. status = "running" /\ Act.kind = "serial-console"
      BY <1>6 DEF SerialConsoleNext, BeginSerialConsole, RewriteDefaults, RunMkConfig, At
    <2>2. ~RewriteDefaults /\ ~RunMkConfig
      BY <1>1, <1>2, <1>3, <2>1 DEF RewriteDefaults, RunMkConfig, MkConfig
    <2>3. BeginSerialConsole
      BY <1>6, <2>2 DEF SerialConsoleNext
    <2>4. scars' = scars /\ doc.console # None /\ defaults = None
      BY <1>2, <1>3, <2>1, <2>3 DEF BeginSerialConsole
    <2> QED
      BY <2>1, <2>4 DEF Refused
  <1>7. CASE Grub2diskNext
    <2>1. status = "running"
      BY <1>7 DEF Grub2diskNext, BeginGrub2disk, DoBIOS, GrubInstall, UpdateGrub, CopyFallback, CopyGrub, RegisterNVRAM, At
    <2>2. Slip => status' = status
      BY DEF Slip
    <2> QED
      BY <1>1, <1>2, <1>3, <1>7, <2>1, <2>2
         DEF Grub2diskNext, BeginGrub2disk, DoBIOS, GrubInstall, UpdateGrub, MkConfig, CopyFallback, CopyGrub, RegisterNVRAM
  <1>8. CASE KexecNext
    <2>1. status = "running" /\ Act.kind = "kexec" /\ scars' = scars
      BY <1>8 DEF KexecNext, BeginKexec, LoadAndReboot, At
    <2>2. BootConfig = None \/ BootConfig.initrd = None \/ ~Openable(BootConfig)
      BY <1>2, <1>3, <1>8, <2>1 DEF KexecNext, BeginKexec, LoadAndReboot
    <2> QED
      BY <2>1, <2>2 DEF Refused
  <1>9. CASE Stop \/ Rerun
    BY <1>1, <1>9 DEF Stop, Rerun
  <1>10. CASE UNCHANGED all
    BY <1>10 DEF all, control
  <1> QED
    BY <1>4, <1>5, <1>6, <1>7, <1>8, <1>9, <1>10 DEF Next

LEMMA NothingRefused ==
    ASSUME TreeInv, DiskInv, DefaultsInv, Untouched, Workable, status = "running"
    PROVE  ~Refused
  <1>1. Control /\ doc \in Documents /\ PathsFree
    BY DEF TreeInv, Control, Workable
  <1>2. /\ \A j \in Planned("writefile") : (\A q \in Above(WrittenAt(j)) : ~IsFile(q)) /\ ~IsDir(WrittenAt(j))
        /\ \A u \in Names : (\A q \in UpTo(SSHDir(u)) : ~IsFile(q)) /\ ~IsDir(KeysFile(u))
    BY <1>1, Unblocked DEF TreeInv
  <1>3. ASSUME Act.kind = "writefile"
        PROVE  (\A q \in Above(Dest) : ~IsFile(q)) /\ ~IsDir(Dest)
    <2>1. at \in Planned("writefile") /\ Dest = WrittenAt(at)
      BY <1>1, <1>3 DEF Control, Planned, Act, Dest, WrittenAt
    <2> QED
      BY <1>2, <2>1
  <1>4. ASSUME Act.kind = "user-manage", pc \in {"ensure", "keys", "sudo"}
        PROVE  n \in DOMAIN Principals
    BY <1>4 DEF TreeInv, InUserManage
  <1>5. ASSUME Act.kind = "user-manage", pc = "keys"
        PROVE  /\ (\A q \in UpTo(SSHDir(Who.name)) : ~IsFile(q)) /\ ~IsDir(KeysFile(Who.name))
               /\ Who.keys => OwnGroup(Who.name)
    <2>1. Who.name \in Names
      BY <1>1, <1>4, <1>5, NameFacts DEF Who
    <2>2. Who.keys => OwnGroup(Who.name)
      BY <1>4, <1>5 DEF Workable, Who
    <2> QED
      BY <1>2, <2>1, <2>2
  \* An account, once it is there, stays.
  <1>9. ASSUME Act.kind = "user-manage", pc = "ensure", Who.name \notin DOMAIN accounts
        PROVE  Who.name \notin doc.image.groups
    <2>1. Who.name \notin DOMAIN doc.image.accounts
      BY <1>9 DEF TreeInv, Accounts
    <2> QED
      BY <1>4, <1>9, <2>1 DEF Workable, Who
  <1>6. ASSUME Act.kind = "user-manage", pc = "sudo", Who.sudo
        PROVE  "sudo" \in doc.image.groups
    <2>1. \E j \in DOMAIN doc.users : doc.users[j].sudo
      BY <1>1, <1>4, <1>6, PrincipalFacts DEF Who
    <2> QED
      BY <2>1 DEF Workable
  <1>7. ASSUME Act.kind = "serial-console", doc.console # None
        PROVE  defaults # None
    <2>1. at \in Planned("serial-console")
      BY <1>1, <1>7 DEF Control, Planned, Act
    <2>2. doc.image.defaults # None
      BY <1>7, <2>1 DEF Workable
    <2> QED
      BY <1>1, <2>2, DefaultsThere
  <1>8. ASSUME Act.kind = "kexec"
        PROVE  BootConfig # None /\ BootConfig.initrd # None /\ Openable(BootConfig)
    BY <1>1, <1>8, KexecFinds
  <1> QED
    BY <1>3, <1>5, <1>6, <1>7, <1>8, <1>9 DEF Refused

LEMMA WorkableFrame ==
    ASSUME doc' = doc, scars' = scars
    PROVE  Workable' = Workable
  <1>1. PathsFree' = PathsFree
    BY DEF PathsFree, Wrote, Planned, Principals
  <1>2. PlainMenu' = PlainMenu
    BY DEF PlainMenu
  <1>3. MenuMakers' = MenuMakers /\ Writers' = Writers
    BY DEF MenuMakers, Writers, Planned, SeeBoot
  <1>4. Principals' = Principals /\ \A u : OwnGroup(u)' <=> OwnGroup(u)
    BY DEF Principals, OwnGroup
  <1>5. GrubDefault' = GrubDefault
    BY DEF GrubDefault
  <1> QED
    BY <1>1, <1>2, <1>3, <1>4, <1>5 DEF Workable, Planned

LEMMA RerunStep ==
    TreeInv /\ DiskInv /\ DefaultsInv /\ Untouched /\ RerunSucceeds /\ [Next]_all => RerunSucceeds'
  <1> SUFFICES ASSUME TreeInv, DiskInv, DefaultsInv, Untouched, RerunSucceeds, [Next]_all,
                      Workable', status' = "failed", ~disturbed'
               PROVE  FALSE
    BY DEF RerunSucceeds
  <1>1. scars' = scars /\ ((status = "failed" /\ disturbed' = disturbed) \/ (status = "running" /\ Refused))
    BY Refusals
  <1>2. doc' = doc
    BY BehindStep DEF TreeInv
  <1>3. Workable
    BY <1>1, <1>2, WorkableFrame
  <1> QED
    BY <1>1, <1>3, NothingRefused DEF RerunSucceeds

\* For every document on which nothing stands in the way, and every history of
\* faults and reruns: a run without a fault of its own does not fail.  Nothing that
\* a fault left behind blocks recursiveEnsureDir (writefile/main.go), MkdirAll and
\* the write of the keys, serial-console's read of the defaults or kexec's search.
THEOREM RerunsSucceed == Spec => []RerunSucceeds
  <1> DEFINE I == TreeInv /\ DiskInv /\ DefaultsInv /\ Untouched /\ RerunSucceeds
  <1>1. Init => I
    <2>1. Init => RerunSucceeds
      BY DEF Init, TargetInit, RerunSucceeds
    <2> QED
      BY <2>1, InitTreeInv, InitDiskInv, InitDefaults, InitUntouched
  <1>2. I /\ [Next]_all => I'
    <2>1. TreeInv => Control
      BY DEF TreeInv
    <2> QED
      BY <2>1, TreeInvStep, DiskStep, DefaultsStep, UntouchedStep, RerunStep
  <1>3. I => RerunSucceeds
    OBVIOUS
  <1> QED
    BY <1>1, <1>2, <1>3, PTL DEF Spec

-----------------------------------------------------------------------------
(* Types.                                                                  *)

LoaderTypes ==
    /\ \A d \in Disks : /\ esp[d].vendor \subseteq {"shim", "grub"} /\ esp[d].beside \in BOOLEAN
                        /\ reads[d] \in {None, "seen", "hidden"}
    /\ nvram \subseteq Disks

LEMMA LoaderTypesStep == Control /\ LoaderOK /\ LoaderTypes /\ [Next]_all => LoaderTypes'
  <1> SUFFICES ASSUME Control, LoaderOK, LoaderTypes, [Next]_all PROVE LoaderTypes'
    OBVIOUS
  <1>1. CASE UNCHANGED loader
    BY <1>1 DEF LoaderTypes, loader
  <1>2. CASE Grub2diskNext /\ status = "running" /\ Act.kind = "grub2disk"
    <2>1. PICK e : e = Act.disk
      OBVIOUS
    <2>2. e \in Disks
      BY <1>2, <2>1, Grub2diskHere
    <2>3. BootView \in {"seen", "hidden"}
      BY DEF BootView, View
    <2>4. esp = [d \in Disks |-> [vendor |-> esp[d].vendor, fallback |-> esp[d].fallback, beside |-> esp[d].beside]]
      BY DEF LoaderOK
    <2>5. ASSUME reads' = [reads EXCEPT ![e] = BootView]
          PROVE  \A d \in Disks : reads'[d] \in {None, "seen", "hidden"}
      BY <2>2, <2>3, <2>5 DEF LoaderOK, LoaderTypes
    <2>6. CASE BeginGrub2disk \/ UpdateGrub
      BY <1>1, <2>6 DEF BeginGrub2disk, UpdateGrub
    <2>7. CASE DoBIOS
      <3>1. reads' = [reads EXCEPT ![e] = BootView] /\ esp' = esp /\ nvram' = nvram
        BY <2>1, <2>7 DEF DoBIOS
      <3> QED
        BY <2>5, <3>1 DEF LoaderTypes
    <2>8. CASE GrubInstall
      <3>1. /\ reads' = [reads EXCEPT ![e] = BootView] /\ nvram' = nvram
            /\ \E part \in SUBSET VendorFiles : esp' = [esp EXCEPT ![e].vendor = @ \cup part]
        <4>1. VendorFiles \in SUBSET VendorFiles
          OBVIOUS
        <4> QED
          BY <2>1, <2>8, <4>1 DEF GrubInstall
      <3>2. PICK part \in SUBSET {"shim", "grub"} : esp' = [esp EXCEPT ![e].vendor = @ \cup part]
        BY <3>1 DEF VendorFiles
      <3>3. \A d \in Disks : esp'[d] = IF d = e THEN [esp[e] EXCEPT !.vendor = @ \cup part] ELSE esp[d]
        BY <2>2, <2>4, <3>2
      <3>4. PICK x : x = esp[e]
        OBVIOUS
      <3>5. x = [vendor |-> x.vendor, fallback |-> x.fallback, beside |-> x.beside]
        BY <2>2, <2>4, <3>4
      <3>6. esp'[e] = [vendor |-> x.vendor \cup part, fallback |-> x.fallback, beside |-> x.beside]
        BY <2>2, <3>3, <3>4, <3>5
      <3>7. esp'[e].vendor \subseteq {"shim", "grub"} /\ esp'[e].beside \in BOOLEAN
        <4>1. x.vendor \subseteq {"shim", "grub"} /\ x.beside \in BOOLEAN
          BY <2>2, <3>4 DEF LoaderTypes
        <4>2. esp'[e].vendor = x.vendor \cup part /\ esp'[e].beside = x.beside
          BY <3>6
        <4>3. x.vendor \cup part \subseteq {"shim", "grub"}
          BY <3>2, <4>1
        <4> QED
          BY <4>1, <4>2, <4>3
      <3> QED
        BY <2>5, <3>1, <3>3, <3>7 DEF LoaderTypes
    <2>9. CASE CopyFallback
      <3>1. PICK f : esp' = [esp EXCEPT ![e].fallback = f]
        BY <2>1, <2>9 DEF CopyFallback
      <3>2. reads' = reads /\ nvram' = nvram
        BY <2>9 DEF CopyFallback
      <3>3. \A d \in Disks : esp'[d].vendor = esp[d].vendor /\ esp'[d].beside = esp[d].beside
        BY <2>2, <2>4, <3>1
      <3> QED
        BY <3>2, <3>3 DEF LoaderTypes
    <2>10. CASE CopyGrub
      <3>1. PICK b \in BOOLEAN : esp' = [esp EXCEPT ![e].beside = b]
        BY <2>1, <2>10 DEF CopyGrub
      <3>2. reads' = reads /\ nvram' = nvram
        BY <2>10 DEF CopyGrub
      <3>3. \A d \in Disks : esp'[d].vendor = esp[d].vendor /\ esp'[d].beside \in {b, esp[d].beside}
        BY <2>2, <2>4, <3>1
      <3> QED
        BY <3>1, <3>2, <3>3 DEF LoaderTypes
    <2>11. CASE RegisterNVRAM
      <3>1. nvram' \subseteq nvram \cup {e} /\ reads' = reads /\ esp' = esp
        BY <2>1, <2>11 DEF RegisterNVRAM
      <3> QED
        BY <2>2, <3>1 DEF LoaderTypes
    <2> QED
      BY <1>2, <2>6, <2>7, <2>8, <2>9, <2>10, <2>11 DEF Grub2diskNext
  <1> QED
    BY <1>1, <1>2, StepKind DEF all

LEMMA InitLoaderTypes == Init => LoaderTypes
  <1> SUFFICES ASSUME Init PROVE LoaderTypes
    OBVIOUS
  <1>1. /\ esp = [d \in Disks |-> [vendor |-> {}, fallback |-> None, beside |-> FALSE]]
        /\ reads = [d \in Disks |-> None] /\ nvram = {}
    BY DEF Init, Grub2diskInit
  <1>2. \A d \in Disks : esp[d].vendor = {} /\ esp[d].beside = FALSE /\ reads[d] = None
    BY <1>1
  <1> QED
    BY <1>1, <1>2 DEF LoaderTypes

LEMMA MenuTypes ==
    ASSUME Control, LoaderOK, MenusInv, NEW v \in {"seen", "hidden"}, NEW lines, lines = grubcfg[v]
    PROVE  lines = None \/ \A i \in DOMAIN lines : lines[i].kind \in LineKinds
  <1>1. doc \in Documents
    BY DEF Control
  <1>2. \/ lines = None \/ lines = <<>> \/ lines = <<GrubLine("set default", doc.image.default)>>
        \/ \E args : lines = MenuOf(doc.image, args)
    <2>1. lines = grubcfg.seen \/ lines = grubcfg.hidden
      OBVIOUS
    <2> QED
      BY <2>1 DEF MenusInv, MenuFrom
  <1>3. ASSUME NEW V, NEW args, lines \in Made(V, args)
        PROVE  \A i \in DOMAIN lines : lines[i].kind \in LineKinds
    <2>1. lines \in Seq(LineSet(V, args))
      BY <1>3 DEF Made
    <2>2. \A i \in DOMAIN lines : lines[i] \in LineSet(V, args)
      BY <2>1
    <2>3. \A l \in LineSet(V, args) : l.kind \in LineKinds
      BY DEF LineSet
    <2> QED
      BY <2>2, <2>3
  <1>4. CASE lines = <<>>
    BY <1>3, <1>4, NoLineMade
  <1>5. CASE lines = <<GrubLine("set default", doc.image.default)>>
    <2>1. lines \in Made({None, doc.image.default}, <<>>)
      BY <1>5, LineMade
    <2> QED
      BY <1>3, <2>1
  <1>6. CASE \E args : lines = MenuOf(doc.image, args)
    BY <1>1, <1>3, <1>6, MenuMadeOf
  <1> QED
    BY <1>2, <1>4, <1>5, <1>6

\* The document, the tree, the accounts, sshd_config, the menus and the loaders
\* keep their types, whatever fails and however often the workflow is run again.
THEOREM TypeCorrect == Spec => []TypeOK
  <1> DEFINE I == TreeInv /\ DiskInv /\ DefaultsInv /\ MenusInv /\ LoaderTypes
  <1>1. Init => I
    BY InitTreeInv, InitDiskInv, InitDefaults, InitMenus, InitLoaderTypes DEF TreeInv
  <1>2. I /\ [Next]_all => I'
    <2>1. (TreeInv => Control) /\ (DiskInv => LoaderOK)
      BY DEF TreeInv, DiskInv
    <2> QED
      BY <2>1, TreeInvStep, DiskStep, DefaultsStep, MenusStep, LoaderTypesStep
  <1>3. I => TypeOK
    <2> SUFFICES ASSUME I PROVE TypeOK
      OBVIOUS
    <2>1. TargetTypeOK /\ UserManageTypeOK
      BY DEF TreeInv, Control, Accounts, TreeOK, TargetTypeOK
    <2>2. \A v \in {"seen", "hidden"} :
             \/ grubcfg[v] = None
             \/ \A i \in DOMAIN grubcfg[v] : grubcfg[v][i].kind \in LineKinds
      BY MenuTypes DEF TreeInv, DiskInv
    <2> QED
      BY <2>1, <2>2 DEF TypeOK, LoaderTypes, LineKinds
  <1> QED
    BY <1>1, <1>2, <1>3, PTL DEF Spec
=============================================================================
