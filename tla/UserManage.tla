----------------------------- MODULE UserManage -----------------------------
(***************************************************************************)
(* user-manage (user-manage/cmd/main.go, internal/users/users.go): root's  *)
(* password and keys, the users of the metadata, sshd_config.  useradd,    *)
(* chpasswd, gpasswd and chown are modelled from their use.                *)
(***************************************************************************)
EXTENDS Target

VARIABLES
    accounts,  \* /etc/passwd, shadow, group: name -> [uid, pw, sudo]
    sshd       \* the lines of /etc/ssh/sshd_config

users == <<accounts, sshd>>

\* Root, and who else the metadata names; gpasswd is for the others.
ASSUME UsersAssumption == \A d \in Documents :
    LET User == [name : Name, keys : BOOLEAN, pw : BOOLEAN, sudo : BOOLEAN]
    IN /\ d.root \in User /\ d.root.name = "root" /\ ~d.root.sudo
       /\ d.users \in Seq(User)
       /\ DOMAIN d.image.accounts \subseteq Name /\ "root" \in DOMAIN d.image.accounts
       /\ IsFiniteSet(DOMAIN d.image.accounts)
       /\ d.image.accounts \in [DOMAIN d.image.accounts -> [uid : Nat, pw : BOOLEAN, sudo : BOOLEAN]]
       /\ d.image.sshd \in Seq({d.image.sshd[i] : i \in DOMAIN d.image.sshd})
       /\ \A i \in DOMAIN d.image.sshd : d.image.sshd[i].off \in BOOLEAN /\ d.image.sshd[i].odd \in BOOLEAN
       /\ d.sshd = None \/ DOMAIN d.sshd = {"PermitRootLogin", "PasswordAuthentication"}

Principals == <<doc.root>> \o doc.users

Home(u) == IF u = "root" THEN <<"root">> ELSE <<"home", u>>
SSHDir(u) == Append(Home(u), ".ssh")
KeysFile(u) == Append(SSHDir(u), "authorized_keys")

UserManageInit == accounts = doc.image.accounts /\ sshd = doc.image.sshd

-----------------------------------------------------------------------------
(* sshd_config.  A line is a directive `dir' with a value, maybe commented  *)
(* out (`off'), maybe in a spelling that sshd knows and the rewrite does    *)
(* not (`odd': other case, or =).  "Match" starts a block that reaches to   *)
(* the next Match or the end.  "Include" stands for the lines of the files  *)
(* it names, the drop-ins of the image (sshd_config.d): user-manage does not *)
(* look at them, and no writefile of the plan is taken to write any.  A     *)
(* Match in them reaches no further than they do.                           *)

Line(d, v) == [dir |-> d, val |-> v, off |-> FALSE, odd |-> FALSE]
Matches(l, d) == l.dir = d /\ ~l.odd

\* Mutant: commented lines are left alone, and the directive is appended.
ReplaceActive(s, d, v) ==
    IF \E i \in DOMAIN s : Matches(s[i], d) /\ ~s[i].off
    THEN [i \in DOMAIN s |-> IF Matches(s[i], d) /\ ~s[i].off THEN Line(d, v) ELSE s[i]]
    ELSE Append(s, Line(d, v))

\* replaceDirective: every matching line, commented or not, in a Match block or
\* not; a line at the end when there is none.
ReplaceDirective(s, d, v) ==
    IF \E i \in DOMAIN s : Matches(s[i], d)
    THEN [i \in DOMAIN s |-> IF Matches(s[i], d) THEN Line(d, v) ELSE s[i]]
    ELSE Append(s, Line(d, v))

\* The directives that the metadata sets, one after the other.
RewriteSSHDConfig(s, asked) ==
    LET Root == IF asked.PermitRootLogin = None THEN s
                ELSE ReplaceDirective(s, "PermitRootLogin", asked.PermitRootLogin)
    IN IF asked.PasswordAuthentication = None THEN Root
       ELSE ReplaceDirective(Root, "PasswordAuthentication", asked.PasswordAuthentication)

-----------------------------------------------------------------------------
(* The steps.                                                              *)

Who == Principals[n]
Uid(u) == accounts[u].uid

\* There is a group of the user's name, the image's or the one that useradd made
\* with the account.
OwnGroup(u) == u \in doc.image.groups \/ u \notin DOMAIN doc.image.accounts

\* Metadata, mounts and chroot; root comes first and has no account to make.
BeginUserManage ==
    /\ At("user-manage", "begin")
    /\ Go("password", 1) /\ UNCHANGED <<tree, scars, users>>

\* useradd takes the next free uid and, with -m, makes the home unless there is
\* something of that name.
NewAccount == [uid |-> 1000 + Cardinality(DOMAIN accounts \ {"root"}), pw |-> FALSE, sudo |-> FALSE]

\* Mutants: useradd without -m; useradd without asking for the name first.
EnsureUserNoHome ==
    /\ At("user-manage", "ensure")
    /\ Who.name \in DOMAIN accounts \/ Who.name \notin doc.image.groups
    /\ accounts' = IF Who.name \in DOMAIN accounts THEN accounts ELSE Put(accounts, Who.name, NewAccount)
    /\ Go("password", n) /\ UNCHANGED <<tree, scars, sshd>>
EnsureUserAnew ==
    /\ At("user-manage", "ensure")
    /\ IF Who.name \in DOMAIN accounts \cup doc.image.groups
       THEN Refuse /\ UNCHANGED <<tree, accounts>>
       ELSE /\ accounts' = Put(accounts, Who.name, NewAccount)
            /\ tree' = IF Home(Who.name) \in DOMAIN tree THEN tree ELSE Put(tree, Home(Who.name), Dir(NewAccount.uid))
            /\ Go("password", n)
    /\ UNCHANGED <<scars, sshd>>

\* EnsureUser: nothing to do for a known name.  useradd refuses a name that a
\* group has; it enters the account, with its group, before it makes the home,
\* and after a fault in between the name is known.
EnsureUser ==
    /\ At("user-manage", "ensure")
    /\ LET u == Who.name
           home == Home(u)
           new == u \notin DOMAIN accounts
           clash == u \in doc.image.groups
       IN \/ ~new /\ Go("password", n) /\ UNCHANGED <<tree, scars, accounts>>
          \/ new /\ clash /\ Refuse /\ UNCHANGED <<tree, scars, accounts>>
          \/ /\ new /\ ~clash /\ accounts' = Put(accounts, u, NewAccount)
             /\ \/ /\ tree' = IF home \in DOMAIN tree THEN tree ELSE Put(tree, home, Dir(NewAccount.uid))
                   /\ Go("password", n) /\ UNCHANGED scars
                \/ Fault /\ scars' = scars \cup {<<"useradd", u>>} /\ UNCHANGED tree
    /\ UNCHANGED sshd

SetPassword ==
    /\ At("user-manage", "password")
    /\ accounts' = IF Who.pw THEN [accounts EXCEPT ![Who.name].pw = TRUE] ELSE accounts
    /\ Go("keys", n) /\ UNCHANGED <<tree, scars, sshd>>

\* Mutant: the error of chown is not returned.
WriteAuthorizedKeysUnowned ==
    /\ At("user-manage", "keys")
    /\ tree' = IF Who.keys THEN [p \in DOMAIN tree \cup UpTo(KeysFile(Who.name)) |->
                                    IF p \in DOMAIN tree THEN tree[p]
                                    ELSE IF p = KeysFile(Who.name) THEN File(0) ELSE Dir(0)]
               ELSE tree
    /\ Go("sudo", n) /\ UNCHANGED <<scars, users>>

\* MkdirAll as root, WriteFile, chown -R; a fault leaves what came before it.
\* A file where a directory is wanted, or the reverse, is an error; chown u:u
\* refuses when there is no group of the user's name, with the file written.
WriteAuthorizedKeys ==
    /\ At("user-manage", "keys")
    /\ LET u == Who.name
           dirs == [p \in DOMAIN tree \cup UpTo(SSHDir(u)) |-> IF p \in DOMAIN tree THEN tree[p] ELSE Dir(0)]
           Written(Kind(_)) == Put(dirs, KeysFile(u), Kind(OwnerOr(tree, KeysFile(u), 0)))
           owned == [p \in DOMAIN Written(File) |->
                        IF SSHDir(u) \in UpTo(p) THEN [Written(File)[p] EXCEPT !.owner = Uid(u)]
                        ELSE Written(File)[p]]
           blocked == (\E q \in UpTo(SSHDir(u)) : IsFile(q)) \/ IsDir(KeysFile(u))
       IN \/ ~Who.keys /\ Go("sudo", n) /\ UNCHANGED tree
          \/ Who.keys /\ blocked /\ Refuse /\ UNCHANGED tree
          \/ Who.keys /\ ~blocked /\ ~OwnGroup(u) /\ tree' = Written(File) /\ Refuse
          \/ Who.keys /\ ~blocked /\ OwnGroup(u) /\ tree' = owned /\ Go("sudo", n)
          \/ Who.keys /\ ~blocked /\ Fault /\ tree' \in {dirs, Written(Torn), Written(File)}
    /\ UNCHANGED <<scars, users>>

\* gpasswd refuses a group that the image does not have.  Then the next user,
\* or sshd_config.
AddToGroup ==
    /\ At("user-manage", "sudo")
    /\ IF Who.sudo /\ "sudo" \notin doc.image.groups
       THEN Refuse /\ UNCHANGED accounts
       ELSE /\ accounts' = IF Who.sudo THEN [accounts EXCEPT ![Who.name].sudo = TRUE] ELSE accounts
            /\ IF n < Len(Principals) THEN Go("ensure", n + 1) ELSE Go("sshd", 0)
    /\ UNCHANGED <<tree, scars, sshd>>

\* Read, rewrite and write sshd_config; WriteFile truncates before it writes.
UpdateSSHD ==
    /\ At("user-manage", "sshd")
    /\ \/ doc.sshd = None /\ ActionDone /\ UNCHANGED <<scars, sshd>>
       \/ doc.sshd # None /\ sshd' = RewriteSSHDConfig(sshd, doc.sshd) /\ ActionDone /\ UNCHANGED scars
       \/ doc.sshd # None /\ sshd' = <<>> /\ scars' = scars \cup {<<"sshd", "sshd">>} /\ Fault
    /\ UNCHANGED <<tree, accounts>>

UserManageNext ==
    BeginUserManage \/ EnsureUser \/ SetPassword \/ WriteAuthorizedKeys \/ AddToGroup \/ UpdateSSHD

UserManageTypeOK ==
    /\ accounts \in [DOMAIN accounts -> [uid : Nat, pw : BOOLEAN, sudo : BOOLEAN]]
    /\ IsFiniteSet(DOMAIN accounts) /\ DOMAIN accounts \subseteq Name
    /\ sshd \in Seq({sshd[i] : i \in DOMAIN sshd})
    /\ \A i \in DOMAIN sshd : sshd[i].off \in BOOLEAN /\ sshd[i].odd \in BOOLEAN
=============================================================================
