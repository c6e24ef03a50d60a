---------------------------- MODULE MCConfigure -----------------------------
(***************************************************************************)
(* Configure on small plans: one for each place where two actions, or an   *)
(* action and what an earlier run left, can get in each other's way.       *)
(***************************************************************************)
EXTENDS Configure

CONSTANTS d1, d2

WriteFileAt(path, uid) == [kind |-> "writefile", path |-> path, uid |-> uid]
Manage == [kind |-> "user-manage"]
Console == [kind |-> "serial-console"]
Grub(mode, disk) == [kind |-> "grub2disk", mode |-> mode, disk |-> disk, nvram |-> TRUE, mirror |-> TRUE]
Kexec(kernel, args) == [kind |-> "kexec", kernel |-> kernel, initrd |-> kernel, args |-> args, onBoot |-> TRUE]

Conf == <<"etc", "app", "conf">>
Profile == <<"home", "ops", ".profile">>

L(d, v, off, odd) == [dir |-> d, val |-> v, off |-> off, odd |-> odd]
Root(v, off) == L("PermitRootLogin", v, off, FALSE)
Pass(v, off) == L("PasswordAuthentication", v, off, FALSE)
Match == L("Match", None, FALSE, FALSE)
Other == L("Subsystem", "sftp", FALSE, FALSE)
Include == L("Include", None, FALSE, FALSE)

\* The shapes of sshd_config: nothing, commented, active and repeated,
\* directives in front of, behind and within Match blocks, other spellings,
\* an Include in front of them or behind.
SSHDFiles == {
    <<Root("yes", TRUE), Other, Pass("no", TRUE)>>,
    <<Root("yes", FALSE), Root("no", TRUE), Other>>,
    <<Pass("yes", TRUE), Match, Root("yes", FALSE), Pass("no", FALSE)>>,
    <<Other, L("PermitRootLogin", "yes", FALSE, TRUE), Root("yes", TRUE)>>,
    <<Include, Root("yes", TRUE), Pass("yes", TRUE)>>,
    <<Root("yes", TRUE), Pass("yes", TRUE), Include>> }

\* What the Include stands for: nothing, a drop-in like the cloud image's, one
\* that sets root's login for some hosts only.
DropIns == {<<>>, <<Pass("no", FALSE)>>, <<Pass("no", FALSE), Match, Root("no", FALSE)>>}

Tree == [p \in {<<>>, <<"boot">>, <<"etc">>, <<"home">>, <<"root">>} |-> Dir(0)]
RootAccount == [uid |-> 0, pw |-> FALSE, sudo |-> FALSE]

Entry(k, initrd) == [submenu |-> FALSE, entries |-> <<[kernel |-> k, initrd |-> initrd]>>]
Sub(k1, k2) == [submenu |-> TRUE, entries |-> <<[kernel |-> k1, initrd |-> TRUE], [kernel |-> k2, initrd |-> TRUE]>>]
Tty(u, baud) == <<<<"ttyS", u>>, baud>>
Screen == <<<<"tty", 1>>, 0>>

Image == [
    tree |-> Tree, accounts |-> [u \in {"root"} |-> RootAccount], groups |-> {"root", "sudo"},
    sshd |-> <<Root("yes", TRUE), Other, Pass("no", FALSE)>>, dropins |-> <<>>,
    defaults |-> [cmdline |-> <<Screen, Tty(0, 0)>>, serial |-> <<0, 9600>>],
    grubcfg |-> None, shim |-> TRUE,
    files |-> {"k0", "k1", "k2", "k5", "k9"}, menu |-> <<Entry("k1", TRUE), Sub("k1", "k0")>>, default |-> 0]

Ops == [name |-> "ops", keys |-> TRUE, pw |-> TRUE, sudo |-> TRUE]

Full == [
    plan |-> <<WriteFileAt(Conf, 33), Manage, Console, Grub("efi", d1), Grub("efi", d2), Kexec(None, None)>>,
    root |-> [name |-> "root", keys |-> TRUE, pw |-> TRUE, sudo |-> FALSE], users |-> <<Ops>>,
    sshd |-> [PermitRootLogin |-> "no", PasswordAuthentication |-> "yes"],
    console |-> [tty |-> <<"ttyS", 1>>, baud |-> 0],
    siblings |-> {}, image |-> Image]

\* Accounts: a file in the home, which the image may give another user's uid;
\* an account without a home; no group sudo, a group of the user's name without the
\* account, and the reverse; a second user without keys; a file where the home
\* should be.
Accounts ==
    LET Base == [Full EXCEPT !.plan = <<WriteFileAt(Profile, 1000), Manage>>, !.sshd = None]
        With(accts, t) == [Base EXCEPT !.image.accounts = accts, !.image.groups = @ \cup DOMAIN accts, !.image.tree = t]
        Cloud == [u \in {"root", "ubuntu"} |-> IF u = "root" THEN RootAccount ELSE [uid |-> 1000, pw |-> FALSE, sudo |-> TRUE]]
        Homeless == [u \in {"root", "ops"} |-> IF u = "root" THEN RootAccount ELSE [uid |-> 1000, pw |-> FALSE, sudo |-> FALSE]]
    IN { Base, With(Cloud, Tree),
         [With(Homeless, Tree) EXCEPT !.plan = <<Manage>>],
         [With(Cloud, Tree) EXCEPT !.plan = <<Manage, WriteFileAt(Profile, 1001)>>,
                 !.users = <<Ops, [name |-> "dev", keys |-> FALSE, pw |-> TRUE, sudo |-> FALSE]>>],
         [Base EXCEPT !.plan = <<WriteFileAt(<<"home", "ops">>, 33), Manage>>],
         [Base EXCEPT !.plan = <<Manage>>, !.image.groups = {"root"}],
         [Base EXCEPT !.plan = <<Manage>>, !.image.groups = @ \cup {"ops"}],
         [With(Homeless, Tree) EXCEPT !.plan = <<Manage>>, !.image.groups = @ \ {"ops"}] }

\* Paths: two files below one directory that does not exist, a path that the
\* image has otherwise, a path written twice, and files in a user's .ssh.
Keys == <<"home", "ops", ".ssh", "authorized_keys">>
Paths == {
    [Full EXCEPT !.plan = <<WriteFileAt(Conf, 33), WriteFileAt(Conf, 34)>>],
    [Full EXCEPT !.plan = <<WriteFileAt(<<"home", "ops", ".ssh", "d", "x">>, 34), Manage, WriteFileAt(Keys, 35)>>],
    [Full EXCEPT !.plan = <<WriteFileAt(Conf, 33), WriteFileAt(<<"etc", "app", "d", "x">>, 34)>>],
    [Full EXCEPT !.plan = <<WriteFileAt(<<"etc", "app">>, 33), WriteFileAt(Conf, 33)>>],
    [Full EXCEPT !.plan = <<WriteFileAt(<<"etc">>, 33)>>],
    [Full EXCEPT !.plan = <<WriteFileAt(<<"motd">>, 0)>>] }

SSHDs == {[Full EXCEPT !.plan = <<Manage>>, !.users = <<>>, !.image.sshd = s, !.image.dropins = d, !.sshd = asked] :
             s \in SSHDFiles, d \in DropIns,
             asked \in { [PermitRootLogin |-> "no", PasswordAuthentication |-> "yes"],
                         [PermitRootLogin |-> "no", PasswordAuthentication |-> None] }}

\* Consoles and the kernel that gets them.
ConsoleDocs ==
    LET Base == [Full EXCEPT !.plan = <<Console, Kexec(None, None)>>, !.image.menu = <<Entry("k1", TRUE), Entry("k0", TRUE)>>]
    IN { [Base EXCEPT !.image.defaults = f, !.console = c] :
           f \in { None, [cmdline |-> <<Screen>>, serial |-> None],
                   [cmdline |-> <<Tty(0, 9600), Tty(2, 0)>>, serial |-> <<0, 9600>>] },
           c \in { None, [tty |-> <<"ttyS", 1>>, baud |-> 57600], [tty |-> <<"ttyAMA", 0>>, baud |-> 0] } }

Menus ==
    LET Base == [Full EXCEPT !.plan = <<Grub("bios", d1), Kexec(None, None)>>]
        Chain == Entry(None, FALSE)
        Many == [i \in 1..10 |-> Entry(IF i = 1 THEN "k1" ELSE IF i = 9 THEN "k9" ELSE "k0", TRUE)]
    IN { [Base EXCEPT !.image.menu = m, !.image.default = d] :
           m \in { <<Entry("k1", TRUE), Entry("k0", TRUE), Entry("k2", TRUE)>>,
                   <<Entry("k1", TRUE), Entry("k2", FALSE), Sub("k1", "k0"), Chain, Entry("k0", TRUE)>>,
                   <<Chain>>, Many },
           d \in {0, 1, 2, 8, 10, None} }

\* Kernels that the plan names, and menus that the image comes with.
OtherBoots ==
    LET Own(d) == [d EXCEPT !.image.grubcfg = MenuOf(d.image, Args(d.image.defaults))]
    IN
    { Own([Full EXCEPT !.plan = <<Kexec(None, None), Console>>, !.image.menu = <<Entry("k1", TRUE), Entry("k0", TRUE)>>]),
      Own([Full EXCEPT !.plan = <<Kexec(None, None)>>, !.image.menu = <<Entry("k1", TRUE), Entry("k0", TRUE)>>, !.image.default = 1]),
      Own([Full EXCEPT !.plan = <<Kexec(None, None)>>, !.image.menu = <<Entry("k1", TRUE)>>, !.image.files = {"k0"}]),
      [Full EXCEPT !.plan = <<Kexec("k7", None)>>], [Full EXCEPT !.plan = <<Kexec("k5", None)>>], [Full EXCEPT !.plan = <<[Kexec("k5", None) EXCEPT !.initrd = None]>>], [Full EXCEPT !.plan = <<Kexec(None, None)>>],
      [Full EXCEPT !.plan = <<Console, Kexec(None, <<Screen>>)>>],
      [Full EXCEPT !.plan = <<Grub("efi", d1)>>, !.image.shim = FALSE] }

\* Siblings: /boot, which the kexec reads in both ways and grub2disk may not
\* see, and /home, where writefile's file is shadowed.
Siblings ==
    LET NoMirror(g) == [g EXCEPT !.mirror = FALSE]
        Sib(plan) == [Full EXCEPT !.siblings = {"boot", "home"}, !.plan = plan, !.image.menu = <<Entry("k1", TRUE)>>]
    IN { Sib(<<WriteFileAt(Profile, 1000), Manage>>),
         Sib(<<Grub("bios", d1), Grub("efi", d2), Kexec(None, None)>>),
         Sib(<<Grub("bios", d1), NoMirror(Grub("efi", d1))>>),
         Sib(<<NoMirror(Grub("bios", d1)), Console, Kexec(None, None)>>),
         Sib(<<Console, [Kexec(None, None) EXCEPT !.onBoot = FALSE]>>) }

MCDocuments == Siblings \cup {Full} \cup Accounts \cup Paths \cup SSHDs \cup ConsoleDocs \cup Menus \cup OtherBoots
=============================================================================
