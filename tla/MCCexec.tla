------------------------------- MODULE MCCexec -------------------------------
EXTENDS Cexec

\* A step outside the chroot, one in it, and one with everything.
MCSettings ==
    {[chroot |-> FALSE, resolv |-> FALSE, mirror |-> TRUE,  cmds |-> 2],
     [chroot |-> TRUE,  resolv |-> FALSE, mirror |-> FALSE, cmds |-> 1],
     [chroot |-> TRUE,  resolv |-> TRUE,  mirror |-> TRUE,  cmds |-> 2]}
MCSiblings == <<"var", "var/lib">>
MCNone == <<>>
MCPlain == {[chroot |-> TRUE, resolv |-> TRUE, mirror |-> FALSE, cmds |-> 1]}
=============================================================================
