---------------------------- MODULE MCInstallTree ----------------------------
EXTENDS InstallTree

E(p, f, l) == [point |-> p, format |-> f, label |-> l]

root   == E(<<>>, "ext4", TRUE)
var    == E(<<"var">>, "ext4", TRUE)
docker == E(<<"var", "lib">>, "ext4", TRUE)
esp    == E(<<"boot">>, "vfat", TRUE)

Orders(S) == {s \in [1..Cardinality(S) -> S] : \A a, b \in DOMAIN s : a # b => s[a] # s[b]}

\* Every order of the template's kinds of file system.
MCLists == Orders({root, var, docker}) \cup Orders({docker, esp, root})
           \cup {<<docker, var, root, E(NoPoint, "swap", FALSE)>>}
MCSwap == {<<root, E(NoPoint, "swap", TRUE)>>}
MCUnlabelled == {<<root, E(<<"var">>, "ext4", FALSE)>>}
MCUnknown == {<<E(<<"data">>, "btrfs", TRUE), root>>}
MCAll == MCLists \cup MCSwap \cup MCUnlabelled \cup MCUnknown

MCPaths == {<<"etc">>, <<"var">>, <<"var", "lib">>, <<"boot">>}
\* A file of the root, and one below /var.
MCWritePaths == {<<"etc">>, <<"var", "log">>}
=============================================================================
