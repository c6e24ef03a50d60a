--------------------------- MODULE MCArchive2disk ---------------------------
EXTENDS Archive2disk

E(k, p, t) == [kind |-> k, parent |-> p, to |-> t]

\* Directories before what they hold, two hard links to one file.
MCTree == <<E("dir", 0, 0), E("reg", 1, 0), E("link", 1, 2), E("sym", 1, 0), E("link", 0, 2), E("other", 0, 0)>>
\* A file and a hard link in front of the directories above them.
MCEarly == <<E("link", 3, 4), E("dir", 0, 0), E("dir", 2, 0), E("reg", 3, 0)>>
MCArchives == {MCTree, MCEarly}
\* A hard link to a hard link.
MCChain == {<<E("reg", 0, 0), E("link", 0, 1), E("link", 0, 2)>>}
\* A symbolic link in front of its directory.
MCOrphan == {<<E("sym", 2, 0), E("dir", 0, 0)>>}
MCAll == MCArchives \cup MCChain \cup MCOrphan
=============================================================================
