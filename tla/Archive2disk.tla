---------------------------- MODULE Archive2disk ----------------------------
(***************************************************************************)
(* archive2disk: archive.Write and extractTarDirectory                     *)
(* (archive2disk/archive) unpack a tar stream while it is downloaded; hard *)
(* links are made at the end, from a map, in any order; the digest of the  *)
(* body is compared after all of that.  The action may be killed and run   *)
(* again, on the same tree or on file systems made anew.  One host is      *)
(* installed from one archive: a node of the tree is an entry of it.       *)
(***************************************************************************)
EXTENDS Naturals, Sequences

CONSTANTS
    Archives,   \* Seq([kind, parent, to]): parent, to are indices of entries, or 0
    MaxFaults,  \* bound: failing calls, bad bodies and kills
    MaxRuns     \* bound: runs of the action

Kind == {"dir", "reg", "sym", "link", "other"}

\* A parent is a directory entry, a hard link's target a file or a link.
ASSUME ArchiveAssumption ==
    /\ Archives \subseteq Seq([kind : Kind, parent : Nat, to : Nat])
    /\ \A a \in Archives : \A n \in DOMAIN a :
        /\ a[n].parent = 0 \/ (a[n].parent \in DOMAIN a /\ a[a[n].parent].kind = "dir")
        /\ a[n].kind = "link" => a[n].to \in DOMAIN a /\ a[a[n].to].kind \in {"reg", "link"}
    /\ MaxFaults \in Nat /\ MaxRuns \in Nat

VARIABLES
    archive,   \* the archive
    tree,      \* what lies at an entry's path: "none", "part", "bad", "full"
    checksum,  \* TARFILE_CHECKSUM is given
    body,      \* the download: "intact", "corrupt", or "short" (a clean EOF too early)
    drained,   \* the verifier has seen the body to its end
    pc,        \* the next call
    i,         \* the entry tr.Next is about to return
    hardLinks, \* entries in the map
    fresh,     \* history: the run started on an empty tree
    faulty,    \* history: something went wrong that is not the code's doing
    tainted,   \* history: a run on this tree had a corrupt body
    faults, runs

vars == <<archive, tree, checksum, body, drained, pc, i, hardLinks, fresh, faulty, tainted, faults, runs>>

TypeOK ==
    /\ archive \in Archives
    /\ tree \in [DOMAIN archive -> {"none", "part", "bad", "full"}]
    /\ body \in {"intact", "corrupt", "short"}
    /\ checksum \in BOOLEAN /\ drained \in BOOLEAN /\ fresh \in BOOLEAN /\ faulty \in BOOLEAN
    /\ tainted \in BOOLEAN
    /\ pc \in {"idle", "get", "next", "copy", "links", "drain", "verify", "ok", "error"}
    /\ i \in 1..(Len(archive) + 1)
    /\ hardLinks \subseteq {n \in DOMAIN archive : archive[n].kind = "link"}
    /\ faults \in 0..MaxFaults /\ runs \in 0..MaxRuns

Empty == [n \in DOMAIN archive |-> "none"]

Init ==
    /\ archive \in Archives /\ tree = Empty
    /\ checksum = FALSE /\ body = "intact" /\ drained = FALSE
    /\ pc = "idle" /\ i = 1 /\ hardLinks = {} /\ fresh = FALSE /\ faulty = FALSE /\ tainted = FALSE
    /\ faults = 0 /\ runs = 0

-----------------------------------------------------------------------------
Works == UNCHANGED <<faults, faulty>>
Fails == faults < MaxFaults /\ faults' = faults + 1 /\ faulty' = TRUE

Same == UNCHANGED <<archive, checksum, body, fresh, tainted, runs>>

Outside == {"idle", "ok", "error"}

Exists(n) == n # 0 => tree[n] # "none"

\* The path of entry n can be created: MkdirAll makes what is missing above it.
\* Above is the smallest set that holds n and, of each of its entries, the parent.
Above(n) == {m \in DOMAIN archive : \A up \in SUBSET DOMAIN archive :
              n \in up \cup {0} /\ (\A k \in up : archive[k].parent \in up \cup {0}) => m \in up}

MkdirAll(n) == [m \in DOMAIN tree |-> IF m \in Above(n) /\ ~Exists(m) THEN "full" ELSE tree[m]]

\* The file that a chain of hard links leads to, and all the names of a file.
File(n) == LET at[k \in 0..Len(archive)] ==
                 IF k = 0 THEN n
                 ELSE IF archive[at[k - 1]].kind = "link" THEN archive[at[k - 1]].to ELSE at[k - 1]
           IN  at[Len(archive)]

Names(n) == {n} \cup {m \in DOMAIN archive : archive[m].kind = "link" /\ Exists(m) /\ File(m) = n}

Store(t, v) == [m \in DOMAIN t |-> IF m \in Names(i) THEN v ELSE t[m]]

Start ==
    /\ pc \in Outside /\ runs < MaxRuns /\ runs' = runs + 1
    /\ checksum' \in BOOLEAN
    /\ \/ body' = "intact" /\ faulty' = FALSE /\ UNCHANGED faults
       \/ body' \in {"corrupt", "short"} /\ Fails
    /\ pc' = "get" /\ i' = 1 /\ hardLinks' = {} /\ drained' = FALSE
    /\ fresh' = (tree = Empty) /\ tainted' = (tainted \/ body' = "corrupt")
    /\ UNCHANGED <<archive, tree>>

\* `rootio format` before the action is run again.
Reformat ==
    /\ pc \in Outside /\ tree # Empty /\ tree' = Empty /\ tainted' = FALSE /\ pc' = "idle"
    /\ Works /\ UNCHANGED <<archive, checksum, body, drained, i, hardLinks, fresh, runs>>

\* The request, the status, digest.Parse, gzip.NewReader.
GetArchive ==
    /\ pc = "get"
    /\ \/ Works /\ pc' = "next"
       \/ Fails /\ pc' = "error"
    /\ Same /\ UNCHANGED <<tree, i, hardLinks, drained>>

-----------------------------------------------------------------------------
(* extractTarDirectory: one iteration of the loop per entry.               *)

Entry(k) == pc = "next" /\ i <= Len(archive) /\ archive[i].kind = k

NextEntry == pc' = "next" /\ i' = i + 1

\* What an entry may turn out to be: any part of a corrupt body can be intact.
Arrived == IF body = "corrupt" THEN {"bad", "full"} ELSE {"full"}

ExtractDir ==
    /\ Entry("dir")
    /\ \/ Works /\ tree' = MkdirAll(i) /\ NextEntry
       \/ Fails /\ pc' = "error" /\ UNCHANGED <<tree, i>>
    /\ Same /\ UNCHANGED <<hardLinks, drained>>

RememberLink ==
    /\ Entry("link") /\ hardLinks' = hardLinks \cup {i} /\ NextEntry
    /\ Works /\ Same /\ UNCHANGED <<tree, drained>>

\* A name that exists is left alone, wherever it leads; a missing directory
\* is an error.
ExtractSymlink ==
    /\ Entry("sym")
    /\ \/ Works /\ Exists(i) /\ UNCHANGED tree /\ NextEntry
       \/ /\ Works /\ ~Exists(i) /\ Exists(archive[i].parent)
          /\ \E v \in Arrived : tree' = [tree EXCEPT ![i] = v]
          /\ NextEntry
       \/ Works /\ ~Exists(i) /\ ~Exists(archive[i].parent) /\ pc' = "error" /\ UNCHANGED <<tree, i>>
       \/ Fails /\ pc' = "error" /\ UNCHANGED <<tree, i>>
    /\ Same /\ UNCHANGED <<hardLinks, drained>>

\* Mutant: O_EXCL in place of O_TRUNC; a file that exists is skipped.
OpenFileExcl ==
    /\ Entry("reg") /\ Works
    /\ \/ ~Exists(i) /\ tree' = [MkdirAll(archive[i].parent) EXCEPT ![i] = "part"] /\ pc' = "copy" /\ i' = i
       \/ Exists(i) /\ NextEntry /\ UNCHANGED tree
    /\ Same /\ UNCHANGED <<hardLinks, drained>>

\* Create or truncate, under all the names that earlier runs gave the file;
\* then copy.
OpenFile ==
    /\ Entry("reg")
    /\ \/ Works /\ tree' = Store(MkdirAll(archive[i].parent), "part") /\ pc' = "copy"
       \/ Fails /\ pc' = "error" /\ UNCHANGED tree
    /\ Same /\ UNCHANGED <<i, hardLinks, drained>>

CopyFile ==
    /\ pc = "copy"
    /\ \/ Works /\ (\E v \in Arrived : tree' = Store(tree, v)) /\ NextEntry
       \/ Fails /\ pc' = "error" /\ UNCHANGED <<tree, i>>
    /\ Same /\ UNCHANGED <<hardLinks, drained>>

SkipOther ==
    /\ Entry("other") /\ NextEntry
    /\ Works /\ Same /\ UNCHANGED <<tree, hardLinks, drained>>

\* tr.Next returns io.EOF: at the end of the archive, or where the body ends.
EndOfArchive ==
    /\ pc = "next" /\ (i > Len(archive) \/ body = "short")
    /\ pc' = "links"
    /\ Works /\ Same /\ UNCHANGED <<tree, i, hardLinks, drained>>

\* The loop over the map: any order.  os.Link fails on a missing target, on a
\* missing directory and on a name that exists.
Link ==
    /\ pc = "links"
    /\ \E n \in hardLinks :
        \/ /\ Works /\ Exists(archive[n].to) /\ Exists(archive[n].parent) /\ ~Exists(n)
           /\ tree' = [tree EXCEPT ![n] = tree[archive[n].to]]
           /\ hardLinks' = hardLinks \ {n} /\ UNCHANGED pc
        \/ /\ Works /\ ~(Exists(archive[n].to) /\ Exists(archive[n].parent) /\ ~Exists(n))
           /\ pc' = "error" /\ UNCHANGED <<tree, hardLinks>>
        \/ Fails /\ pc' = "error" /\ UNCHANGED <<tree, hardLinks>>
    /\ Same /\ UNCHANGED <<i, drained>>

\* Mutant: the rest of the body is not drained.
ExtractedUndrained ==
    /\ pc = "links" /\ hardLinks = {}
    /\ pc' = IF checksum THEN "verify" ELSE "ok"
    /\ Works /\ Same /\ UNCHANGED <<tree, i, hardLinks, drained>>

Extracted ==
    /\ pc = "links" /\ hardLinks = {}
    /\ pc' = IF checksum THEN "drain" ELSE "ok"
    /\ Works /\ Same /\ UNCHANGED <<tree, i, hardLinks, drained>>

\* What tar and gzip did not read goes through the verifier as well.
Drain ==
    /\ pc = "drain"
    /\ \/ Works /\ pc' = "verify" /\ drained' = TRUE
       \/ Fails /\ pc' = "error" /\ UNCHANGED drained
    /\ Same /\ UNCHANGED <<tree, i, hardLinks>>

\* Mutant: the digest is computed and not compared.
VerifiedAlways == drained

Verified == drained /\ body = "intact"

Verify ==
    /\ pc = "verify"
    /\ pc' = IF Verified THEN "ok" ELSE "error"
    /\ Works /\ Same /\ UNCHANGED <<tree, i, hardLinks, drained>>

\* The action's timeout.
Kill ==
    /\ pc \notin Outside /\ faults < MaxFaults /\ faults' = faults + 1 /\ pc' = "idle"
    /\ Same /\ UNCHANGED <<tree, i, hardLinks, drained, faulty>>

Next ==
    \/ Start \/ Reformat \/ GetArchive
    \/ ExtractDir \/ RememberLink \/ ExtractSymlink \/ OpenFile \/ CopyFile \/ SkipOther
    \/ EndOfArchive \/ Link \/ Extracted \/ Drain \/ Verify \/ Kill

Spec == Init /\ [][Next]_vars

-----------------------------------------------------------------------------
(* Properties.                                                             *)

Handled == {n \in DOMAIN archive : archive[n].kind # "other"}

\* The one thing that outlives a bad download: where a run on the same tree
\* has made a symbolic link from a corrupt body, every later run finds the name
\* taken and keeps the link (utils.go:38-46).
KeptLink(n) == archive[n].kind = "sym" /\ tainted /\ tree[n] = "bad"

\* main.go "Successfully unpacked": with a checksum, success means that the
\* tree holds every entry of the archive, complete and as published, although
\* the digest is compared only after the last byte is on disk, and whatever
\* killed or failed runs left there; but for a kept link.
SuccessMeansUnpacked == pc = "ok" /\ checksum => \A n \in Handled : tree[n] = "full" \/ KeptLink(n)

\* Without one it still holds, unless the body was bad.
UncheckedMeansUnpacked == pc = "ok" /\ ~faulty => \A n \in Handled : tree[n] = "full" \/ KeptLink(n)

\* A symbolic link comes after its directory, and no hard link leads to a
\* hard link.
WellOrdered(a) ==
    /\ \A n \in DOMAIN a : a[n].kind = "sym" => a[n].parent < n
    /\ \A n \in DOMAIN a : a[n].kind = "link" => a[a[n].to].kind = "reg"

\* An intact archive that is well ordered, onto a fresh tree, with no call
\* failing, is unpacked and found to match, in whatever order the map yields
\* the hard links and wherever they stand in the archive.
OrderedSucceeds == pc = "error" => faulty \/ ~fresh \/ ~WellOrdered(archive)
=============================================================================
