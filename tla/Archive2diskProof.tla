-------------------------- MODULE Archive2diskProof --------------------------
(***************************************************************************)
(* For every archive and however often the action is killed, fails and is  *)
(* run again: a success with a checksum, or with a body that was not bad,  *)
(* means that every entry is unpacked, but for a symbolic link that an     *)
(* earlier bad download has left; and a well ordered archive onto a fresh  *)
(* tree is.  What comes before the current entry is unpacked (Unpacked),   *)
(* except for the hard links, which wait in the map; and a map with a name *)
(* that exists already never gets empty (Linked).                          *)
(***************************************************************************)
EXTENDS Archive2disk, TLAPS

Links == {n \in DOMAIN archive : archive[n].kind = "link"}
Plain == {n \in DOMAIN archive : archive[n].kind \in {"dir", "reg", "sym"}}

Linking == {"links", "drain", "verify", "ok"}

\* What a run knows of its body and of its place in the archive.
Sound ==
    /\ body = "intact" \/ faulty
    /\ body = "corrupt" /\ pc \notin Outside => tainted
    /\ pc = "get" => i = 1
    /\ pc = "verify" => drained
    /\ pc = "copy" => i <= Len(archive) /\ archive[i].kind = "reg"
    /\ pc \in {"drain", "verify", "ok"} => hardLinks = {}
    /\ pc \in Linking => i = Len(archive) + 1 \/ body = "short"
    /\ pc = "ok" /\ checksum => body = "intact"
    /\ pc \in {"get", "next", "copy"} => hardLinks = {n \in Links : n < i}

\* A directory or a symbolic link is never there by halves, and a link leads
\* astray only where a corrupt body was unpacked.
Whole == \A n \in DOMAIN archive :
    /\ archive[n].kind = "dir" => tree[n] \in {"none", "full"}
    /\ archive[n].kind = "sym" => tree[n] \in {"none", "full"} \/ (tree[n] = "bad" /\ tainted)

\* The loop has no more to do about entry n.
Settled(n) == tree[n] = "full" \/ (archive[n].kind = "sym" /\ tree[n] # "none")

Unpacked ==
    pc \in {"next", "copy"} \cup Linking /\ body = "intact" =>
        \A n \in Plain : n < i => Settled(n)

\* A hard link that an earlier run has left is in the map, and os.Link will
\* fail on it; otherwise each one is made, or its turn is to come.
Linked ==
    pc \in Linking /\ body = "intact" =>
        \/ \E n \in hardLinks : tree[n] # "none"
        \/ \A n \in Links : n \in hardLinks \/ tree[n] = "full"

\* Onto a fresh tree nobody else has put a hard link.
Pristine ==
    /\ fresh /\ pc \in {"get", "next", "copy"} => \A n \in Links : tree[n] = "none"
    /\ fresh /\ pc = "links" => \A n \in hardLinks : tree[n] = "none"

IInv == TypeOK /\ Sound /\ Whole /\ Unpacked /\ Linked /\ Pristine /\ OrderedSucceeds

-----------------------------------------------------------------------------
(* Lemmas about the paths.                                                 *)

\* An element of a sequence.
LEMMA ElementIn ==
    ASSUME NEW S, NEW s \in Seq(S), NEW n \in DOMAIN s
    PROVE  s[n] \in S
  OBVIOUS

\* The entries of an archive, and what their parents and targets are.
LEMMA Entries ==
    ASSUME TypeOK
    PROVE  /\ Len(archive) \in Nat /\ DOMAIN archive = 1..Len(archive)
           /\ \A n \in DOMAIN archive :
                /\ archive[n].kind \in Kind
                /\ archive[n].parent = 0 \/ (archive[n].parent \in DOMAIN archive /\ archive[archive[n].parent].kind = "dir")
                /\ archive[n].kind = "link" => archive[n].to \in DOMAIN archive /\ archive[archive[n].to].kind \in {"reg", "link"}
  <1>1. archive \in Seq([kind : Kind, parent : Nat, to : Nat]) /\ archive \in Archives
    BY ArchiveAssumption DEF TypeOK
  <1>2. Len(archive) \in Nat /\ DOMAIN archive = 1..Len(archive)
    BY <1>1
  <1>3. ASSUME NEW n \in DOMAIN archive PROVE archive[n].kind \in Kind
    <2>1. archive[n] \in [kind : Kind, parent : Nat, to : Nat]
      BY <1>1, ElementIn, Zenon
    <2> QED
      BY <2>1
  <1>4. \A n \in DOMAIN archive :
          /\ archive[n].parent = 0 \/ (archive[n].parent \in DOMAIN archive /\ archive[archive[n].parent].kind = "dir")
          /\ archive[n].kind = "link" => archive[n].to \in DOMAIN archive /\ archive[archive[n].to].kind \in {"reg", "link"}
    BY <1>1, ArchiveAssumption, Zenon
  <1> QED
    BY <1>2, <1>3, <1>4, Zenon

\* MkdirAll makes the directory itself ...
LEMMA AboveItself ==
    ASSUME NEW n \in DOMAIN archive, 0 \notin DOMAIN archive
    PROVE  n \in Above(n)
  BY DEF Above

\* ... and directories only.
LEMMA AboveDirs ==
    ASSUME TypeOK, NEW n \in DOMAIN archive \cup {0}, n = 0 \/ archive[n].kind = "dir"
    PROVE  \A m \in Above(n) : m \in DOMAIN archive /\ archive[m].kind = "dir"
  <1> DEFINE dirs == {k \in DOMAIN archive : archive[k].kind = "dir"}
  <1>1. dirs \in SUBSET DOMAIN archive /\ n \in dirs \cup {0}
    OBVIOUS
  <1>2. \A k \in dirs : archive[k].parent \in dirs \cup {0}
    BY Entries
  <1>3. \A m \in Above(n) : m \in dirs
    BY <1>1, <1>2 DEF Above
  <1> QED
    BY <1>3

\* What MkdirAll leaves: nothing is lost, and only directories are added.
LEMMA MkdirAllTree ==
    ASSUME TypeOK, NEW n \in DOMAIN archive \cup {0}, n = 0 \/ archive[n].kind = "dir"
    PROVE  /\ MkdirAll(n) \in [DOMAIN archive -> {"none", "part", "bad", "full"}]
           /\ \A m \in DOMAIN archive :
                /\ MkdirAll(n)[m] = tree[m] \/ (MkdirAll(n)[m] = "full" /\ archive[m].kind = "dir")
                /\ tree[m] = "full" => MkdirAll(n)[m] = "full"
           /\ n # 0 => MkdirAll(n)[n] # "none"
  <1>0. DOMAIN tree = DOMAIN archive /\ 0 \notin DOMAIN archive
    BY Entries DEF TypeOK
  <1>1. MkdirAll(n) \in [DOMAIN archive -> {"none", "part", "bad", "full"}]
    BY <1>0 DEF MkdirAll, TypeOK
  <1>2. ASSUME NEW m \in DOMAIN archive
        PROVE  /\ MkdirAll(n)[m] = tree[m] \/ (MkdirAll(n)[m] = "full" /\ archive[m].kind = "dir")
               /\ tree[m] = "full" => MkdirAll(n)[m] = "full"
    BY <1>0, AboveDirs DEF MkdirAll
  <1>3. n # 0 => MkdirAll(n)[n] # "none"
    BY <1>0, AboveItself DEF MkdirAll, Exists
  <1> QED
    BY <1>1, <1>2, <1>3

\* A file is written under its own name and its hard links'.
LEMMA StoreTree ==
    ASSUME TypeOK, i \in DOMAIN archive, archive[i].kind = "reg",
           NEW v \in {"part", "bad", "full"},
           NEW t \in [DOMAIN archive -> {"none", "part", "bad", "full"}]
    PROVE  /\ Store(t, v) \in [DOMAIN archive -> {"none", "part", "bad", "full"}]
           /\ Store(t, v)[i] = v
           /\ \A m \in DOMAIN archive :
                m # i => Store(t, v)[m] = t[m] \/ (m \in Links /\ tree[m] # "none")
  <1>1. DOMAIN t = DOMAIN archive /\ 0 \notin DOMAIN archive
    BY Entries
  <1>2. i \in Names(i) /\ \A m \in Names(i) : m = i \/ (m \in Links /\ tree[m] # "none")
    BY <1>1 DEF Names, Links, Exists
  <1> QED
    BY <1>1, <1>2 DEF Store


\* ExtractDir: the entry is there afterwards, and nothing but directories is new.
LEMMA DirTree ==
    ASSUME TypeOK, Whole, ExtractDir
    PROVE  /\ i \in DOMAIN archive /\ archive[i].kind = "dir"
           /\ tree' \in [DOMAIN archive -> {"none", "part", "bad", "full"}]
           /\ \A m \in DOMAIN archive : tree'[m] = tree[m] \/ (tree'[m] = "full" /\ archive[m].kind = "dir")
           /\ pc' = "error" \/ (pc' = "next" /\ tree'[i] = "full")
  <1>1. i \in DOMAIN archive /\ archive[i].kind = "dir"
    BY Entries DEF ExtractDir, Entry, TypeOK
  <1>2. CASE tree' = MkdirAll(i) /\ NextEntry
    <2>1. /\ tree' \in [DOMAIN archive -> {"none", "part", "bad", "full"}]
          /\ \A m \in DOMAIN archive : tree'[m] = tree[m] \/ (tree'[m] = "full" /\ archive[m].kind = "dir")
      BY <1>1, <1>2, MkdirAllTree
    <2>2. tree'[i] # "none"
      BY <1>1, <1>2, MkdirAllTree, Entries
    <2>3. tree'[i] = "full"
      BY <1>1, <2>1, <2>2 DEF Whole
    <2> QED
      BY <1>1, <1>2, <2>1, <2>3 DEF NextEntry
  <1>3. CASE pc' = "error" /\ UNCHANGED <<tree, i>>
    BY <1>1, <1>3 DEF TypeOK
  <1> QED
    BY <1>2, <1>3 DEF ExtractDir

\* ExtractSymlink: the entry is there afterwards, or an error; a link that was
\* there stays.
LEMMA SymlinkTree ==
    ASSUME TypeOK, Sound, ExtractSymlink
    PROVE  /\ i \in DOMAIN archive /\ archive[i].kind = "sym"
           /\ tree' \in [DOMAIN archive -> {"none", "part", "bad", "full"}]
           /\ \A m \in DOMAIN archive : m # i => tree'[m] = tree[m]
           /\ tree'[i] = tree[i] \/ tree'[i] = "full" \/ (tree'[i] = "bad" /\ tainted)
           /\ \/ pc' = "next" /\ i' = i + 1 /\ tree'[i] # "none"
              \/ pc' = "error" /\ tree' = tree
  <1>1. i \in DOMAIN archive /\ archive[i].kind = "sym" /\ i # 0
    BY Entries DEF ExtractSymlink, Entry, TypeOK
  <1>2. CASE UNCHANGED tree /\ (pc' = "error" \/ (Exists(i) /\ NextEntry))
    BY <1>1, <1>2 DEF NextEntry, TypeOK, Exists
  <1>3. CASE NextEntry /\ \E v \in Arrived : tree' = [tree EXCEPT ![i] = v]
    <2>1. PICK v \in Arrived : tree' = [tree EXCEPT ![i] = v]
      BY <1>3
    <2>2. v = "full" \/ (v = "bad" /\ tainted)
      BY <1>1 DEF Arrived, Sound, ExtractSymlink, Entry, Outside
    <2> QED
      BY <1>1, <1>3, <2>1, <2>2 DEF NextEntry, TypeOK
  <1> QED
    BY <1>2, <1>3 DEF ExtractSymlink

\* OpenFile, CopyFile: the same, but for the hard links that are there.
LEMMA FileTree ==
    ASSUME TypeOK, Sound, OpenFile \/ CopyFile
    PROVE  /\ i \in DOMAIN archive /\ archive[i].kind = "reg"
           /\ tree' \in [DOMAIN archive -> {"none", "part", "bad", "full"}]
           /\ \A m \in DOMAIN archive \ {i} :
                \/ tree'[m] = tree[m]
                \/ tree'[m] = "full" /\ archive[m].kind = "dir"
                \/ m \in Links /\ tree[m] # "none"
           /\ CopyFile /\ body = "intact" => pc' = "error" \/ tree'[i] = "full"
  <1>1. i \in DOMAIN archive /\ archive[i].kind = "reg"
    BY Entries DEF OpenFile, CopyFile, Entry, TypeOK, Sound
  <1>2. CASE pc' = "error" /\ UNCHANGED tree
    BY <1>1, <1>2 DEF TypeOK
  <1>3. CASE tree' = Store(MkdirAll(archive[i].parent), "part") /\ OpenFile /\ pc # "copy"
    <2> DEFINE up == archive[i].parent
               t == MkdirAll(up)
    <2>1. up \in DOMAIN archive \cup {0} /\ (up = 0 \/ archive[up].kind = "dir")
      BY <1>1, Entries
    <2>2. /\ t \in [DOMAIN archive -> {"none", "part", "bad", "full"}]
          /\ \A m \in DOMAIN archive : t[m] = tree[m] \/ (t[m] = "full" /\ archive[m].kind = "dir")
      BY <2>1, MkdirAllTree
    <2> HIDE DEF t
    <2>3. /\ Store(t, "part") \in [DOMAIN archive -> {"none", "part", "bad", "full"}]
          /\ \A m \in DOMAIN archive :
               m # i => Store(t, "part")[m] = t[m] \/ (m \in Links /\ tree[m] # "none")
      BY <1>1, <2>2, StoreTree
    <2>4. tree' = Store(t, "part") /\ ~CopyFile
      BY <1>3 DEF t, CopyFile
    <2> QED
      BY <1>1, <2>2, <2>3, <2>4
  <1>4. CASE \E v \in Arrived : tree' = Store(tree, v)
    <2>0. PICK v \in Arrived : tree' = Store(tree, v)
      BY <1>4
    <2>1. v \in {"part", "bad", "full"} /\ (body = "intact" => v = "full")
      BY DEF Arrived
    <2>2. tree \in [DOMAIN archive -> {"none", "part", "bad", "full"}] /\ tree' = Store(tree, v)
      BY <2>0 DEF TypeOK
    <2>3. /\ Store(tree, v) \in [DOMAIN archive -> {"none", "part", "bad", "full"}]
          /\ Store(tree, v)[i] = v
          /\ \A m \in DOMAIN archive :
               m # i => Store(tree, v)[m] = tree[m] \/ (m \in Links /\ tree[m] # "none")
      BY <1>1, <2>1, <2>2, StoreTree
    <2> QED
      BY <1>1, <2>1, <2>2, <2>3
  <1> QED
    BY <1>2, <1>3, <1>4 DEF OpenFile, CopyFile, Entry

\* Link: one name is new, and it is what its target is.
LEMMA LinkTree ==
    ASSUME TypeOK, Link
    PROVE  \E n \in hardLinks :
             /\ n \in Links
             /\ \/ /\ Exists(archive[n].to) /\ tree[n] = "none"
                   /\ tree' = [tree EXCEPT ![n] = tree[archive[n].to]]
                   /\ tree' \in [DOMAIN archive -> {"none", "part", "bad", "full"}]
                   /\ hardLinks' = hardLinks \ {n} /\ pc' = pc
                   /\ faulty' = faulty
                \/ /\ pc' = "error" /\ tree' = tree /\ hardLinks' = hardLinks
                   /\ faulty' = TRUE \/ (faulty' = faulty /\ ~(Exists(archive[n].to) /\ Exists(archive[n].parent) /\ ~Exists(n)))
  <1>1. \A n \in hardLinks : n \in Links /\ n # 0 /\ archive[n].to \in DOMAIN archive
    BY Entries DEF TypeOK, Links
  <1>2. PICK n \in hardLinks :
          \/ /\ Works /\ Exists(archive[n].to) /\ ~Exists(n)
             /\ tree' = [tree EXCEPT ![n] = tree[archive[n].to]]
             /\ hardLinks' = hardLinks \ {n} /\ UNCHANGED pc
          \/ /\ Works /\ ~(Exists(archive[n].to) /\ Exists(archive[n].parent) /\ ~Exists(n))
             /\ pc' = "error" /\ UNCHANGED <<tree, hardLinks>>
          \/ Fails /\ pc' = "error" /\ UNCHANGED <<tree, hardLinks>>
    BY Zenon DEF Link
  <1>3. ~Exists(n) => tree[n] = "none"
    BY <1>1 DEF Exists
  <1>4. tree' = [tree EXCEPT ![n] = tree[archive[n].to]] => tree' \in [DOMAIN archive -> {"none", "part", "bad", "full"}]
    BY <1>1 DEF TypeOK
  <1> QED
    BY <1>1, <1>2, <1>3, <1>4, Zenon DEF Works, Fails

-----------------------------------------------------------------------------
(* The invariant.                                                          *)

\* No run has started.
LEMMA InitIInv == Init => IInv
  <1> SUFFICES ASSUME Init PROVE IInv
    OBVIOUS
  <1>1. checksum \in BOOLEAN /\ drained \in BOOLEAN /\ fresh \in BOOLEAN /\ faulty \in BOOLEAN /\ tainted \in BOOLEAN
    BY DEF Init
  <1>2. archive \in Archives /\ archive \in Seq([kind : Kind, parent : Nat, to : Nat])
    BY ArchiveAssumption DEF Init
  <1>3. i \in 1..(Len(archive) + 1)
    BY <1>2 DEF Init
  <1>4. tree \in [DOMAIN archive -> {"none", "part", "bad", "full"}]
    BY DEF Init, Empty
  <1>5. faults \in 0..MaxFaults /\ runs \in 0..MaxRuns
    BY ArchiveAssumption DEF Init
  <1>6. TypeOK
    BY <1>1, <1>2, <1>3, <1>4, <1>5 DEF Init, TypeOK
  <1>7. Whole
    BY DEF Init, Empty, Whole
  <1> QED
    BY <1>6, <1>7 DEF Init, IInv, Sound, Unpacked, Linked, Linking, Pristine, OrderedSucceeds

\* The history and the other flags are Boolean.
LEMMA FlagStep ==
    ASSUME TypeOK, [Next]_vars
    PROVE  checksum' \in BOOLEAN /\ drained' \in BOOLEAN /\ fresh' \in BOOLEAN /\ faulty' \in BOOLEAN /\ tainted' \in BOOLEAN
  <1> USE DEF TypeOK, Works, Fails, Same
  <1>1. CASE Start
    BY <1>1 DEF Start
  <1>2. CASE Reformat
    BY <1>2 DEF Reformat
  <1>3. CASE GetArchive
    BY <1>3 DEF GetArchive
  <1>4. CASE ExtractDir
    BY <1>4 DEF ExtractDir
  <1>5. CASE RememberLink
    BY <1>5 DEF RememberLink
  <1>6. CASE ExtractSymlink
    BY <1>6 DEF ExtractSymlink
  <1>7. CASE OpenFile
    BY <1>7 DEF OpenFile
  <1>8. CASE CopyFile
    BY <1>8 DEF CopyFile
  <1>9. CASE SkipOther
    BY <1>9 DEF SkipOther
  <1>10. CASE EndOfArchive
    BY <1>10 DEF EndOfArchive
  <1>11. CASE Link
    BY <1>11 DEF Link
  <1>12. CASE Extracted
    BY <1>12 DEF Extracted
  <1>13. CASE Drain
    BY <1>13 DEF Drain
  <1>14. CASE Verify
    BY <1>14 DEF Verify
  <1>15. CASE Kill
    BY <1>15 DEF Kill
  <1>16. CASE UNCHANGED vars
    BY <1>16 DEF vars
  <1> QED
    BY <1>1, <1>2, <1>3, <1>4, <1>5, <1>6, <1>7, <1>8,
       <1>9, <1>10, <1>11, <1>12, <1>13, <1>14, <1>15, <1>16 DEF Next

\* Every action keeps the tree's type ...
LEMMA TreeStep ==
    ASSUME TypeOK, Sound, Whole, [Next]_vars
    PROVE  archive' = archive /\ tree' \in [DOMAIN archive -> {"none", "part", "bad", "full"}]
  <1> USE DEF TypeOK, Same
  <1>1. CASE Start
    BY <1>1 DEF Start
  <1>2. CASE Reformat
    BY <1>2 DEF Reformat, Empty
  <1>3. CASE GetArchive
    BY <1>3 DEF GetArchive
  <1>4. CASE ExtractDir
    BY <1>4, DirTree DEF ExtractDir
  <1>5. CASE RememberLink
    BY <1>5 DEF RememberLink
  <1>6. CASE ExtractSymlink
    BY <1>6, SymlinkTree DEF ExtractSymlink
  <1>7. CASE OpenFile
    BY <1>7, FileTree DEF OpenFile
  <1>8. CASE CopyFile
    BY <1>8, FileTree DEF CopyFile
  <1>9. CASE SkipOther
    BY <1>9 DEF SkipOther
  <1>10. CASE EndOfArchive
    BY <1>10 DEF EndOfArchive
  <1>11. CASE Link
    BY <1>11, LinkTree DEF Link
  <1>12. CASE Extracted
    BY <1>12 DEF Extracted
  <1>13. CASE Drain
    BY <1>13 DEF Drain
  <1>14. CASE Verify
    BY <1>14 DEF Verify
  <1>15. CASE Kill
    BY <1>15 DEF Kill
  <1>16. CASE UNCHANGED vars
    BY <1>16 DEF vars
  <1> QED
    BY <1>1, <1>2, <1>3, <1>4, <1>5, <1>6, <1>7, <1>8,
       <1>9, <1>10, <1>11, <1>12, <1>13, <1>14, <1>15, <1>16 DEF Next

\* ... and that of everything else.
LEMMA TypeStep ==
    ASSUME TypeOK, Sound, Whole, [Next]_vars
    PROVE  TypeOK'
  <1>1. archive' = archive /\ tree' \in [DOMAIN archive -> {"none", "part", "bad", "full"}]
    BY TreeStep
  <1>2. checksum' \in BOOLEAN /\ drained' \in BOOLEAN /\ fresh' \in BOOLEAN /\ faulty' \in BOOLEAN /\ tainted' \in BOOLEAN
    BY FlagStep
  <1>3. /\ body' \in {"intact", "corrupt", "short"}
        /\ pc' \in {"idle", "get", "next", "copy", "links", "drain", "verify", "ok", "error"}
        /\ faults' \in 0..MaxFaults /\ runs' \in 0..MaxRuns
        /\ i' \in 1..(Len(archive) + 1)
        /\ hardLinks' \subseteq {n \in DOMAIN archive : archive[n].kind = "link"}
    <2> USE ArchiveAssumption, Entries DEF TypeOK, Works, Fails, Same, Entry, NextEntry, Sound
    <2>1. CASE Start
      BY <2>1 DEF Start
    <2>2. CASE Reformat
      BY <2>2 DEF Reformat
    <2>3. CASE GetArchive
      BY <2>3 DEF GetArchive
    <2>4. CASE ExtractDir
      <3>1. i \in Nat /\ i <= Len(archive) /\ (i' = i \/ i' = i + 1)
        BY <2>4 DEF ExtractDir
      <3>2. faults' \in 0..MaxFaults
        BY <2>4 DEF ExtractDir
      <3>3. pc' \in {"next", "error"} /\ UNCHANGED <<archive, body, runs, hardLinks>>
        BY <2>4 DEF ExtractDir
      <3> QED
        BY <3>1, <3>2, <3>3
    <2>5. CASE RememberLink
      BY <2>5 DEF RememberLink
    <2>6. CASE ExtractSymlink
      <3>1. i \in Nat /\ i <= Len(archive) /\ (i' = i \/ i' = i + 1)
        BY <2>6 DEF ExtractSymlink
      <3>2. faults' \in 0..MaxFaults
        BY <2>6 DEF ExtractSymlink
      <3>3. pc' \in {"next", "error"} /\ UNCHANGED <<archive, body, runs, hardLinks>>
        BY <2>6 DEF ExtractSymlink
      <3> QED
        BY <3>1, <3>2, <3>3
    <2>7. CASE OpenFile
      BY <2>7 DEF OpenFile
    <2>8. CASE CopyFile
      <3>1. i \in Nat /\ i <= Len(archive) /\ (i' = i \/ i' = i + 1)
        BY <2>8 DEF CopyFile
      <3>2. faults' \in 0..MaxFaults
        BY <2>8 DEF CopyFile
      <3>3. pc' \in {"next", "error"} /\ UNCHANGED <<archive, body, runs, hardLinks>>
        BY <2>8 DEF CopyFile
      <3> QED
        BY <3>1, <3>2, <3>3
    <2>9. CASE SkipOther
      BY <2>9 DEF SkipOther
    <2>10. CASE EndOfArchive
      BY <2>10 DEF EndOfArchive
    <2>11. CASE Link
      BY <2>11 DEF Link
    <2>12. CASE Extracted
      BY <2>12 DEF Extracted
    <2>13. CASE Drain
      BY <2>13 DEF Drain
    <2>14. CASE Verify
      BY <2>14 DEF Verify
    <2>15. CASE Kill
      BY <2>15 DEF Kill
    <2>16. CASE UNCHANGED vars
      BY <2>16 DEF vars
    <2> QED
      BY <2>1, <2>2, <2>3, <2>4, <2>5, <2>6, <2>7, <2>8,
         <2>9, <2>10, <2>11, <2>12, <2>13, <2>14, <2>15, <2>16 DEF Next
  <1> QED
    BY <1>1, <1>2, <1>3, Zenon DEF TypeOK

\* Sound: a run's place, and what the end of the body and the digest say.
LEMMA SoundStep ==
    ASSUME TypeOK, Sound, Whole, [Next]_vars
    PROVE  Sound'
  <1> USE Entries DEF TypeOK, Sound, Works, Fails, Same, Entry, NextEntry, Linking, Links, Outside, Verified
  <1>1. CASE Start
    <2>1. body' = "intact" \/ faulty'
      BY <1>1 DEF Start
    <2>2. body' = "corrupt" => tainted'
      BY <1>1, Zenon DEF Start
    <2>3. pc' = "get" /\ i' = 1 /\ hardLinks' = {} /\ archive' = archive
      BY <1>1 DEF Start
    <2> QED
      BY <2>1, <2>2, <2>3
  <1>2. CASE Reformat
    BY <1>2 DEF Reformat
  <1>3. CASE GetArchive
    BY <1>3 DEF GetArchive
  <1>4. CASE ExtractDir
    BY <1>4 DEF ExtractDir
  <1>5. CASE RememberLink
    BY <1>5 DEF RememberLink
  <1>6. CASE ExtractSymlink
    BY <1>6 DEF ExtractSymlink
  <1>7. CASE OpenFile
    BY <1>7 DEF OpenFile
  <1>8. CASE CopyFile
    BY <1>8 DEF CopyFile
  <1>9. CASE SkipOther
    BY <1>9 DEF SkipOther
  <1>10. CASE EndOfArchive
    BY <1>10 DEF EndOfArchive
  <1>11. CASE Link
    BY <1>11 DEF Link
  <1>12. CASE Extracted
    BY <1>12 DEF Extracted
  <1>13. CASE Drain
    BY <1>13 DEF Drain
  <1>14. CASE Verify
    BY <1>14 DEF Verify
  <1>15. CASE Kill
    BY <1>15 DEF Kill
  <1>16. CASE UNCHANGED vars
    BY <1>16 DEF vars
  <1> QED
    BY <1>1, <1>2, <1>3, <1>4, <1>5, <1>6, <1>7, <1>8,
       <1>9, <1>10, <1>11, <1>12, <1>13, <1>14, <1>15, <1>16 DEF Next

\* Whole: a file's names are files and hard links.
LEMMA WholeStep ==
    ASSUME TypeOK, Sound, Whole, [Next]_vars
    PROVE  Whole'
  <1> USE DEF TypeOK, Whole, Same
  <1>1. CASE Start
    BY <1>1 DEF Start
  <1>2. CASE Reformat
    BY <1>2 DEF Reformat, Empty
  <1>3. CASE GetArchive
    BY <1>3 DEF GetArchive
  <1>4. CASE ExtractDir
    BY <1>4, DirTree DEF ExtractDir
  <1>5. CASE RememberLink
    BY <1>5 DEF RememberLink
  <1>6. CASE ExtractSymlink
    BY <1>6, SymlinkTree DEF ExtractSymlink
  <1>7. CASE OpenFile
    BY <1>7, FileTree DEF OpenFile, Links
  <1>8. CASE CopyFile
    BY <1>8, FileTree DEF CopyFile, Links
  <1>9. CASE SkipOther
    BY <1>9 DEF SkipOther
  <1>10. CASE EndOfArchive
    BY <1>10 DEF EndOfArchive
  <1>11. CASE Link
    BY <1>11, LinkTree DEF Link, Links
  <1>12. CASE Extracted
    BY <1>12 DEF Extracted
  <1>13. CASE Drain
    BY <1>13 DEF Drain
  <1>14. CASE Verify
    BY <1>14 DEF Verify
  <1>15. CASE Kill
    BY <1>15 DEF Kill
  <1>16. CASE UNCHANGED vars
    BY <1>16 DEF vars
  <1> QED
    BY <1>1, <1>2, <1>3, <1>4, <1>5, <1>6, <1>7, <1>8,
       <1>9, <1>10, <1>11, <1>12, <1>13, <1>14, <1>15, <1>16 DEF Next

\* Unpacked: an entry is unpacked when the loop goes on behind it, and what is
\* unpacked stays so; a file is truncated only under its own names.
LEMMA UnpackedStep ==
    ASSUME TypeOK, Sound, Whole, Unpacked, [Next]_vars
    PROVE  Unpacked'
  <1> DEFINE Running == {"next", "copy"} \cup Linking
  <1>a. ASSUME archive' = archive, body' = body, pc' \in Running => pc \in Running, i' = i,
               \A n \in Plain : n < i /\ Settled(n) => Settled(n)'
        PROVE  Unpacked'
    BY <1>a DEF Unpacked, Plain
  <1>b. ASSUME archive' = archive, body' = body, pc \in Running, i' = i + 1,
               \A n \in Plain : n < i /\ Settled(n) => Settled(n)',
               i \in Plain /\ body = "intact" => tree'[i] = "full" \/ (archive[i].kind = "sym" /\ tree'[i] # "none")
        PROVE  Unpacked'
    <2> SUFFICES ASSUME body = "intact", NEW n \in Plain, n < i + 1 PROVE Settled(n)'
      BY <1>b DEF Unpacked, Plain
    <2>1. n \in Nat /\ i \in Nat
      BY Entries DEF Plain, TypeOK
    <2>2. CASE n < i
      BY <1>b, <2>2 DEF Unpacked
    <2>3. CASE n = i
      BY <1>b, <2>3 DEF Settled
    <2> QED
      BY <2>1, <2>2, <2>3
  <1> USE DEF Same, Linking, Outside
  <1>1. CASE Start
    BY <1>1 DEF Start, Unpacked
  <1>2. CASE Reformat
    BY <1>2 DEF Reformat, Unpacked
  <1>3. CASE GetArchive
    <2>1. CASE pc' = "next"
      <3>1. i' = 1
        BY <1>3, <2>1 DEF GetArchive, Sound
      <3>2. \A n \in Plain' : n \in Nat /\ n >= 1
        BY <1>3, Entries DEF GetArchive, Plain
      <3> QED
        BY <3>1, <3>2 DEF Unpacked
    <2>2. CASE pc' = "error"
      BY <2>2 DEF Unpacked
    <2> QED
      BY <1>3, <2>1, <2>2 DEF GetArchive
  <1>4. CASE ExtractDir
    <2>1. CASE pc' = "error"
      BY <2>1 DEF Unpacked
    <2>2. CASE pc' # "error"
      <3>1. i' = i + 1 /\ pc \in Running /\ archive' = archive /\ body' = body
        BY <1>4, <2>2 DEF ExtractDir, Entry, NextEntry
      <3>2. \A n \in Plain : Settled(n) => Settled(n)'
        BY <1>4, <3>1, DirTree DEF Plain, Settled
      <3>3. tree'[i] = "full"
        BY <1>4, <2>2, DirTree
      <3> QED
        BY <1>b, <3>1, <3>2, <3>3
    <2> QED
      BY <2>1, <2>2
  <1>5. CASE RememberLink
    <2>1. i \notin Plain
      BY <1>5 DEF RememberLink, Entry, Plain
    <2> QED
      BY <1>5, <1>b, <2>1 DEF RememberLink, Entry, NextEntry, Settled
  <1>6. CASE ExtractSymlink
    <2>1. CASE pc' = "error"
      BY <2>1 DEF Unpacked
    <2>2. CASE pc' # "error"
      <3>1. pc \in Running /\ archive' = archive /\ body' = body
        BY <1>6 DEF ExtractSymlink, Entry
      <3>2. i' = i + 1 /\ archive[i].kind = "sym" /\ tree'[i] # "none"
        BY <1>6, <2>2, SymlinkTree
      <3>3. \A n \in Plain : Settled(n) => Settled(n)'
        BY <1>6, <3>1, <3>2, SymlinkTree DEF Plain, Settled
      <3> QED
        BY <1>b, <3>1, <3>2, <3>3
    <2> QED
      BY <2>1, <2>2
  <1>7. CASE OpenFile
    <2>0. archive' = archive
      BY <1>7 DEF OpenFile
    <2>1. \A n \in Plain : n < i /\ Settled(n) => Settled(n)'
      <3>1. \A n \in Plain : n \in DOMAIN archive /\ n \notin Links /\ (n < i => n # i)
        BY Entries DEF Plain, Links, TypeOK
      <3> QED
        BY <1>7, <2>0, <3>1, FileTree DEF Settled
    <2>2. body' = body /\ pc \in Running /\ i' = i
      BY <1>7 DEF OpenFile, Entry
    <2> QED
      BY <1>a, <2>0, <2>1, <2>2
  <1>8. CASE CopyFile
    <2>1. CASE pc' = "error"
      BY <2>1 DEF Unpacked
    <2>2. CASE pc' # "error"
      <3>1. i' = i + 1 /\ pc \in Running /\ archive' = archive /\ body' = body
        BY <1>8, <2>2 DEF CopyFile, NextEntry
      <3>2. \A n \in Plain : n < i /\ Settled(n) => Settled(n)'
        <4>1. \A n \in Plain : n \in DOMAIN archive /\ n \notin Links /\ (n < i => n # i)
          BY Entries DEF Plain, Links, TypeOK
        <4> QED
          BY <1>8, <3>1, <4>1, FileTree DEF Settled
      <3>3. body = "intact" => tree'[i] = "full"
        BY <1>8, <2>2, FileTree
      <3> QED
        BY <1>b, <3>1, <3>2, <3>3
    <2> QED
      BY <2>1, <2>2
  <1>9. CASE SkipOther
    <2>1. i \notin Plain
      BY <1>9 DEF SkipOther, Entry, Plain
    <2> QED
      BY <1>9, <1>b, <2>1 DEF SkipOther, Entry, NextEntry, Settled
  <1>10. CASE EndOfArchive
    BY <1>10, <1>a DEF EndOfArchive, Settled
  <1>11. CASE Link
    <2>1. \A n \in Plain : n \notin Links /\ n \in DOMAIN archive
      BY DEF Plain, Links
    <2>2. \A n \in Plain : tree'[n] = tree[n]
      BY <1>11, <2>1, LinkTree DEF TypeOK
    <2>3. archive' = archive /\ body' = body /\ i' = i /\ pc \in Running
      BY <1>11 DEF Link
    <2>4. \A n \in Plain : Settled(n) => Settled(n)'
      BY <2>2, <2>3 DEF Settled
    <2> QED
      BY <1>a, <2>3, <2>4
  <1>12. CASE Extracted
    BY <1>12, <1>a DEF Extracted, Settled
  <1>13. CASE Drain
    BY <1>13, <1>a DEF Drain, Settled
  <1>14. CASE Verify
    BY <1>14, <1>a DEF Verify, Settled
  <1>15. CASE Kill
    BY <1>15 DEF Kill, Unpacked
  <1>16. CASE UNCHANGED vars
    BY <1>16, <1>a DEF vars, Settled
  <1> QED
    BY <1>1, <1>2, <1>3, <1>4, <1>5, <1>6, <1>7, <1>8,
       <1>9, <1>10, <1>11, <1>12, <1>13, <1>14, <1>15, <1>16 DEF Next

\* Linked: a link is made from a file that is unpacked or from a link that is
\* made; and a name in its way stays there.
LEMMA LinkedStep ==
    ASSUME TypeOK, Sound, Unpacked, Linked, [Next]_vars
    PROVE  Linked'
  <1>a. ASSUME UNCHANGED <<archive, tree, body, hardLinks>>, pc' \in Linking => pc \in Linking
        PROVE  Linked'
    BY <1>a DEF Linked, Links
  <1>b. ASSUME pc' \notin Linking
        PROVE  Linked'
    BY <1>b DEF Linked
  <1>c. CASE Start \/ Reformat \/ Kill \/ GetArchive
    BY <1>b, <1>c DEF Start, Reformat, Kill, GetArchive, Linking
  <1>d. CASE ExtractDir \/ RememberLink \/ ExtractSymlink \/ OpenFile \/ CopyFile \/ SkipOther
    BY <1>b, <1>d DEF ExtractDir, RememberLink, ExtractSymlink, OpenFile, CopyFile, SkipOther, NextEntry, Linking
  <1>e. CASE Extracted \/ Drain \/ Verify \/ UNCHANGED vars
    BY <1>a, <1>e DEF Extracted, Drain, Verify, Same, vars, Linking
  <1>f. CASE EndOfArchive
    <2>1. UNCHANGED <<archive, tree, body, hardLinks>> /\ (i > Len(archive) \/ body = "short")
      BY <1>f DEF EndOfArchive, Same
    <2>2. i > Len(archive) => \A n \in Links : n \in hardLinks
      BY <1>f, Entries DEF EndOfArchive, Sound, Links, TypeOK
    <2> QED
      BY <2>1, <2>2 DEF Linked, Links
  <1>g. CASE Link
    <2>1. pc = "links" /\ archive' = archive /\ body' = body /\ Links' = Links
      BY <1>g DEF Link, Same, Links
    <2> SUFFICES ASSUME pc' \in Linking, body = "intact"
                 PROVE  \/ \E n \in hardLinks' : tree'[n] # "none"
                        \/ \A n \in Links : n \in hardLinks' \/ tree'[n] = "full"
      BY <2>1 DEF Linked
    <2>2. PICK n \in hardLinks :
            /\ n \in Links /\ Exists(archive[n].to) /\ tree[n] = "none"
            /\ tree' = [tree EXCEPT ![n] = tree[archive[n].to]]
            /\ hardLinks' = hardLinks \ {n}
      BY <1>g, LinkTree DEF Linking
    <2>3. /\ archive[n].to \in DOMAIN archive /\ archive[archive[n].to].kind \in {"reg", "link"}
          /\ archive[n].to \in Nat /\ archive[n].to # 0 /\ archive[n].to < i
          /\ DOMAIN tree = DOMAIN archive /\ hardLinks \subseteq DOMAIN archive
      BY <2>1, <2>2, Entries DEF Links, Sound, Linking, TypeOK
    <2>4. tree[archive[n].to] # "none"
      BY <2>2, <2>3 DEF Exists
    <2>5. CASE \E m \in hardLinks : tree[m] # "none"
      <3>1. PICK m \in hardLinks : tree[m] # "none"
        BY <2>5
      <3>2. m \in hardLinks' /\ tree'[m] = tree[m]
        BY <2>2, <2>3, <3>1
      <3> QED
        BY <3>1, <3>2
    <2>6. CASE \A m \in hardLinks : tree[m] = "none"
      <3>1. \A m \in Links : m \in hardLinks \/ tree[m] = "full"
        BY <2>1, <2>6 DEF Linked, Linking
      <3>2. tree[archive[n].to] = "full"
        <4>1. CASE archive[archive[n].to].kind = "reg"
          BY <2>1, <2>3, <4>1 DEF Unpacked, Linking, Plain, Settled
        <4>2. CASE archive[archive[n].to].kind = "link"
          BY <2>3, <2>4, <2>6, <3>1, <4>2 DEF Links
        <4> QED
          BY <2>3, <4>1, <4>2
      <3>3. tree'[n] = "full" /\ \A m \in Links : m # n => tree'[m] = tree[m]
        BY <2>2, <2>3, <3>2 DEF Links
      <3> QED
        BY <2>2, <3>1, <3>3
    <2> QED
      BY <2>5, <2>6
  <1> QED
    BY <1>c, <1>d, <1>e, <1>f, <1>g DEF Next

\* Pristine: only Link makes a hard link, one of the map at a time.
LEMMA PristineStep ==
    ASSUME TypeOK, Sound, Whole, Pristine, [Next]_vars
    PROVE  Pristine'
  <1> DEFINE Extracting == {"get", "next", "copy"}
  <1>a. ASSUME archive' = archive, fresh' = fresh, pc \in Extracting, pc' \in Extracting \cup {"error"},
               \A n \in Links : tree[n] = "none" => tree'[n] = "none"
        PROVE  Pristine'
    BY <1>a DEF Pristine, Links
  <1>b. ASSUME pc' \notin Extracting \cup {"links"}
        PROVE  Pristine'
    BY <1>b DEF Pristine
  <1>c. CASE Start
    BY <1>c DEF Start, Empty, Pristine, Links, Sound
  <1>d. CASE Reformat \/ Kill \/ Extracted \/ Drain \/ Verify
    BY <1>b, <1>d DEF Reformat, Kill, Extracted, Drain, Verify
  <1>e. CASE GetArchive \/ RememberLink \/ SkipOther
    BY <1>a, <1>e DEF GetArchive, RememberLink, SkipOther, Entry, NextEntry, Same
  <1>f. CASE ExtractDir
    <2>1. \A n \in Links : tree[n] = "none" => tree'[n] = "none"
      BY <1>f, DirTree DEF Links
    <2> QED
      BY <1>a, <1>f, <2>1 DEF ExtractDir, Entry, NextEntry, Same
  <1>g. CASE ExtractSymlink
    <2>1. \A n \in Links : tree[n] = "none" => tree'[n] = "none"
      BY <1>g, SymlinkTree DEF Links
    <2> QED
      BY <1>a, <1>g, <2>1 DEF ExtractSymlink, Entry, NextEntry, Same
  <1>h. CASE OpenFile \/ CopyFile
    <2>1. \A n \in Links : tree[n] = "none" => tree'[n] = "none"
      BY <1>h, FileTree DEF Links
    <2> QED
      BY <1>a, <1>h, <2>1 DEF OpenFile, CopyFile, Entry, NextEntry, Same
  <1>i. CASE EndOfArchive
    BY <1>i DEF EndOfArchive, Same, Pristine, Sound, Links
  <1>j. CASE Link
    <2>1. pc = "links" /\ fresh' = fresh /\ pc' \in {"links", "error"}
      BY <1>j DEF Link, Same
    <2>2. fresh /\ pc' = "links" => \A n \in hardLinks' : tree'[n] = "none"
      BY <1>j, <2>1, LinkTree DEF Pristine, TypeOK
    <2> QED
      BY <2>1, <2>2 DEF Pristine
  <1>k. CASE UNCHANGED vars
    BY <1>k DEF vars, Pristine, Links
  <1> QED
    BY <1>c, <1>d, <1>e, <1>f, <1>g, <1>h, <1>i, <1>j, <1>k DEF Next

\* OrderedSucceeds: what a call needs is there.  A symbolic link's directory
\* and a hard link's file come from the archive, and the names from nobody.
LEMMA OrderedStep ==
    ASSUME TypeOK, Sound, Whole, Unpacked, Pristine, OrderedSucceeds, [Next]_vars
    PROVE  OrderedSucceeds'
  <1>a. ASSUME pc' # "error" \/ faulty'
        PROVE  OrderedSucceeds'
    BY <1>a DEF OrderedSucceeds
  <1>b. CASE Start \/ Reformat \/ RememberLink \/ SkipOther \/ EndOfArchive \/ Extracted \/ Kill
    BY <1>a, <1>b DEF Start, Reformat, RememberLink, SkipOther, EndOfArchive, Extracted, Kill, NextEntry
  <1>c. CASE GetArchive \/ ExtractDir \/ OpenFile \/ CopyFile \/ Drain
    BY <1>a, <1>c DEF GetArchive, ExtractDir, OpenFile, CopyFile, Drain, Fails, NextEntry
  <1>d. CASE ExtractSymlink
    <2>1. archive' = archive /\ fresh' = fresh /\ body' = body /\ (pc' = "error" => faulty' \/ (~Exists(archive[i].parent) /\ faulty' = faulty))
      BY <1>d DEF ExtractSymlink, Same, Fails, Works, NextEntry
    <2> SUFFICES ASSUME pc' = "error", ~faulty', fresh, WellOrdered(archive) PROVE FALSE
      BY <2>1 DEF OrderedSucceeds
    <2>2. i \in DOMAIN archive /\ archive[i].kind = "sym" /\ pc = "next"
      BY <1>d, Entries DEF ExtractSymlink, Entry, TypeOK
    <2> DEFINE up == archive[i].parent
    <2>3. up \in DOMAIN archive /\ archive[up].kind = "dir" /\ up < i /\ tree[up] = "none"
      BY <2>1, <2>2, Entries DEF WellOrdered, Exists
    <2>4. body = "intact"
      BY <2>1 DEF Sound
    <2> QED
      BY <2>2, <2>3, <2>4 DEF Unpacked, Plain, Settled
  <1>e. CASE Link
    <2>1. pc = "links" /\ archive' = archive /\ fresh' = fresh /\ body' = body
      BY <1>e DEF Link, Same
    <2> SUFFICES ASSUME pc' = "error", ~faulty', fresh, WellOrdered(archive) PROVE FALSE
      BY <2>1 DEF OrderedSucceeds
    <2>2. PICK n \in hardLinks :
            n \in Links /\ faulty' = faulty /\ ~(Exists(archive[n].to) /\ Exists(archive[n].parent) /\ ~Exists(n))
      BY <1>e, <2>1, LinkTree
    <2>3. body = "intact" /\ i = Len(archive) + 1
      BY <2>1, <2>2 DEF Sound, Linking
    <2>4. \A m \in Plain : tree[m] # "none"
      BY <2>1, <2>3, Entries DEF Unpacked, Linking, Plain, Settled
    <2>5. Exists(archive[n].to)
      BY <2>2, <2>4, Entries DEF WellOrdered, Links, Plain, Exists
    <2>6. Exists(archive[n].parent)
      BY <2>2, <2>4, Entries DEF Links, Plain, Exists
    <2>7. ~Exists(n)
      BY <2>1, <2>2, Entries DEF Pristine, Links, Exists
    <2> QED
      BY <2>2, <2>5, <2>6, <2>7
  <1>f. CASE Verify
    <2>1. pc = "verify" /\ UNCHANGED <<body, drained, faulty>> /\ (pc' = "error" => ~(drained /\ body = "intact"))
      BY <1>f DEF Verify, Verified, Same, Works
    <2> QED
      BY <1>a, <2>1 DEF Sound
  <1>g. CASE UNCHANGED vars
    BY <1>g DEF vars, OrderedSucceeds, WellOrdered
  <1> QED
    BY <1>b, <1>c, <1>d, <1>e, <1>f, <1>g DEF Next

-----------------------------------------------------------------------------
(* The theorems.                                                           *)

\* The picture of the runs is true at every moment.
THEOREM Invariance == Spec => []IInv
  <1>1. IInv /\ [Next]_vars => IInv'
    BY TypeStep, SoundStep, WholeStep, UnpackedStep, LinkedStep, PristineStep, OrderedStep DEF IInv
  <1> QED
    BY InitIInv, <1>1, PTL DEF Spec

\* Every variable keeps its type: the loop stays inside the archive, and only
\* hard links are in the map.
THEOREM TypeCorrect == Spec => []TypeOK
  <1>1. IInv => TypeOK
    BY DEF IInv
  <1> QED
    BY Invariance, <1>1, PTL

\* A run that ends well on a body that is as published has unpacked it all.
LEMMA SuccessUnpacked ==
    ASSUME IInv, pc = "ok", body = "intact", NEW n \in Handled
    PROVE  tree[n] = "full" \/ KeptLink(n)
  <1>1. i = Len(archive) + 1 /\ hardLinks = {}
    BY DEF IInv, Sound, Linking
  <1>2. n \in DOMAIN archive /\ n < i /\ (n \in Plain \/ n \in Links)
    BY <1>1, Entries DEF IInv, Handled, Plain, Links, Kind
  <1>3. CASE n \in Plain
    <2>1. Settled(n)
      BY <1>2, <1>3 DEF IInv, Unpacked, Linking
    <2> QED
      BY <1>2, <2>1 DEF IInv, Whole, Settled, KeptLink
  <1>4. CASE n \in Links
    BY <1>1, <1>4 DEF IInv, Linked, Linking
  <1> QED
    BY <1>2, <1>3, <1>4

\* SuccessMeansUnpacked: "Successfully unpacked" with a checksum, whatever was
\* killed or failed before, means the whole archive as published, but for the
\* symbolic links that were made from a corrupt body and are kept.
THEOREM CheckedUnpacked == Spec => []SuccessMeansUnpacked
  <1>1. IInv => SuccessMeansUnpacked
    BY SuccessUnpacked DEF IInv, Sound, SuccessMeansUnpacked
  <1> QED
    BY Invariance, <1>1, PTL

\* UncheckedMeansUnpacked: without a checksum too, with the same exception,
\* unless the body was bad.
THEOREM UncheckedUnpacked == Spec => []UncheckedMeansUnpacked
  <1>1. IInv => UncheckedMeansUnpacked
    BY SuccessUnpacked DEF IInv, Sound, UncheckedMeansUnpacked
  <1> QED
    BY Invariance, <1>1, PTL

\* OrderedSucceeds: a well ordered archive that arrives intact on a fresh tree
\* is unpacked, in whatever order the map yields the hard links.
THEOREM OrderedUnpacked == Spec => []OrderedSucceeds
  <1>1. IInv => OrderedSucceeds
    BY DEF IInv
  <1> QED
    BY Invariance, <1>1, PTL
=============================================================================
