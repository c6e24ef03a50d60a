----------------------------- MODULE WriteFile ------------------------------
(***************************************************************************)
(* writefile (writefile/main.go): make the directories of DEST_PATH that   *)
(* do not exist and give them to UID, then write the file and give it to   *)
(* UID.  The action is a record with `path' (a sequence of names) and      *)
(* `uid'; groups and modes are left out.  It mounts the root alone.        *)
(***************************************************************************)
EXTENDS Target

Dest == OnRootOnly(Act.path)
Part(p, i) == SubSeq(p, 1, i)
Parent(p) == Part(p, Len(p) - 1)

\* Mount, then recursiveEnsureDir: nothing to do when the directory exists,
\* an error when something on the way to it is a file.
BeginWriteFile ==
    /\ At("writefile", "begin")
    /\ \/ IsDir(Parent(Dest)) /\ Go("write", 0)
       \/ (\E q \in Above(Dest) : IsFile(q)) /\ Refuse
       \/ ~IsDir(Parent(Dest)) /\ (\A q \in Above(Dest) : ~IsFile(q)) /\ Go("ensure", 1)
    /\ UNCHANGED <<tree, scars>>

\* Mutant: the directories keep the owner that Mkdir gives them.
EnsureDirRoot ==
    /\ At("writefile", "ensure") /\ n < Len(Dest)
    /\ tree' = IF IsDir(Part(Dest, n)) THEN tree ELSE Put(tree, Part(Dest, n), Dir(0))
    /\ Go("ensure", n + 1) /\ UNCHANGED scars

\* One directory: Mkdir and Chown.  A fault between the two leaves it to root,
\* and the next run finds that it exists.
EnsureDir ==
    /\ At("writefile", "ensure") /\ n < Len(Dest)
    /\ LET d == Part(Dest, n)
       IN \/ IsDir(d) /\ Go("ensure", n + 1) /\ UNCHANGED <<tree, scars>>
          \/ ~IsDir(d) /\ tree' = Put(tree, d, Dir(Act.uid)) /\ Go("ensure", n + 1) /\ UNCHANGED scars
          \/ ~IsDir(d) /\ tree' = Put(tree, d, Dir(0)) /\ scars' = scars \cup {<<"chown", d>>} /\ Fault

DirsEnsured ==
    /\ At("writefile", "ensure") /\ n = Len(Dest)
    /\ Go("write", 0) /\ UNCHANGED <<tree, scars>>

\* os.WriteFile and os.Chown; a fault in between leaves a file that is torn, or
\* whole with the owner it had.
WriteContents ==
    /\ At("writefile", "write")
    /\ LET p == Dest
       IN \/ IsDir(p) /\ Refuse /\ UNCHANGED tree
          \/ ~IsDir(p) /\ tree' = Put(tree, p, File(Act.uid)) /\ ActionDone
          \/ /\ ~IsDir(p) /\ Fault
             /\ \E node \in {Torn(OwnerOr(tree, p, 0)), File(OwnerOr(tree, p, 0))} : tree' = Put(tree, p, node)
    /\ UNCHANGED scars

WriteFileNext == BeginWriteFile \/ EnsureDir \/ DirsEnsured \/ WriteContents
=============================================================================
