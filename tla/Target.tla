------------------------------- MODULE Target -------------------------------
(***************************************************************************)
(* A workflow that configures an installed operating system: the actions   *)
(* of a plan run one after the other, each in a container of its own, on   *)
(* one target.  An action that fails, or is killed at its timeout, ends    *)
(* the run; the workflow may then be run again on the same target.  What a *)
(* container mounts goes with it, what it wrote stays.                     *)
(*                                                                         *)
(* This module holds what all actions share: the document, the control of  *)
(* the workflow and the tree of files.  WriteFile, UserManage,             *)
(* SerialConsole, Grub2disk and Kexec extend it; Configure composes them.  *)
(***************************************************************************)
EXTENDS Naturals, Sequences, FiniteSets

CONSTANTS
    Documents,  \* plans with the metadata and the image they are run on
    MaxFaults,  \* bound: failed calls and kills
    MaxRuns,    \* bound: runs of the workflow
    None        \* what is not there

ASSUME TargetAssumption == MaxFaults \in Nat /\ MaxRuns \in Nat \ {0}

VARIABLES
    doc,       \* the document: plan, metadata, image
    at,        \* place in the plan of the action that runs
    pc,        \* the action's next call; "begin" before its first
    n,         \* a loop index of the action; for grub2disk 1 without the siblings
    status,    \* "running", "failed", "done"; "booted" after a kexec
    runs,      \* runs that were started
    faults,    \* faults so far
    disturbed, \* history: a fault in this run
    tree,      \* the target's files: path -> [kind, owner]
    scars      \* history: what a fault left that no error told or no rerun mends

control == <<doc, at, pc, n, status, runs, faults, disturbed>>

-----------------------------------------------------------------------------
(* Control.                                                                *)

Act == doc.plan[at]

\* The action of kind k is at its call p.
At(k, p) == status = "running" /\ Act.kind = k /\ pc = p

\* On to the next call, with the loop index i.
Go(p, i) ==
    /\ pc' = p /\ n' = i
    /\ UNCHANGED <<doc, at, status, runs, faults, disturbed>>

\* The action exits with 0.
ActionDone ==
    /\ status' = (IF at = Len(doc.plan) THEN "done" ELSE "running")
    /\ at' = IF at = Len(doc.plan) THEN at ELSE at + 1
    /\ pc' = "begin" /\ n' = 0
    /\ UNCHANGED <<doc, runs, faults, disturbed>>

Exit == /\ status' = "failed" /\ at' = 1 /\ pc' = "begin" /\ n' = 0
        /\ UNCHANGED <<doc, runs>>

\* The action exits with an error that this target gives it.
Refuse == Exit /\ UNCHANGED <<faults, disturbed>>

\* A call fails for a reason of its own, or the action is killed in it.
Fault == /\ faults < MaxFaults /\ faults' = faults + 1 /\ disturbed' = TRUE
         /\ Exit

\* Every error ends these actions, so a fault that leaves no trace looks the
\* same in all of them.
Stop == status = "running" /\ Fault /\ UNCHANGED <<tree, scars>>

\* The operator starts the workflow again.
Rerun ==
    /\ status = "failed" /\ runs < MaxRuns
    /\ status' = "running" /\ runs' = runs + 1 /\ disturbed' = FALSE
    /\ UNCHANGED <<doc, at, pc, n, faults, tree, scars>>

\* A call fails and the action only warns of it, or not even that.
Slip == /\ faults < MaxFaults /\ faults' = faults + 1 /\ disturbed' = TRUE
        /\ UNCHANGED <<doc, at, status, runs>>

-----------------------------------------------------------------------------
(* Files.                                                                  *)

\* Names of files and users: the provers know no literal for a member of STRING.
Name == STRING \cup {"home", "root", ".ssh", "authorized_keys", "shadowed"}

Dir(owner) == [kind |-> "dir", owner |-> owner]
File(owner) == [kind |-> "file", owner |-> owner]
Torn(owner) == [kind |-> "torn", owner |-> owner]

IsDir(p) == p \in DOMAIN tree /\ tree[p].kind = "dir"
IsFile(p) == p \in DOMAIN tree /\ tree[p].kind # "dir"

\* A file that is opened with O_CREATE keeps the owner it has.
OwnerOr(t, p, owner) == IF p \in DOMAIN t THEN t[p].owner ELSE owner

Put(t, p, node) == [q \in DOMAIN t \cup {p} |-> IF q = p THEN node ELSE t[q]]

\* The directories on the way to a path, and the path.
Above(p) == {SubSeq(p, 1, i) : i \in 1..(Len(p) - 1)}
UpTo(p) == Above(p) \cup {p}

\* doc.siblings are the directories of the root that have a filesystem of their
\* own.  An action that mounts the root alone sees what lies below the mount.
OnRootOnly(p) == IF p # <<>> /\ p[1] \in doc.siblings THEN <<"shadowed">> \o p ELSE p

MountPoints(d) == IF d.siblings = {} THEN {} ELSE {<<"shadowed">>} \cup {<<"shadowed", s>> : s \in d.siblings}

ASSUME PlanAssumption == \A d \in Documents :
    /\ d.plan \in Seq({d.plan[i] : i \in DOMAIN d.plan}) /\ Len(d.plan) > 0
    /\ d.siblings \subseteq Name

\* A file has a path, with any name but the one this model keeps for itself.
ASSUME FileAssumption == \A d \in Documents : \A i \in DOMAIN d.plan :
    LET a == d.plan[i]
    IN a.kind = "writefile" =>
           a.path \in Seq(Name) /\ Len(a.path) > 0 /\ a.path[1] # "shadowed" /\ a.uid \in Nat

\* An image is a tree with the directories of every Linux image and the mount
\* points of its siblings.
ASSUME ImageAssumption == \A d \in Documents :
    LET t == d.image.tree
        IsADir(p) == p \in DOMAIN t /\ t[p].kind = "dir"
    IN /\ \A p \in DOMAIN t :
              /\ p \in Seq(Name) /\ t[p] \in [kind : {"dir", "file"}, owner : Nat]
              /\ p # <<>> => p[1] # "shadowed"
              /\ \A q \in Above(p) : IsADir(q)
       /\ \A p \in {<<>>, <<"home">>, <<"root">>} \cup {<<s>> : s \in d.siblings} : IsADir(p)

TargetInit ==
    /\ doc \in Documents
    /\ at = 1 /\ pc = "begin" /\ n = 0 /\ status = "running"
    /\ runs = 1 /\ faults = 0 /\ disturbed = FALSE
    /\ tree = [p \in DOMAIN doc.image.tree \cup MountPoints(doc) |->
                  IF p \in DOMAIN doc.image.tree THEN doc.image.tree[p] ELSE Dir(0)]
    /\ scars = {}

TargetTypeOK ==
    /\ doc \in Documents /\ at \in DOMAIN doc.plan
    /\ status \in {"running", "failed", "done", "booted"}
    /\ n \in Nat /\ runs \in 1..MaxRuns /\ faults \in 0..MaxFaults
    /\ disturbed \in BOOLEAN
    /\ \A p \in DOMAIN tree :
        /\ tree[p] \in [kind : {"dir", "file", "torn"}, owner : Nat]
        /\ \A q \in Above(p) : IsDir(q)
=============================================================================
