-------------------------- MODULE InstallTreeProof --------------------------
(***************************************************************************)
(* For every metadata list: pkg/chroot never mounts over a mount it has    *)
(* made.  The argument: at every moment the mounts are a prefix of the     *)
(* root, the entries of todo and the three bind mounts (Shape); todo is    *)
(* free of repetitions and ordered by length of path (Ordered); a path is  *)
(* at or below another one of no smaller length only if the two are equal, *)
(* and no two entries of the metadata have the same point.                 *)
(* On it rests the second part: what is written lies in the file system    *)
(* that the booted target mounts over its path.                            *)
(***************************************************************************)
EXTENDS InstallTree, FiniteSetTheorems, WellFoundedInduction, TLAPS

Typed ==
    /\ list \in Lists
    /\ i \in Nat \ {0}
    /\ todo \in Seq(Keep)
    /\ mounts \in Seq(Entry)

Ordered == \A a, b \in DOMAIN todo :
    a < b => todo[a] # todo[b] /\ Len(list[todo[a]].point) <= Len(list[todo[b]].point)

\* The point of the n-th mount.
PointOf(n) == IF n = 1 THEN <<>>
              ELSE IF n <= Len(todo) + 1 THEN list[todo[n - 1]].point
              ELSE <<Special[n - 1 - Len(todo)]>>

Shape == /\ Len(mounts) <= Len(todo) + 1 + Len(Special)
         /\ \A n \in DOMAIN mounts : mounts[n].point = PointOf(n)

Progress == /\ pc \in {"fetch", "root"} => mounts = <<>> /\ i = 1
            /\ pc = "extras" => Len(mounts) = i /\ i <= Len(todo) + 1
            /\ pc = "bind" => Len(mounts) = Len(todo) + i /\ i <= Len(Special) + 1

IInv == Typed /\ Ordered /\ Shape /\ Progress

\* The metadata's entries as InstallAssumption describes them.
LEMMA ListFacts ==
    ASSUME NEW l \in Lists
    PROVE  /\ l \in Seq([point : Seq(STRING) \cup {NoPoint},
                         format : {"ext4", "vfat", "swap", "btrfs"}, label : BOOLEAN])
           /\ \E n \in DOMAIN l : l[n].point = <<>>
           /\ \A m, n \in DOMAIN l : l[m].point = l[n].point /\ l[m].point # NoPoint => m = n
           /\ \A n \in DOMAIN l : l[n].point \in Seq(STRING) =>
                 \A s \in DOMAIN Special : ~Below(l[n].point, <<Special[s]>>)
  BY InstallAssumption

\* What is kept is in the list, has a point, and is not the root.
LEMMA KeepFacts ==
    ASSUME list \in Lists, NEW n \in Keep
    PROVE  /\ n \in DOMAIN list /\ n \in Nat
           /\ list[n].point \in Seq(STRING) /\ Len(list[n].point) >= 1
  <1>1. /\ n \in DOMAIN list
        /\ list[n].point # NoPoint /\ list[n].point # <<>>
    BY DEF Keep
  <1>2. list[n].point \in Seq(STRING)
    <2> DEFINE R == [point : Seq(STRING) \cup {NoPoint},
                     format : {"ext4", "vfat", "swap", "btrfs"}, label : BOOLEAN]
    <2>1. list \in Seq(R)
      BY InstallAssumption
    <2>2. \A S, l, k : l \in Seq(S) /\ k \in DOMAIN l => l[k] \in S
      OBVIOUS
    <2>3. list[n] \in R
      BY <2>1, <2>2, <1>1, Zenon
    <2> QED
      BY <2>3, <1>1
  <1>3. n \in Nat
    BY <1>1, ListFacts
  <1> QED
    BY <1>1, <1>2, <1>3

\* The list is finite, and so is what is kept of it.
LEMMA KeepFinite ==
    ASSUME list \in Lists
    PROVE  Cardinality(Keep) \in Nat
  <1>1. DOMAIN list = 1..Len(list) /\ Len(list) \in Nat
    BY ListFacts
  <1>2. IsFiniteSet(1..Len(list))
    BY <1>1, FS_Interval
  <1>3. Keep \subseteq 1..Len(list)
    BY <1>1 DEF Keep
  <1> QED
    BY <1>2, <1>3, FS_Subset, FS_CardinalityType

\* Root is the entry whose mount point is "/".
LEMMA RootFacts ==
    ASSUME list \in Lists
    PROVE  Root \in DOMAIN list /\ Root \in Nat
  <1>1. \E n \in DOMAIN list : list[n].point = <<>>
    BY ListFacts
  <1>2. Root \in DOMAIN list
    BY <1>1 DEF Root
  <1> QED
    BY <1>2, ListFacts

\* A path below one that is at least as long is the same path.
LEMMA BelowLonger ==
    ASSUME NEW p \in Seq(STRING), NEW q \in Seq(STRING), Len(p) <= Len(q), Below(p, q)
    PROVE  p = q
  BY DEF Below

-----------------------------------------------------------------------------
\* Mounts in the shape that pkg/chroot gives them never cover one another.
LEMMA ShapeHidesNothing == IInv => NothingHidden
  <1> SUFFICES ASSUME IInv,
                      NEW n \in DOMAIN mounts, NEW m \in DOMAIN mounts, m > n,
                      Below(mounts[n].point, mounts[m].point)
               PROVE  FALSE
    BY DEF NothingHidden, Hidden
  <1> USE DEF IInv
  <1> DEFINE T == Len(todo)
  <1>0. /\ n \in Nat /\ m \in Nat /\ n >= 1 /\ m >= 2 /\ m <= T + 4 /\ T \in Nat
        /\ Len(Special) = 3 /\ DOMAIN Special = 1..3
    BY DEF Typed, Shape, Special
  <1>1. /\ mounts[n].point = PointOf(n) /\ mounts[m].point = PointOf(m)
    BY DEF Shape
  <1>2. \A a \in 1..T : /\ todo[a] \in Keep /\ todo[a] \in DOMAIN list
                        /\ list[todo[a]].point \in Seq(STRING)
                        /\ Len(list[todo[a]].point) >= 1
    BY KeepFacts DEF Typed
  <1>3. CASE n = 1
    <2>1. PointOf(n) = <<>>
      BY <1>3 DEF PointOf
    <2>2. Len(PointOf(m)) >= 1
      <3>1. CASE m <= T + 1
        <4>1. m - 1 \in 1..T
          BY <3>1, <1>0
        <4>2. PointOf(m) = list[todo[m - 1]].point
          BY <3>1, <1>0 DEF PointOf
        <4> QED
          BY <4>1, <4>2, <1>2
      <3>2. CASE m > T + 1
        BY <3>2, <1>0 DEF PointOf
      <3> QED BY <3>1, <3>2, <1>0
    <2> QED
      BY <2>1, <2>2, <1>1 DEF Below
  <1>4. CASE n > 1 /\ m <= T + 1
    <2>1. /\ n - 1 \in 1..T /\ m - 1 \in 1..T /\ n - 1 < m - 1
          /\ PointOf(n) = list[todo[n - 1]].point /\ PointOf(m) = list[todo[m - 1]].point
      BY <1>4, <1>0 DEF PointOf
    <2>2. /\ todo[n - 1] # todo[m - 1]
          /\ Len(list[todo[n - 1]].point) <= Len(list[todo[m - 1]].point)
      <3>1. DOMAIN todo = 1..T /\ Ordered
        BY DEF Typed
      <3> QED
        BY <2>1, <3>1 DEF Ordered
    <2>3. list[todo[n - 1]].point = list[todo[m - 1]].point
      BY <2>1, <2>2, <1>1, <1>2, BelowLonger
    <2>4. list[todo[n - 1]].point # NoPoint
      BY <2>1, <1>2, InstallAssumption
    <2> QED
      BY <2>1, <2>2, <2>3, <2>4, <1>2, ListFacts DEF Typed
  <1>5. CASE n > 1 /\ n <= T + 1 /\ m > T + 1
    <2>1. /\ n - 1 \in 1..T /\ m - 1 - T \in DOMAIN Special
          /\ PointOf(n) = list[todo[n - 1]].point /\ PointOf(m) = <<Special[m - 1 - T]>>
      BY <1>5, <1>0 DEF PointOf
    <2>2. list \in Lists /\ todo[n - 1] \in DOMAIN list /\ list[todo[n - 1]].point \in Seq(STRING)
      BY <2>1, <1>2 DEF Typed
    <2>3. ~Below(list[todo[n - 1]].point, <<Special[m - 1 - T]>>)
      BY <2>1, <2>2, ListFacts, Zenon
    <2> QED
      BY <2>1, <2>3, <1>1, Zenon
  <1>6. CASE n > T + 1
    <2>1. /\ n - 1 - T \in 1..3 /\ m - 1 - T \in 1..3 /\ n - 1 - T # m - 1 - T
          /\ PointOf(n) = <<Special[n - 1 - T]>> /\ PointOf(m) = <<Special[m - 1 - T]>>
      BY <1>6, <1>0 DEF PointOf
    <2>2. Special[n - 1 - T] = Special[m - 1 - T]
      BY <2>1, <1>1 DEF Below
    <2> QED
      BY <2>1, <2>2 DEF Special
  <1> QED
    BY <1>0, <1>3, <1>4, <1>5, <1>6

-----------------------------------------------------------------------------
\* Before the first action nothing is mounted.
LEMMA InitIInv == Init => IInv
  <1> SUFFICES ASSUME Init PROVE IInv
    OBVIOUS
  <1>1. todo = <<>> /\ mounts = <<>> /\ i = 1 /\ pc = "idle" /\ list \in Lists
    BY DEF Init
  <1>2. Typed
    BY <1>1 DEF Typed
  <1>3. Ordered /\ Shape /\ Progress
    BY <1>1 DEF Ordered, Shape, Progress, Special
  <1> QED
    BY <1>2, <1>3 DEF IInv

\* A step that leaves list, todo and mounts alone keeps all but Progress.
LEMMA Frame ==
    ASSUME IInv, UNCHANGED <<list, todo, mounts>>, i' \in Nat \ {0}
    PROVE  Typed' /\ Ordered' /\ Shape'
  <1>1. Keep' = Keep
    BY DEF Keep
  <1>2. Typed'
    BY <1>1 DEF IInv, Typed
  <1>3. Ordered' /\ Shape'
    BY DEF IInv, Ordered, Shape, PointOf
  <1> QED
    BY <1>2, <1>3

\* A mount at the point that is next keeps Shape.
LEMMA PushKeeps ==
    ASSUME IInv, UNCHANGED <<list, todo>>, i' \in Nat \ {0},
           NEW p \in Point, NEW f \in Nat, Push(p, f),
           p = PointOf(Len(mounts) + 1), Len(mounts) < Len(todo) + 1 + Len(Special)
    PROVE  Typed' /\ Ordered' /\ Shape' /\ Len(mounts') = Len(mounts) + 1
  <1>1. mounts' \in Seq(Entry) /\ Len(mounts') = Len(mounts) + 1 /\ Len(mounts) \in Nat /\ Len(todo) \in Nat
    BY DEF IInv, Typed, Push, Entry
  <1>2. Typed'
    BY <1>1 DEF IInv, Typed, Keep
  <1>3. Ordered'
    BY DEF IInv, Ordered
  <1>4. \A n \in DOMAIN mounts' : mounts'[n].point = PointOf(n)
    <2> SUFFICES ASSUME NEW n \in DOMAIN mounts' PROVE mounts'[n].point = PointOf(n)
      OBVIOUS
    <2>1. CASE n \in DOMAIN mounts
      BY <2>1, <1>1 DEF IInv, Typed, Shape, Push
    <2>2. CASE n = Len(mounts) + 1
      BY <2>2, <1>1 DEF IInv, Typed, Push
    <2> QED
      BY <2>1, <2>2, <1>1 DEF IInv, Typed
  <1>5. \A n : PointOf(n)' = PointOf(n)
    BY DEF PointOf
  <1>6. Shape'
    BY <1>1, <1>4, <1>5 DEF Shape, Special
  <1> QED
    BY <1>1, <1>2, <1>3, <1>6

\* An action that ends early leaves its mounts as they were.
LEMMA Dying ==
    ASSUME IInv, Die, UNCHANGED list
    PROVE  IInv'
  <1>1. Typed' /\ Ordered' /\ Shape'
    BY Frame DEF Die, Goto
  <1>2. Progress'
    BY DEF Progress, Die, Goto
  <1> QED
    BY <1>1, <1>2 DEF IInv

\* Every action of the workflow keeps the invariant.
LEMMA StepIInv == IInv /\ [Next]_vars => IInv'
  <1> SUFFICES ASSUME IInv, [Next]_vars PROVE IInv'
    OBVIOUS
  <1>0. CASE UNCHANGED vars
    <2>1. Typed' /\ Ordered' /\ Shape'
      BY <1>0, Frame DEF vars, disk, proc, IInv, Typed
    <2> QED
      BY <2>1, <1>0 DEF IInv, Progress, vars, disk, proc
  <1>1. ASSUME NEW a \in Action, Start(a) PROVE IInv'
    <2>1. todo' = <<>> /\ mounts' = <<>> /\ i' = 1 /\ list' = list
          /\ pc' \in {"format", "root", "fetch"}
      BY <1>1 DEF Start, Goto, disk
    <2>2. Typed'
      BY <2>1 DEF IInv, Typed
    <2>3. Ordered' /\ Shape' /\ Progress'
      BY <2>1 DEF Ordered, Shape, Progress, Special
    <2> QED
      BY <2>2, <2>3 DEF IInv
  <1>2. CASE FileSystemCreate
    <2>1. UNCHANGED <<list, todo, mounts>> /\ pc' \in {"format", "panic"} /\ i' \in Nat \ {0}
      BY <1>2 DEF FileSystemCreate, IInv, Typed
    <2>2. Typed' /\ Ordered' /\ Shape'
      BY <2>1, Frame
    <2> QED
      BY <2>1, <2>2 DEF IInv, Progress
  <1>3. CASE Formatted
    <2>1. UNCHANGED <<list, todo, mounts>> /\ pc' = "done" /\ i' = 1
      BY <1>3 DEF Formatted, Goto, disk
    <2>2. Typed' /\ Ordered' /\ Shape'
      BY <2>1, Frame
    <2> QED
      BY <2>1, <2>2 DEF IInv, Progress
  <1>4. CASE Fetch
    <2>1. list' = list /\ mounts' = mounts /\ mounts = <<>> /\ i' = 1 /\ pc' \in {"root", "idle"}
      BY <1>4 DEF Fetch, Goto, disk, IInv, Progress
    <2>2. todo' \in Seq(Keep) /\
          \A a, b \in DOMAIN todo' :
             a < b => todo'[a] # todo'[b] /\ Len(list[todo'[a]].point) <= Len(list[todo'[b]].point)
      <3>1. CASE \E t \in [1..Cardinality(Keep) -> Keep] : FilterExtras(t) /\ todo' = t
        <4>1. PICK t \in [1..Cardinality(Keep) -> Keep] : FilterExtras(t) /\ todo' = t
          BY <3>1
        <4>2. Cardinality(Keep) \in Nat
          BY KeepFinite DEF IInv, Typed
        <4>3. t \in Seq(Keep) /\ DOMAIN t = 1..Cardinality(Keep)
          BY <4>2
        <4>4. \A a \in DOMAIN t : Len(list[t[a]].point) \in Nat /\ Len(list[t[a]].point) >= 1 /\ t[a] \in Nat
          <5> SUFFICES ASSUME NEW a \in DOMAIN t
                       PROVE  Len(list[t[a]].point) \in Nat /\ Len(list[t[a]].point) >= 1 /\ t[a] \in Nat
            OBVIOUS
          <5>1. t[a] \in Keep
            BY <4>3
          <5>2. list[t[a]].point \in Seq(STRING) /\ Len(list[t[a]].point) >= 1 /\ t[a] \in Nat
            BY <5>1, KeepFacts DEF IInv, Typed
          <5> QED
            BY <5>2
        <4>5. \A a, b \in DOMAIN t : a < b => t[a] # t[b] /\ Len(list[t[a]].point) <= Len(list[t[b]].point)
          BY <4>1, <4>3, <4>4 DEF FilterExtras, Depth
        <4> QED
          BY <4>1, <4>3, <4>5
      <3>2. CASE todo' = <<>>
        BY <3>2
      <3>3. CASE todo' = todo
        BY <3>3 DEF IInv, Typed, Ordered
      <3> QED
        BY <1>4, <3>1, <3>2, <3>3 DEF Fetch
    <2>3. Typed' /\ Ordered'
      BY <2>1, <2>2 DEF IInv, Typed, Ordered, Keep
    <2>4. Shape' /\ Progress'
      BY <2>1, <2>3 DEF Shape, Progress, Typed, Special
    <2> QED
      BY <2>3, <2>4 DEF IInv
  <1>5. CASE MountRoot
    <2>1. list' = list
      BY <1>5 DEF MountRoot, disk
    <2>2. CASE Die
      BY <2>1, <2>2, Dying
    <2>3. CASE Push(<<>>, Root) /\ Goto(IF act = "writefile" THEN "work" ELSE "extras") /\ UNCHANGED todo
      <3>1. mounts = <<>> /\ i' = 1 /\ pc' \in {"work", "extras"} /\ Len(todo) \in Nat
        BY <1>5, <2>3 DEF MountRoot, Goto, IInv, Progress, Typed
      <3>2. PointOf(Len(mounts) + 1) = <<>> /\ Len(mounts) < Len(todo) + 1 + Len(Special)
        BY <3>1 DEF PointOf, Special
      <3>3. Typed' /\ Ordered' /\ Shape' /\ Len(mounts') = Len(mounts) + 1
        <4>1. Root \in Nat
          BY RootFacts DEF IInv, Typed
        <4>2. <<>> \in Point
          BY DEF Point
        <4>3. UNCHANGED <<list, todo>> /\ i' \in Nat \ {0} /\ Push(<<>>, Root)
          BY <2>1, <2>3, <3>1
        <4>4. <<>> = PointOf(Len(mounts) + 1)
          BY <3>2
        <4> QED
          BY <3>2, <4>1, <4>2, <4>3, <4>4, PushKeeps
      <3> QED
        BY <2>3, <3>1, <3>3 DEF IInv, Progress
    <2> QED
      BY <1>5, <2>2, <2>3 DEF MountRoot
  <1>6. CASE MountExtra
    <2>1. list' = list /\ i <= Len(todo) /\ Len(mounts) = i /\ pc = "extras"
      BY <1>6 DEF MountExtra, disk, IInv, Progress
    <2>2. CASE Die
      BY <2>1, <2>2, Dying
    <2>3. CASE Push(list[todo[i]].point, todo[i]) /\ i' = i + 1 /\ UNCHANGED <<pc, todo>>
      <3>1. i \in 1..Len(todo) /\ todo[i] \in Keep /\ Len(todo) \in Nat /\ i \in Nat
        BY <2>1 DEF IInv, Typed
      <3>2. list[todo[i]].point \in Point /\ todo[i] \in Nat
        BY <3>1, KeepFacts DEF IInv, Typed, Point
      <3>3. PointOf(Len(mounts) + 1) = list[todo[i]].point /\ Len(mounts) < Len(todo) + 1 + Len(Special)
        BY <2>1, <3>1 DEF PointOf, Special
      <3>4. Typed' /\ Ordered' /\ Shape' /\ Len(mounts') = Len(mounts) + 1
        BY <2>1, <2>3, <3>1, <3>2, <3>3, PushKeeps
      <3> QED
        BY <2>1, <2>3, <3>1, <3>4 DEF IInv, Progress
    <2> QED
      BY <1>6, <2>2, <2>3 DEF MountExtra
  <1>7. CASE ExtrasDone
    <2>1. UNCHANGED <<list, todo, mounts>> /\ i' = 1 /\ pc' \in {"work", "bind"}
          /\ Len(mounts) = i /\ i <= Len(todo) + 1 /\ i > Len(todo)
      BY <1>7 DEF ExtrasDone, Goto, disk, IInv, Progress
    <2>2. Typed' /\ Ordered' /\ Shape'
      BY <2>1, Frame
    <2>3. Progress'
      BY <2>1 DEF Progress, IInv, Typed, Special
    <2> QED
      BY <2>2, <2>3 DEF IInv
  <1>8. CASE BindSpecial
    <2>1. list' = list /\ i <= Len(Special) /\ Len(mounts) = Len(todo) + i /\ pc = "bind"
      BY <1>8 DEF BindSpecial, disk, IInv, Progress
    <2>2. CASE Die
      BY <2>1, <2>2, Dying
    <2>3. CASE Push(<<Special[i]>>, 0) /\ i' = i + 1 /\ UNCHANGED <<pc, todo>>
      <3>0. i \in 1..3 /\ Len(todo) \in Nat /\ Len(Special) = 3
        BY <2>1 DEF IInv, Typed, Special
      <3>1. <<Special[i]>> \in Point
        BY <3>0 DEF Point
      <3>2. PointOf(Len(mounts) + 1) = <<Special[i]>> /\ Len(mounts) < Len(todo) + 1 + Len(Special)
        BY <2>1, <3>0 DEF PointOf
      <3>3. Typed' /\ Ordered' /\ Shape' /\ Len(mounts') = Len(mounts) + 1
        <4> DEFINE p == <<Special[i]>>
        <4>1. UNCHANGED <<list, todo>> /\ i' \in Nat \ {0} /\ Push(p, 0) /\ 0 \in Nat
          BY <2>1, <2>3, <3>0
        <4>2. p \in Point /\ p = PointOf(Len(mounts) + 1)
          BY <3>1, <3>2
        <4> HIDE DEF p
        <4> QED
          BY <3>2, <4>1, <4>2, PushKeeps
      <3> QED
        BY <2>1, <2>3, <3>0, <3>3 DEF IInv, Progress
    <2> QED
      BY <1>8, <2>2, <2>3 DEF BindSpecial
  <1>9. CASE ChrootDone
    <2>1. list' = list
      BY <1>9 DEF ChrootDone, disk
    <2>2. CASE Die
      BY <2>1, <2>2, Dying
    <2>3. CASE Goto("work") /\ UNCHANGED <<todo, mounts>>
      <3>1. Typed' /\ Ordered' /\ Shape'
        BY <2>1, <2>3, Frame DEF Goto
      <3> QED
        BY <2>3, <3>1 DEF IInv, Progress, Goto
    <2> QED
      BY <1>9, <2>2, <2>3 DEF ChrootDone
  <1>10. CASE WriteInTree
    <2>1. UNCHANGED <<list, todo, mounts, pc, i>>
      BY <1>10 DEF WriteInTree, proc
    <2>2. Typed' /\ Ordered' /\ Shape'
      BY <2>1, Frame DEF IInv, Typed
    <2> QED
      BY <2>1, <2>2 DEF IInv, Progress
  <1>11. CASE WriteFile \/ WriteFstab \/ WorkDone
    <2>1. UNCHANGED <<list, todo, mounts>> /\ pc' = "done" /\ i' = 1
      BY <1>11 DEF WriteFile, WriteFstab, WorkDone, Goto, disk
    <2>2. Typed' /\ Ordered' /\ Shape'
      BY <2>1, Frame
    <2> QED
      BY <2>1, <2>2 DEF IInv, Progress
  <1>12. CASE Kill
    BY <1>12, Dying DEF Kill, disk
  <1> QED
    BY <1>0, <1>1, <1>2, <1>3, <1>4, <1>5, <1>6, <1>7, <1>8, <1>9, <1>10, <1>11, <1>12 DEF Next, Step

\* For every metadata list in any order, every failure and every kill: no
\* mount of pkg/chroot covers an earlier one.
THEOREM MountsNeverHidden == Spec => []NothingHidden
  <1>1. IInv /\ [Next]_vars => IInv'
    BY StepIInv
  <1>2. Spec => []IInv
    BY InitIInv, <1>1, PTL DEF Spec
  <1> QED
    BY <1>2, ShapeHidesNothing, PTL

-----------------------------------------------------------------------------
(* Where files lie.  The mounts are those of the root and of every sibling *)
(* the metadata lists (Mounted, Complete), so a path is owned by the       *)
(* deepest of them above it (IsHome); once the fstab is written every one  *)
(* of them is formatted and labelled (Labelled, Rendered), and the boot    *)
(* finds the same one.                                                     *)

\* The file system of the n-th mount.
FsOf(n) == IF n = 1 THEN Root ELSE IF n <= Len(todo) + 1 THEN todo[n - 1] ELSE 0

Mounted == \A n \in DOMAIN mounts :
    /\ mounts[n].fs = FsOf(n)
    /\ n <= Len(todo) + 1 => mounts[n].fs \in formatted

InContainer == {"root", "extras", "bind", "work"}

Phases == /\ pc \in InContainer \cup {"fetch"} => act # "format"
          /\ pc \in {"fetch", "extras", "bind"} => act # "writefile"
          /\ pc = "root" /\ act = "writefile" => todo = <<>>
          /\ pc = "work" => Len(mounts) >= Len(todo) + 1
          /\ pc = "work" /\ act = "writefile" => Len(mounts) = 1

\* An action that has the metadata has every sibling in todo.
Complete ==
    pc \in InContainer /\ act # "writefile" /\ (~degraded \/ act \in {"fstab", "user-manage"})
        => \A n \in Keep : \E a \in DOMAIN todo : todo[a] = n

Labelled == \A n \in formatted : n \in labels <=> list[n].label /\ list[n].format # "swap"

Rendered == hasFstab => fstab = Render /\ Keep \subseteq formatted

TreeInv == IInv /\ TypeOK /\ Mounted /\ Phases /\ Complete /\ Labelled /\ Rendered

Siblings == {Root} \cup Keep

\* x is the deepest of the root and its siblings whose point lies above p.
IsHome(x, p) ==
    /\ x \in Siblings /\ Below(p, list[x].point)
    /\ \A m \in Siblings : Below(p, list[m].point) => Len(list[m].point) <= Len(list[x].point)

Placed == ~degraded => \A f \in files : ~Covered(f) => IsHome(f[1], f[2])

\* A nonempty set of naturals has a least element.
LEMMA LeastNat ==
    ASSUME NEW T \in SUBSET Nat, T # {}
    PROVE  \E x \in T : \A y \in T : x <= y
  <1>1. IsWellFoundedOn(OpToRel(<, Nat), Nat)
    BY NatLessThanWellFounded
  <1>2. PICK x \in T : \A y \in T : ~(<<y, x>> \in OpToRel(<, Nat))
    BY <1>1, WFMin
  <1>3. \A y \in T : ~(y < x)
    BY <1>2 DEF OpToRel
  <1> QED
    BY <1>3

\* An injection of a finite set's size into it reaches all of it.
LEMMA Onto ==
    ASSUME NEW S, IsFiniteSet(S), NEW t \in [1..Cardinality(S) -> S],
           \A a, b \in 1..Cardinality(S) : a < b => t[a] # t[b],
           NEW s \in S
    PROVE  \E a \in 1..Cardinality(S) : t[a] = s
  <1>1. Cardinality(S) \in Nat
    BY FS_CardinalityType
  <1>2. t \in Injection(1..Cardinality(S), S)
    BY <1>1 DEF Injection, IsInjective
  <1>3. Cardinality(1..Cardinality(S)) = Cardinality(S)
    BY <1>1, FS_Interval
  <1>4. t \in Surjection(1..Cardinality(S), S)
    BY <1>2, <1>3, FS_Injection
  <1> QED
    BY <1>4 DEF Surjection

\* The list's entries have the fields of the metadata.
LEMMA EntryFacts ==
    ASSUME list \in Lists, NEW n \in DOMAIN list
    PROVE  /\ list[n] \in [point : Seq(STRING) \cup {NoPoint},
                           format : {"ext4", "vfat", "swap", "btrfs"}, label : BOOLEAN]
           /\ n \in Nat
  <1> DEFINE R == [point : Seq(STRING) \cup {NoPoint},
                   format : {"ext4", "vfat", "swap", "btrfs"}, label : BOOLEAN]
  <1>1. list \in Seq(R)
    BY ListFacts
  <1>2. \A S, l, k : l \in Seq(S) /\ k \in DOMAIN l => l[k] \in S /\ k \in Nat
    OBVIOUS
  <1>3. list[n] \in R /\ n \in Nat
    BY <1>1, <1>2, Zenon
  <1> QED
    BY <1>3, Zenon

\* The point of the root, and of each of its siblings.
LEMMA SiblingFacts ==
    ASSUME list \in Lists, NEW n \in Siblings
    PROVE  /\ n \in DOMAIN list /\ n \in Nat /\ list[n].point \in Seq(STRING)
           /\ n = Root <=> list[n].point = <<>>
  <1>1. list[Root].point = <<>> /\ Root \in DOMAIN list /\ Root \in Nat
    <2>1. \E m \in DOMAIN list : list[m].point = <<>>
      BY ListFacts
    <2> QED
      BY <2>1, RootFacts DEF Root
  <1>2. CASE n = Root
    <2>1. <<>> \in Seq(STRING)
      OBVIOUS
    <2> QED
      BY <1>1, <1>2, <2>1, Zenon
  <1>3. CASE n \in Keep
    <2>1. list[n].point # <<>>
      BY <1>3 DEF Keep
    <2> QED
      BY <2>1, <1>1, <1>3, KeepFacts
  <1> QED
    BY <1>2, <1>3 DEF Siblings

\* What lies at or above a path: two points of the same length are equal.
LEMMA SameLength ==
    ASSUME NEW p \in Seq(STRING), NEW q \in Seq(STRING), NEW r \in Seq(STRING),
           Below(p, q), Below(p, r), Len(q) = Len(r)
    PROVE  q = r
  BY DEF Below

\* Path lookup finds the deepest mount above the path.
LEMMA Lookup ==
    ASSUME TreeInv, pc = "work", NEW p \in Seq(STRING),
           act = "writefile" \/ \A s \in DOMAIN Special : ~Below(p, <<Special[s]>>)
    PROVE  \E k \in 1..(Len(todo) + 1) :
              /\ k \in DOMAIN mounts /\ Owner(p) = FsOf(k) /\ Owner(p) \in formatted
              /\ Below(p, PointOf(k))
              /\ \A m \in 1..(Len(todo) + 1) :
                    Below(p, PointOf(m)) => Len(PointOf(m)) <= Len(PointOf(k))
  <1> DEFINE over == {n \in DOMAIN mounts : ~Hidden(n) /\ Below(p, mounts[n].point)}
             T == Len(todo)
             Deepest(k) == \A m \in over : Len(mounts[m].point) <= Len(mounts[k].point)
  <1> USE DEF TreeInv
  <1>1. /\ T \in Nat /\ Len(mounts) \in Nat /\ Len(mounts) >= T + 1 /\ DOMAIN mounts = 1..Len(mounts)
        /\ Len(mounts) <= T + 4
    BY DEF IInv, Typed, Shape, Special, Phases
  <1>2. \A n \in DOMAIN mounts : ~Hidden(n) /\ mounts[n].point = PointOf(n)
    BY ShapeHidesNothing DEF NothingHidden, IInv, Shape
  <1>3. over = {n \in DOMAIN mounts : Below(p, PointOf(n))}
    BY <1>2
  <1>4. \A n \in over : Len(mounts[n].point) \in Nat /\ Len(mounts[n].point) <= Len(p)
    <2> SUFFICES ASSUME NEW n \in over
                 PROVE  Len(mounts[n].point) \in Nat /\ Len(mounts[n].point) <= Len(p)
      OBVIOUS
    <2>1. mounts \in Seq(Entry)
      BY DEF IInv, Typed
    <2>2. mounts[n].point \in Point
      <3>1. \A S, l, j : l \in Seq(S) /\ j \in DOMAIN l => l[j] \in S
        OBVIOUS
      <3>2. mounts[n] \in Entry
        BY <2>1, <3>1, Zenon
      <3> QED
        BY <3>2 DEF Entry
    <2>3. Len(mounts[n].point) \in Nat
      <3>1. \A x : Len(<<x>>) = 1
        OBVIOUS
      <3> QED
        BY <2>2, <3>1 DEF Point
    <2> QED
      BY <2>3 DEF Below
  <1>5. 1 \in over
    <2>1. PointOf(1) = <<>>
      BY DEF PointOf
    <2>2. Below(p, <<>>)
      BY DEF Below
    <2> QED
      BY <1>1, <1>3, <2>1, <2>2
  <1>6. \E k \in over : Deepest(k)
    <2> DEFINE D == {Len(p) - Len(mounts[n].point) : n \in over}
    <2>1. D \in SUBSET Nat /\ D # {}
      BY <1>4, <1>5
    <2>2. PICK d \in D : \A e \in D : d <= e
      BY <2>1, LeastNat
    <2>3. PICK k \in over : d = Len(p) - Len(mounts[k].point)
      BY <2>2
    <2>4. \A m \in over : Len(mounts[m].point) <= Len(mounts[k].point)
      <3> SUFFICES ASSUME NEW m \in over PROVE Len(mounts[m].point) <= Len(mounts[k].point)
        OBVIOUS
      <3>1. d <= Len(p) - Len(mounts[m].point)
        BY <2>2
      <3> QED
        BY <3>1, <2>3, <1>4
    <2> QED
      BY <2>4
  <1> DEFINE k == CHOOSE n \in over : Deepest(n)
  <1>7. k \in over /\ Deepest(k)
    BY <1>6
  <1>8. Owner(p) = mounts[k].fs
    BY DEF Owner
  <1> HIDE DEF k
  <1>9. k <= T + 1
    <2>1. CASE act = "writefile"
      <3>1. Len(mounts) = 1
        BY <2>1 DEF Phases
      <3> QED
        BY <3>1, <1>1, <1>7
    <2>2. CASE \A s \in DOMAIN Special : ~Below(p, <<Special[s]>>)
      <3> SUFFICES ASSUME k > T + 1 PROVE FALSE
        BY <1>1, <1>7
      <3>1. k \in 1..(T + 4)
        BY <1>1, <1>7
      <3>2. PointOf(k) = <<Special[k - 1 - T]>> /\ k - 1 - T \in DOMAIN Special
        BY <3>1, <1>1 DEF PointOf, Special
      <3> QED
        BY <3>2, <2>2, <1>3, <1>7
    <2> QED
      BY <2>1, <2>2
  <1>10. mounts[k].fs = FsOf(k) /\ mounts[k].fs \in formatted /\ k \in 1..(T + 1) /\ Below(p, PointOf(k))
    BY <1>9, <1>7, <1>1, <1>3 DEF Mounted
  <1>11. \A m \in 1..(T + 1) : Below(p, PointOf(m)) => Len(PointOf(m)) <= Len(PointOf(k))
    <2> SUFFICES ASSUME NEW m \in 1..(T + 1), Below(p, PointOf(m))
                 PROVE  Len(PointOf(m)) <= Len(PointOf(k))
      OBVIOUS
    <2>1. m \in over /\ k \in DOMAIN mounts
      BY <1>1, <1>3, <1>7
    <2>2. mounts[m].point = PointOf(m) /\ mounts[k].point = PointOf(k)
      BY <2>1, <1>2
    <2> QED
      BY <2>1, <2>2, <1>7
  <1> QED
    BY <1>7, <1>8, <1>10, <1>11

\* What a file is written to is the home of its path.
LEMMA OwnerIsHome ==
    ASSUME TreeInv, pc = "work", NEW p \in Seq(STRING),
           \/ act = "writefile" /\ \A n \in Keep : ~Below(p, list[n].point)
           \/ act # "writefile" /\ ~degraded /\ \A s \in DOMAIN Special : ~Below(p, <<Special[s]>>)
    PROVE  IsHome(Owner(p), p)
  <1> DEFINE T == Len(todo)
  <1> USE DEF TreeInv
  <1>1. PICK k \in 1..(T + 1) :
              /\ Owner(p) = FsOf(k) /\ Below(p, PointOf(k))
              /\ \A m \in 1..(T + 1) : Below(p, PointOf(m)) => Len(PointOf(m)) <= Len(PointOf(k))
    BY Lookup
  <1>2. /\ T \in Nat /\ list \in Lists /\ DOMAIN todo = 1..T
        /\ \A a \in 1..T : todo[a] \in Keep
    BY DEF IInv, Typed
  <1>3. list[Root].point = <<>>
    BY <1>2, SiblingFacts DEF Siblings
  <1>4. PointOf(1) = list[Root].point /\ FsOf(1) = Root
    BY <1>3 DEF PointOf, FsOf
  <1>5. \A a \in 1..T : PointOf(a + 1) = list[todo[a]].point /\ FsOf(a + 1) = todo[a] /\ a + 1 \in 1..(T + 1)
    BY <1>2 DEF PointOf, FsOf
  <1>6. Owner(p) \in Siblings /\ PointOf(k) = list[Owner(p)].point
    <2>1. CASE k = 1
      BY <2>1, <1>1, <1>4 DEF Siblings
    <2>2. CASE k # 1
      <3>1. k - 1 \in 1..T /\ (k - 1) + 1 = k
        BY <2>2, <1>2
      <3>2. PointOf(k) = list[todo[k - 1]].point /\ FsOf(k) = todo[k - 1]
        BY <3>1, <1>5
      <3> QED
        BY <3>1, <3>2, <1>1, <1>2 DEF Siblings
    <2> QED
      BY <2>1, <2>2
  <1>7. \A m \in Siblings : Below(p, list[m].point) => Len(list[m].point) <= Len(list[Owner(p)].point)
    <2> SUFFICES ASSUME NEW m \in Siblings, Below(p, list[m].point)
                 PROVE  Len(list[m].point) <= Len(PointOf(k))
      BY <1>6
    <2>1. CASE m = Root
      <3>1. 1 \in 1..(T + 1)
        BY <1>2
      <3> QED
        BY <2>1, <3>1, <1>1, <1>4
    <2>2. CASE m \in Keep /\ act = "writefile"
      BY <2>2
    <2>3. CASE m \in Keep /\ act # "writefile"
      <3>1. PICK a \in DOMAIN todo : todo[a] = m
        BY <2>3 DEF Complete, InContainer
      <3>2. PointOf(a + 1) = list[m].point /\ a + 1 \in 1..(T + 1)
        BY <3>1, <1>2, <1>5
      <3> QED
        BY <3>2, <1>1
    <2> QED
      BY <2>1, <2>2, <2>3 DEF Siblings
  <1> QED
    BY <1>1, <1>6, <1>7 DEF IsHome

-----------------------------------------------------------------------------
(* Types, in the parts that the provers take one at a time.                *)

TypedDisk == /\ formatted \subseteq DOMAIN list /\ labels \subseteq formatted
             /\ fstab \subseteq DOMAIN list
             /\ files \subseteq formatted \X (Paths \cup WritePaths) \X {"tree", "root"}
TypedFlags == hasFstab \in BOOLEAN /\ degraded \in BOOLEAN
TypedProc == /\ act \in Action
             /\ pc \in {"idle", "format", "panic", "fetch", "root", "extras", "bind", "work", "done"}
             /\ faults \in 0..MaxFaults /\ actions \in 0..MaxActions

\* The parts of TypeOK follow from it, and make it up.
LEMMA TypeParts ==
    /\ TypeOK => TypedDisk /\ TypedFlags /\ TypedProc
    /\ IInv /\ TypedDisk /\ TypedFlags /\ TypedProc => TypeOK
  <1>1. TypeOK => TypedDisk /\ TypedFlags /\ TypedProc
    BY DEF TypeOK, TypedDisk, TypedFlags, TypedProc
  <1>2. ASSUME IInv, TypedDisk, TypedFlags, TypedProc PROVE TypeOK
    <2>1. todo \in Seq(DOMAIN list)
      <3>1. todo \in Seq(Keep) /\ Keep \subseteq DOMAIN list
        BY <1>2 DEF IInv, Typed, Keep
      <3> QED
        BY <3>1
    <2>2. list \in Lists /\ i \in Nat \ {0} /\ mounts \in Seq(Entry)
      BY <1>2 DEF IInv, Typed
    <2> QED
      BY <1>2, <2>1, <2>2 DEF TypeOK, TypedDisk, TypedFlags, TypedProc
  <1> QED
    BY <1>1, <1>2

\* What TreeInv says, but for the types of the parts.
Books == TypedDisk /\ TypedFlags /\ TypedProc
Tale == Mounted /\ Phases /\ Complete /\ Labelled /\ Rendered

\* TreeInv in two halves.
LEMMA TreeParts == TreeInv <=> IInv /\ Books /\ Tale
  BY TypeParts DEF TreeInv, Books, Tale

\* A step that leaves the list alone leaves alone what is defined from it.
LEMMA SameList ==
    ASSUME list' = list
    PROVE  Keep' = Keep /\ Root' = Root /\ Render' = Render /\ Siblings' = Siblings
  BY DEF Keep, Root, Render, Siblings

\* Mounts that stay, of an unchanged todo, still hold file systems.
LEMMA SameMounts ==
    ASSUME Mounted, UNCHANGED <<list, todo, mounts>>, formatted \subseteq formatted'
    PROVE  Mounted'
  <1>1. \A n : FsOf(n)' = FsOf(n)
    BY SameList DEF FsOf
  <1> QED
    BY <1>1 DEF Mounted

\* File systems and fstab that stay as they are.
LEMMA SameDisk ==
    ASSUME Labelled, Rendered, UNCHANGED <<list, formatted, labels, hasFstab, fstab>>
    PROVE  Labelled' /\ Rendered'
  BY SameList DEF Labelled, Rendered

\* Before the first action nothing is formatted, mounted or written.
LEMMA InitTree == Init => TreeInv /\ Placed
  <1> SUFFICES ASSUME Init PROVE TreeInv /\ Placed
    OBVIOUS
  <1>1. IInv
    BY InitIInv
  <1>2. /\ formatted = {} /\ labels = {} /\ hasFstab = FALSE /\ fstab = {} /\ files = {}
        /\ degraded = FALSE /\ act = "format" /\ pc = "idle" /\ todo = <<>> /\ mounts = <<>>
        /\ faults = 0 /\ actions = 0
    BY DEF Init
  <1>3. TypedDisk /\ TypedProc
    BY <1>2, InstallAssumption DEF TypedDisk, TypedProc, Action
  <1>4. TypedFlags
    BY <1>2 DEF TypedFlags
  <1>5. Tale
    BY <1>2 DEF Tale, Mounted, Phases, Complete, InContainer, Labelled, Rendered
  <1>6. Placed
    BY <1>2 DEF Placed
  <1> QED
    BY <1>1, <1>3, <1>4, <1>5, <1>6, TreeParts DEF Books
\* An action that ends early leaves the disk as it was.
LEMMA DyingTree ==
    ASSUME TreeInv, Die, UNCHANGED disk, faults' \in 0..MaxFaults
    PROVE  Books' /\ Tale'
  <1> USE DEF TreeInv
  <1>1. Books /\ Tale
    BY TreeParts
  <1>2. /\ pc' = "idle" /\ UNCHANGED <<act, todo, mounts, actions>>
        /\ UNCHANGED <<list, formatted, labels, hasFstab, fstab, files, degraded>>
    BY DEF Die, Goto, disk
  <1>3. TypedDisk' /\ TypedProc'
    BY <1>1, <1>2 DEF Books, TypedDisk, TypedProc
  <1>4. TypedFlags'
    BY <1>1, <1>2 DEF Books, TypedFlags
  <1>5. Mounted' /\ Labelled' /\ Rendered'
    BY <1>1, <1>2, SameMounts, SameDisk DEF Tale
  <1>6. Phases' /\ Complete'
    BY <1>2 DEF Phases, Complete, InContainer
  <1> QED
    BY <1>3, <1>4, <1>5, <1>6 DEF Books, Tale

\* A mount that pkg/chroot makes next.
LEMMA PushTree ==
    ASSUME TreeInv, NEW p \in Point, NEW f \in Nat, Push(p, f),
           f = FsOf(Len(mounts) + 1), Len(mounts) <= Len(todo) => f \in formatted,
           UNCHANGED <<list, todo, formatted>>
    PROVE  Mounted' /\ Len(mounts') = Len(mounts) + 1 /\ Len(mounts) \in Nat /\ Len(todo) \in Nat
  <1> USE DEF TreeInv
  <1>1. /\ mounts \in Seq(Entry) /\ [point |-> p, fs |-> f] \in Entry /\ Len(todo) \in Nat
    BY DEF IInv, Typed, Entry
  <1>2. /\ Len(mounts') = Len(mounts) + 1 /\ Len(mounts) \in Nat
        /\ DOMAIN mounts' = 1..(Len(mounts) + 1) /\ DOMAIN mounts = 1..Len(mounts)
        /\ \A n \in 1..Len(mounts) : mounts'[n] = mounts[n]
        /\ mounts'[Len(mounts) + 1] = [point |-> p, fs |-> f]
    <2> DEFINE e == [point |-> p, fs |-> f]
    <2>1. mounts \in Seq(Entry) /\ e \in Entry /\ mounts' = Append(mounts, e)
      BY <1>1 DEF Push
    <2> HIDE DEF e
    <2>2. /\ Len(mounts') = Len(mounts) + 1 /\ Len(mounts) \in Nat
          /\ DOMAIN mounts' = 1..(Len(mounts) + 1) /\ DOMAIN mounts = 1..Len(mounts)
          /\ \A n \in 1..Len(mounts) : mounts'[n] = mounts[n]
          /\ mounts'[Len(mounts) + 1] = e
      BY <2>1
    <2> QED
      BY <2>2 DEF e
  <1>3. \A n : FsOf(n)' = FsOf(n)
    BY SameList DEF FsOf
  <1>4. \A n \in DOMAIN mounts' :
           mounts'[n].fs = FsOf(n) /\ (n <= Len(todo) + 1 => mounts'[n].fs \in formatted)
    <2> SUFFICES ASSUME NEW n \in DOMAIN mounts'
                 PROVE  mounts'[n].fs = FsOf(n) /\ (n <= Len(todo) + 1 => mounts'[n].fs \in formatted)
      OBVIOUS
    <2>1. CASE n \in DOMAIN mounts
      <3>1. mounts'[n] = mounts[n]
        BY <2>1, <1>2
      <3> QED
        BY <2>1, <3>1 DEF Mounted
    <2>2. CASE n = Len(mounts) + 1
      <3>1. mounts'[n].fs = f
        BY <2>2, <1>2
      <3>2. n <= Len(todo) + 1 => Len(mounts) <= Len(todo)
        BY <2>2, <1>1, <1>2
      <3> QED
        BY <2>2, <3>1, <3>2
    <2> QED
      BY <2>1, <2>2, <1>2
  <1>5. Mounted'
    BY <1>3, <1>4 DEF Mounted
  <1> QED
    BY <1>1, <1>2, <1>5

\* A step of MountTree and Enter that leaves the disk alone.
LEMMA ChrootTree ==
    ASSUME TreeInv, UNCHANGED disk, UNCHANGED <<act, todo, actions, faults>>, Mounted',
           pc' \in InContainer, pc \in InContainer,
           act = "writefile" => pc' = "work" /\ Len(mounts') = 1,
           pc' = "work" => Len(mounts') >= Len(todo) + 1
    PROVE  Books' /\ Tale'
  <1> USE DEF TreeInv
  <1>1. Books /\ Tale
    BY TreeParts
  <1>2. UNCHANGED <<list, formatted, labels, hasFstab, fstab, files, degraded>>
    BY DEF disk
  <1>3. TypedDisk' /\ TypedProc'
    BY <1>1, <1>2 DEF Books, TypedDisk, TypedProc, InContainer
  <1>4. TypedFlags'
    BY <1>1, <1>2 DEF Books, TypedFlags
  <1>5. Labelled' /\ Rendered'
    BY <1>1, <1>2, SameDisk DEF Tale
  <1>6. Phases' /\ Complete'
    BY <1>1, <1>2, SameList DEF Tale, Phases, Complete, InContainer
  <1> QED
    BY <1>3, <1>4, <1>5, <1>6 DEF Books, Tale

\* An action that is over, whatever it has written.
LEMMA OverTree ==
    ASSUME TreeInv, TypedDisk', TypedFlags', Labelled', Rendered',
           UNCHANGED <<list, formatted, act, todo, mounts, actions, faults, degraded>>,
           pc' = "done" \/ pc' = pc
    PROVE  Books' /\ Tale'
  <1> USE DEF TreeInv
  <1>1. Books /\ Tale
    BY TreeParts
  <1>2. TypedProc' /\ Mounted'
    BY <1>1, SameMounts DEF Books, Tale, TypedProc
  <1>3. Phases' /\ Complete'
    BY <1>1, SameList DEF Tale, Phases, Complete, InContainer
  <1> QED
    BY <1>2, <1>3 DEF Books, Tale
\* Every action keeps the books.
LEMMA StepTree == TreeInv /\ [Next]_vars => TreeInv'
  <1> SUFFICES ASSUME TreeInv, [Next]_vars PROVE Books' /\ Tale'
    <2>1. (TreeInv <=> IInv /\ Books /\ Tale)'
      BY TreeParts, PTL
    <2>2. TreeInv /\ [Next]_vars => IInv'
      BY StepIInv DEF TreeInv
    <2> QED
      BY <2>1, <2>2
  <1> USE DEF TreeInv
  <1>a. Books /\ Tale /\ IInv
    BY TreeParts
  <1>b. list \in Lists /\ (pc = "extras" => Len(mounts) = i) /\ (pc = "bind" => Len(mounts) = Len(todo) + i)
        /\ (pc \in {"fetch", "root"} => mounts = <<>>) /\ i \in Nat \ {0} /\ todo \in Seq(Keep)
    BY DEF IInv, Typed, Progress
  <1>0. CASE UNCHANGED vars
    <2>1. UNCHANGED <<list, formatted, labels, hasFstab, fstab, files, degraded, act, pc, todo, mounts, actions, faults>>
      BY <1>0 DEF vars, disk, proc
    <2>2. TypedDisk'
      BY <2>1, <1>a DEF Books, TypedDisk
    <2>3. TypedFlags'
      BY <2>1, <1>a DEF Books, TypedFlags
    <2>4. Labelled' /\ Rendered'
      BY <2>1, <1>a, SameDisk DEF Tale
    <2> QED
      BY <2>1, <2>2, <2>3, <2>4, OverTree
  <1>1. ASSUME NEW a \in Action, Start(a) PROVE Books' /\ Tale'
    <2>1. /\ todo' = <<>> /\ mounts' = <<>> /\ act' = a /\ faults' = faults
          /\ actions < MaxActions /\ actions' = actions + 1
          /\ UNCHANGED <<list, formatted, labels, hasFstab, fstab, files, degraded>>
      BY <1>1 DEF Start, Works, disk
    <2>2. /\ a = "format" => pc' = "format"
          /\ a = "writefile" => pc' = "root"
          /\ a \notin {"format", "writefile"} => pc' = "fetch"
      BY <1>1 DEF Start, Goto
    <2>3. TypedDisk' /\ TypedProc'
      <3>1. TypedDisk'
        BY <1>a, <2>1 DEF Books, TypedDisk
      <3>2. actions' \in 0..MaxActions
        BY <1>a, <2>1, InstallAssumption DEF Books, TypedProc
      <3> QED
        BY <1>a, <2>1, <2>2, <3>1, <3>2 DEF Books, TypedProc
    <2>4. TypedFlags'
      BY <1>a, <2>1 DEF Books, TypedFlags
    <2>5. Labelled' /\ Rendered'
      BY <1>a, <2>1, SameDisk DEF Tale
    <2>6. Mounted' /\ Phases' /\ Complete'
      BY <2>1, <2>2 DEF Mounted, Phases, Complete, InContainer
    <2> QED
      BY <2>3, <2>4, <2>5, <2>6 DEF Books, Tale
  <1>2. CASE FileSystemCreate
    <2>1. /\ pc = "format" /\ pc' \in {"format", "panic"} /\ UNCHANGED <<list, fstab, degraded, act, todo, mounts, actions>>
          /\ faults' \in 0..MaxFaults
      BY <1>2, <1>a, InstallAssumption DEF FileSystemCreate, Works, Fails, Books, TypedProc
    <2>2. TypedProc'
      BY <2>1, <1>a DEF Books, TypedProc
    <2>3. Phases' /\ Complete'
      BY <2>1 DEF Phases, Complete, InContainer
    <2>4. CASE UNCHANGED <<formatted, labels, hasFstab, files>>
      <3>1. TypedDisk'
        BY <2>1, <2>4, <1>a DEF Books, TypedDisk
      <3>2. TypedFlags'
        BY <2>1, <2>4, <1>a DEF Books, TypedFlags
      <3>3. Labelled' /\ Rendered' /\ Mounted'
        BY <2>1, <2>4, <1>a, SameDisk, SameMounts DEF Tale
      <3> QED
        BY <2>2, <2>3, <3>1, <3>2, <3>3 DEF Books, Tale
    <2>5. CASE /\ i <= Len(list)
               /\ formatted' = formatted \cup {i}
               /\ labels' = IF list[i].label /\ list[i].format # "swap" THEN labels \cup {i} ELSE labels \ {i}
               /\ hasFstab' = (hasFstab /\ i # Root)
               /\ files' = {f \in files : f[1] # i}
      <3>1. i \in DOMAIN list
        BY <2>5, <1>b, ListFacts
      <3>2. TypedDisk'
        BY <3>1, <2>1, <2>5, <1>a DEF Books, TypedDisk
      <3>3. TypedFlags'
        BY <2>1, <2>5, <1>a, Zenon DEF Books, TypedFlags
      <3>4. Labelled'
        BY <2>1, <2>5, <1>a DEF Tale, Labelled
      <3>5. Rendered'
        BY <2>1, <2>5, <1>a, SameList DEF Tale, Rendered
      <3>6. Mounted'
        BY <2>1, <2>5, <1>a, SameMounts DEF Tale
      <3> QED
        BY <2>2, <2>3, <3>2, <3>3, <3>4, <3>5, <3>6 DEF Books, Tale
    <2> QED
      BY <1>2, <2>4, <2>5 DEF FileSystemCreate
  <1>3. CASE Formatted \/ WorkDone
    <2>1. /\ UNCHANGED <<list, formatted, labels, hasFstab, fstab, files, degraded, act, todo, mounts, actions, faults>>
          /\ pc' = "done"
      BY <1>3 DEF Formatted, WorkDone, Goto, Works, disk
    <2>2. TypedDisk'
      BY <2>1, <1>a DEF Books, TypedDisk
    <2>3. TypedFlags'
      BY <2>1, <1>a DEF Books, TypedFlags
    <2>4. Labelled' /\ Rendered'
      BY <2>1, <1>a, SameDisk DEF Tale
    <2> QED
      BY <2>1, <2>2, <2>3, <2>4, OverTree
  <1>4. CASE Fetch
    <2>1. /\ pc = "fetch" /\ mounts = <<>>
          /\ UNCHANGED <<list, formatted, labels, hasFstab, fstab, files, act, mounts, actions, faults>>
          /\ act \notin {"format", "writefile"}
      BY <1>4, <1>a, <1>b DEF Fetch, Works, Tale, Phases
    <2>2. TypedDisk' /\ Labelled' /\ Rendered' /\ Mounted'
      BY <2>1, <1>a, SameDisk DEF Books, TypedDisk, Tale, Mounted
    <2>3. CASE /\ \E t \in [1..Cardinality(Keep) -> Keep] : FilterExtras(t) /\ todo' = t
               /\ Goto("root") /\ UNCHANGED degraded
      <3>1. PICK t \in [1..Cardinality(Keep) -> Keep] : FilterExtras(t) /\ todo' = t
        BY <2>3
      <3>2. \A n \in Keep : \E a \in DOMAIN todo' : todo'[a] = n
        <4>1. IsFiniteSet(Keep) /\ Cardinality(Keep) \in Nat
          <5>1. DOMAIN list = 1..Len(list) /\ Len(list) \in Nat
            BY <1>b, ListFacts
          <5>2. IsFiniteSet(1..Len(list)) /\ Keep \subseteq 1..Len(list)
            BY <5>1, FS_Interval DEF Keep
          <5> QED
            BY <5>2, FS_Subset, FS_CardinalityType
        <4>2. \A a, b \in 1..Cardinality(Keep) : a < b => t[a] # t[b]
          <5> SUFFICES ASSUME NEW a \in 1..Cardinality(Keep), NEW b \in 1..Cardinality(Keep), a < b
                       PROVE  t[a] # t[b]
            OBVIOUS
          <5>1. t[a] \in Keep /\ t[b] \in Keep
            OBVIOUS
          <5>2. t[a] \in Nat /\ Len(list[t[a]].point) \in Nat
            BY <5>1, <1>b, KeepFacts
          <5>3. Depth(t[a]) < Depth(t[b]) \/ (Depth(t[a]) = Depth(t[b]) /\ t[a] < t[b])
            BY <3>1 DEF FilterExtras
          <5> QED
            BY <5>2, <5>3 DEF Depth
        <4>3. \A n \in Keep : \E a \in 1..Cardinality(Keep) : t[a] = n
          BY <4>1, <4>2, Onto
        <4> QED
          BY <3>1, <4>3
      <3>3. pc' = "root"
        BY <2>3 DEF Goto
      <3>4. Phases' /\ Complete' /\ TypedProc'
        BY <3>2, <3>3, <2>1, <1>a, SameList DEF Phases, Complete, InContainer, Books, TypedProc
      <3>5. TypedFlags'
        BY <2>1, <2>3, <1>a DEF Books, TypedFlags
      <3> QED
        BY <2>2, <3>4, <3>5 DEF Books, Tale
    <2>4. CASE act \in {"archive2disk", "grub2disk"} /\ todo' = <<>> /\ Goto("root") /\ degraded' = TRUE
      <3>1. Phases' /\ Complete' /\ TypedProc'
        BY <2>1, <2>4, <1>a DEF Phases, Complete, InContainer, Books, TypedProc, Goto
      <3>2. TypedFlags'
        BY <2>1, <2>4, <1>a DEF Books, TypedFlags
      <3> QED
        BY <2>2, <3>1, <3>2 DEF Books, Tale
    <2>5. CASE Goto("idle") /\ UNCHANGED <<todo, degraded>>
      <3>1. Phases' /\ Complete' /\ TypedProc'
        BY <2>1, <2>5, <1>a DEF Phases, Complete, InContainer, Books, TypedProc, Goto
      <3>2. TypedFlags'
        BY <2>1, <2>5, <1>a DEF Books, TypedFlags
      <3> QED
        BY <2>2, <3>1, <3>2 DEF Books, Tale
    <2> QED
      BY <1>4, <2>3, <2>4, <2>5 DEF Fetch
  <1>d. ASSUME Die, UNCHANGED disk, Works \/ Fails PROVE Books' /\ Tale'
    <2>1. faults' \in 0..MaxFaults
      BY <1>d, <1>a, InstallAssumption DEF Works, Fails, Books, TypedProc
    <2> QED
      BY <1>d, <2>1, DyingTree
  <1>5. CASE MountRoot
    <2>1. pc = "root" /\ UNCHANGED disk /\ mounts = <<>>
      BY <1>5, <1>b DEF MountRoot
    <2>2. CASE Die /\ (Works \/ Fails)
      BY <2>1, <2>2, <1>d
    <2>3. CASE /\ Works /\ Root \in formatted /\ Push(<<>>, Root)
               /\ Goto(IF act = "writefile" THEN "work" ELSE "extras") /\ UNCHANGED <<act, todo, actions>>
      <3>1. /\ Root \in Nat /\ <<>> \in Point /\ Root = FsOf(Len(mounts) + 1)
            /\ UNCHANGED <<list, todo, formatted>>
        BY <2>1, <2>3, <1>b, RootFacts DEF Point, FsOf, disk
      <3>2. Mounted' /\ Len(mounts') = 1 /\ Len(todo) \in Nat
        BY <2>1, <2>3, <3>1, PushTree
      <3>3. act = "writefile" => todo = <<>>
        BY <2>1, <1>a DEF Tale, Phases
      <3>4. /\ pc' \in InContainer /\ pc \in InContainer
            /\ act = "writefile" => pc' = "work" /\ Len(mounts') = 1
            /\ pc' = "work" => Len(mounts') >= Len(todo) + 1
        BY <2>1, <2>3, <3>2, <3>3 DEF Goto, InContainer
      <3>5. UNCHANGED <<act, todo, actions, faults>>
        BY <2>3 DEF Works
      <3> QED
        BY <2>1, <3>2, <3>4, <3>5, ChrootTree
    <2> QED
      BY <1>5, <2>2, <2>3 DEF MountRoot
  <1>6. CASE MountExtra
    <2>1. pc = "extras" /\ UNCHANGED disk /\ Len(mounts) = i /\ i <= Len(todo) /\ act # "writefile"
      BY <1>6, <1>a, <1>b DEF MountExtra, Tale, Phases
    <2>2. CASE Die /\ (Works \/ Fails)
      BY <2>1, <2>2, <1>d
    <2>3. CASE /\ Works /\ todo[i] \in formatted /\ Push(list[todo[i]].point, todo[i])
               /\ UNCHANGED <<pc, act, todo, actions>>
      <3>1. i \in 1..Len(todo) /\ todo[i] \in Keep /\ Len(todo) \in Nat
        BY <2>1, <1>b
      <3>2. list[todo[i]].point \in Point /\ todo[i] \in Nat
        BY <3>1, <1>b, KeepFacts DEF Point
      <3>3. todo[i] = FsOf(Len(mounts) + 1)
        BY <2>1, <3>1 DEF FsOf
      <3>4. Mounted'
        BY <2>1, <2>3, <3>2, <3>3, PushTree DEF disk
      <3> QED
        BY <2>1, <2>3, <3>4, ChrootTree DEF InContainer, Works
    <2> QED
      BY <1>6, <2>2, <2>3 DEF MountExtra
  <1>7. CASE ExtrasDone
    <2>1. /\ pc = "extras" /\ UNCHANGED disk /\ Len(mounts) = i /\ i > Len(todo) /\ act # "writefile"
          /\ UNCHANGED <<act, todo, mounts, actions, faults>> /\ pc' \in {"work", "bind"} /\ Len(todo) \in Nat
      BY <1>7, <1>a, <1>b DEF ExtrasDone, Tale, Phases, Goto, Works
    <2>2. Mounted'
      BY <2>1, <1>a, SameMounts DEF Tale, disk
    <2>3. Len(mounts') >= Len(todo) + 1
      BY <2>1, <1>b
    <2> QED
      BY <2>1, <2>2, <2>3, ChrootTree DEF InContainer
  <1>8. CASE BindSpecial
    <2>1. pc = "bind" /\ UNCHANGED disk /\ Len(mounts) = Len(todo) + i /\ i <= Len(Special) /\ act # "writefile"
          /\ Len(todo) \in Nat
      BY <1>8, <1>a, <1>b DEF BindSpecial, Tale, Phases
    <2>2. CASE Die /\ (Works \/ Fails)
      BY <2>1, <2>2, <1>d
    <2>3. CASE Works /\ Push(<<Special[i]>>, 0) /\ UNCHANGED <<pc, act, todo, actions>>
      <3>1. i \in DOMAIN Special
        BY <2>1, <1>b DEF Special
      <3>2. <<Special[i]>> \in Point /\ 0 \in Nat
        BY <3>1 DEF Point
      <3>3. 0 = FsOf(Len(mounts) + 1) /\ ~(Len(mounts) <= Len(todo))
        BY <2>1, <1>b DEF FsOf
      <3>4. Mounted'
        BY <2>1, <2>3, <3>2, <3>3, PushTree DEF disk
      <3> QED
        BY <2>1, <2>3, <3>4, ChrootTree DEF InContainer, Works
    <2> QED
      BY <1>8, <2>2, <2>3 DEF BindSpecial
  <1>9. CASE ChrootDone
    <2>1. pc = "bind" /\ UNCHANGED disk /\ Len(mounts) = Len(todo) + i /\ act # "writefile"
          /\ Len(todo) \in Nat
      BY <1>9, <1>a, <1>b DEF ChrootDone, Tale, Phases
    <2>2. CASE Die /\ (Works \/ Fails)
      BY <2>1, <2>2, <1>d
    <2>3. CASE Works /\ Goto("work") /\ UNCHANGED <<act, todo, mounts, actions>>
      <3>1. Mounted'
        BY <2>1, <2>3, <1>a, SameMounts DEF Tale, disk
      <3>2. Len(mounts') >= Len(todo) + 1
        BY <2>1, <2>3, <1>b
      <3> QED
        BY <2>1, <2>3, <3>1, <3>2, ChrootTree DEF InContainer, Works, Goto
    <2> QED
      BY <1>9, <2>2, <2>3 DEF ChrootDone
  <1>10. CASE WriteInTree \/ WriteFile
    <2>1. PICK p \in Paths \cup WritePaths : Write(p) /\ (act = "writefile" \/ p \in Paths)
      BY <1>10 DEF WriteInTree, WriteFile
    <2>2. /\ pc = "work" /\ UNCHANGED <<list, formatted, labels, hasFstab, fstab, degraded, act, todo, mounts, actions, faults>>
          /\ (pc' = "done" \/ pc' = pc)
      BY <1>10 DEF WriteInTree, WriteFile, Works, Goto, proc
    <2>3. Owner(p) \in formatted
      <3>1. p \in Seq(STRING)
        BY InstallAssumption
      <3>2. act = "writefile" \/ \A s \in DOMAIN Special : ~Below(p, <<Special[s]>>)
        BY <2>1, InstallAssumption
      <3> QED
        BY <2>2, <3>1, <3>2, Lookup
    <2>4. TypedDisk'
      BY <2>1, <2>2, <2>3, <1>a DEF Books, TypedDisk, Write, Scope
    <2>5. TypedFlags'
      BY <2>2, <1>a DEF Books, TypedFlags
    <2>6. Labelled' /\ Rendered'
      BY <2>2, <1>a, SameDisk DEF Tale
    <2> QED
      BY <2>2, <2>4, <2>5, <2>6, OverTree
  <1>11. CASE WriteFstab
    <2>1. /\ pc = "work" /\ act = "fstab" /\ fstab' = Render /\ hasFstab' = TRUE /\ pc' = "done"
          /\ UNCHANGED <<list, formatted, labels, files, degraded, act, todo, mounts, actions, faults>>
      BY <1>11 DEF WriteFstab, Works, Goto
    <2>2. TypedDisk'
      BY <2>1, <1>a DEF Books, TypedDisk, Render
    <2>3. TypedFlags'
      BY <2>1, <1>a DEF Books, TypedFlags
    <2>4. Labelled'
      BY <2>1, <1>a DEF Tale, Labelled
    <2>5. Keep \subseteq formatted
      <3> SUFFICES ASSUME NEW n \in Keep PROVE n \in formatted
        OBVIOUS
      <3>1. PICK a \in DOMAIN todo : todo[a] = n
        BY <2>1, <1>a DEF Tale, Complete, InContainer
      <3>2. /\ a + 1 \in DOMAIN mounts /\ a + 1 <= Len(todo) + 1 /\ a + 1 # 1 /\ (a + 1) - 1 = a
        <4>1. Len(mounts) >= Len(todo) + 1 /\ Len(mounts) \in Nat /\ DOMAIN mounts = 1..Len(mounts)
          BY <2>1, <1>a DEF Tale, Phases, IInv, Typed
        <4>2. a \in 1..Len(todo) /\ Len(todo) \in Nat
          BY <3>1, <1>b
        <4> QED
          BY <4>1, <4>2
      <3> QED
        <4>1. mounts[a + 1].fs = FsOf(a + 1) /\ mounts[a + 1].fs \in formatted
          BY <3>2, <1>a DEF Tale, Mounted
        <4>2. FsOf(a + 1) = todo[a]
          <5>1. a \in 1..Len(todo) /\ Len(todo) \in Nat
            BY <3>1, <1>b
          <5> QED
            BY <5>1 DEF FsOf
        <4> QED
          BY <3>1, <4>1, <4>2
    <2>6. Rendered'
      BY <2>1, <2>5, SameList DEF Rendered
    <2> QED
      BY <2>1, <2>2, <2>3, <2>4, <2>6, OverTree
  <1>12. CASE Kill
    BY <1>12, <1>d DEF Kill
  <1> QED
    BY <1>0, <1>1, <1>2, <1>3, <1>4, <1>5, <1>6, <1>7, <1>8, <1>9, <1>10, <1>11, <1>12 DEF Next, Step
\* Every action leaves each file in the file system that is its home.
LEMMA StepPlaced == TreeInv /\ Placed /\ [Next]_vars => Placed'
  <1> SUFFICES ASSUME TreeInv, Placed, [Next]_vars, ~degraded',
                      NEW f \in files', ~Covered(f)'
               PROVE  IsHome(f[1], f[2])'
    BY DEF Placed
  <1>1. list' = list /\ (degraded' = degraded \/ degraded' = TRUE)
    <2>1. CASE UNCHANGED vars
      BY <2>1 DEF vars, disk
    <2>2. ASSUME NEW a \in Action, Start(a) PROVE list' = list /\ degraded' = degraded
      BY <2>2 DEF Start, disk
    <2>3. CASE FileSystemCreate \/ Formatted
      BY <2>3 DEF FileSystemCreate, Formatted, disk
    <2>4. CASE Fetch
      BY <2>4 DEF Fetch
    <2>5. CASE MountRoot \/ MountExtra \/ ExtrasDone \/ BindSpecial \/ ChrootDone \/ Kill
      BY <2>5 DEF MountRoot, MountExtra, ExtrasDone, BindSpecial, ChrootDone, Kill, disk
    <2>6. CASE WriteInTree \/ WriteFile \/ WriteFstab \/ WorkDone
      BY <2>6 DEF WriteInTree, WriteFile, WriteFstab, WorkDone, disk
    <2> QED
      BY <2>1, <2>2, <2>3, <2>4, <2>5, <2>6 DEF Next, Step
  <1>2. ~degraded
    BY <1>1
  <1>3. (IsHome(f[1], f[2])' <=> IsHome(f[1], f[2])) /\ ~Covered(f)
    BY <1>1, SameList DEF IsHome, Covered
  <1>4. CASE f \in files
    BY <1>2, <1>3, <1>4 DEF Placed
  <1>5. CASE f \notin files
    <2>1. /\ pc = "work" /\ degraded' = degraded
          /\ \E p \in Paths \cup WritePaths :
                /\ Write(p)
                /\ (act = "writefile" /\ p \in WritePaths) \/ (act # "writefile" /\ p \in Paths)
      <3>1. CASE UNCHANGED vars
        BY <3>1, <1>5 DEF vars, disk
      <3>2. ASSUME NEW a \in Action, Start(a) PROVE FALSE
        BY <3>2, <1>5 DEF Start, disk
      <3>3. CASE FileSystemCreate \/ Formatted
        BY <3>3, <1>5 DEF FileSystemCreate, Formatted, disk
      <3>4. CASE Fetch
        BY <3>4, <1>5 DEF Fetch
      <3>5. CASE MountRoot \/ MountExtra \/ ExtrasDone \/ BindSpecial \/ ChrootDone \/ Kill
        BY <3>5, <1>5 DEF MountRoot, MountExtra, ExtrasDone, BindSpecial, ChrootDone, Kill, disk
      <3>6. CASE WriteFstab \/ WorkDone
        BY <3>6, <1>5 DEF WriteFstab, WorkDone, disk
      <3>7. CASE WriteInTree
        BY <3>7 DEF WriteInTree
      <3>8. CASE WriteFile
        BY <3>8 DEF WriteFile
      <3> QED
        BY <3>1, <3>2, <3>3, <3>4, <3>5, <3>6, <3>7, <3>8 DEF Next, Step
    <2>2. PICK p \in Paths \cup WritePaths :
             /\ Write(p)
             /\ (act = "writefile" /\ p \in WritePaths) \/ (act # "writefile" /\ p \in Paths)
      BY <2>1
    <2>3. f = <<Owner(p), p, Scope>>
      BY <2>2, <1>5 DEF Write
    <2>4. p \in Seq(STRING) /\ (p \in Paths => \A s \in DOMAIN Special : ~Below(p, <<Special[s]>>))
      BY InstallAssumption
    <2>a. act = "writefile" => \A n \in Keep : ~Below(p, list[n].point)
      BY <2>3, <1>3 DEF Covered, Scope
    <2>5. IsHome(Owner(p), p)
      BY <2>a, <2>1, <2>2, <2>4, <1>2, OwnerIsHome
    <2> QED
      BY <2>3, <2>5, <1>3
  <1> QED
    BY <1>4, <1>5

\* After the fstab is written and every sibling labelled, the boot looks for
\* a path where its home is.
LEMMA HomeIsBootOwner ==
    ASSUME TreeInv, hasFstab, AllLabelled,
           NEW p \in Seq(STRING), ~InESP(p), NEW x, IsHome(x, p)
    PROVE  x = BootOwner(p)
  <1> DEFINE over == {n \in DOMAIN list : /\ list[n].point # NoPoint /\ Below(p, list[n].point)
                                          /\ n = Root \/ n \in fstab \cap labels}
             Deepest(n) == \A m \in over : Len(list[m].point) <= Len(list[n].point)
  <1> USE DEF TreeInv
  <1>1. list \in Lists /\ fstab = Render /\ Keep \subseteq formatted /\ labels \subseteq formatted
    BY DEF IInv, Typed, Rendered, TypeOK
  <1>2. \A n \in over : n \in Siblings
    <2> SUFFICES ASSUME NEW n \in over, n # Root PROVE n \in Keep
      BY DEF Siblings
    <2>1. n \in labels /\ n \in DOMAIN list /\ list[n].point # NoPoint /\ Below(p, list[n].point)
      OBVIOUS
    <2>2. list[n].format # "swap"
      BY <2>1, <1>1 DEF Labelled
    <2>3. list[n].format # "vfat"
      BY <2>1 DEF InESP
    <2>4. list[n].point # <<>>
      <3>1. list[Root].point = <<>> /\ Root \in DOMAIN list
        BY <1>1, SiblingFacts DEF Siblings
      <3>2. <<>> # NoPoint
        <4>1. <<>> \in Seq(STRING)
          OBVIOUS
        <4> QED
          BY <4>1, InstallAssumption
      <3> QED
        BY <3>1, <3>2, <2>1, <1>1, ListFacts
    <2> QED
      BY <2>1, <2>2, <2>3, <2>4 DEF Keep
  <1>3. \A n \in Siblings : Below(p, list[n].point) => n \in over
    <2> SUFFICES ASSUME NEW n \in Siblings, Below(p, list[n].point) PROVE n \in over
      OBVIOUS
    <2>1. n \in DOMAIN list /\ list[n].point # NoPoint
      BY <1>1, SiblingFacts, InstallAssumption
    <2>2. n = Root \/ n \in fstab \cap labels
      <3> SUFFICES ASSUME n \in Keep PROVE n \in fstab \cap labels
        BY DEF Siblings
      <3>1. list[n].label /\ list[n].format # "swap" /\ n \in formatted
        BY <1>1 DEF AllLabelled, Keep
      <3> QED
        BY <3>1, <2>1, <1>1 DEF Labelled, Render
    <2> QED
      BY <2>1, <2>2
  <1>4. x \in over /\ Deepest(x)
    BY <1>2, <1>3 DEF IsHome
  <1> DEFINE y == CHOOSE n \in over : Deepest(n)
  <1>5. y \in over /\ Deepest(y)
    BY <1>4
  <1>6. BootOwner(p) = y
    BY DEF BootOwner
  <1> HIDE DEF y
  <1>7. /\ x \in DOMAIN list /\ list[x].point \in Seq(STRING) /\ Below(p, list[x].point)
        /\ y \in DOMAIN list /\ list[y].point \in Seq(STRING) /\ Below(p, list[y].point)
    BY <1>1, <1>2, <1>4, <1>5, SiblingFacts
  <1>8. Len(list[x].point) = Len(list[y].point)
    <2>1. Len(list[x].point) \in Nat /\ Len(list[y].point) \in Nat
      BY <1>7
    <2>2. Len(list[x].point) <= Len(list[y].point) /\ Len(list[y].point) <= Len(list[x].point)
      BY <1>4, <1>5
    <2> QED
      BY <2>1, <2>2
  <1>9. list[x].point = list[y].point
    BY <1>7, <1>8, SameLength
  <1>10. list[x].point # NoPoint
    BY <1>7, InstallAssumption
  <1> QED
    BY <1>1, <1>6, <1>7, <1>9, <1>10, ListFacts

\* What is invariant for every list, bound and history.
THEOREM Invariance == Spec => []TreeInv
  BY InitTree, StepTree, PTL DEF Spec

\* The workflow's state stays within its types; above all, a file lies in a
\* file system that has been made, never in a bind mount or an empty
\* directory of the initial root.
THEOREM TypeCorrect == Spec => []TypeOK
  <1>1. TreeInv => TypeOK
    BY DEF TreeInv
  <1> QED
    BY <1>1, Invariance, PTL

\* Every label in /etc/fstab is one that `rootio format` gave, but a swap
\* area's, whatever failed and whatever was formatted again.
THEOREM FstabCorrect == Spec => []FstabResolvable
  <1>1. TreeInv => FstabResolvable
    <2> SUFFICES ASSUME TreeInv, hasFstab, NEW n \in fstab \cap formatted
                 PROVE  n \in labels \/ list[n].format = "swap"
      BY DEF FstabResolvable
    <2>1. list[n].label
      BY DEF TreeInv, Rendered, Render
    <2> QED
      BY <2>1 DEF TreeInv, Labelled
  <1> QED
    BY <1>1, Invariance, PTL

\* Every file written by any sequence of actions is where the booted target
\* looks for it, but for one that writefile was given below a sibling's point.
THEOREM InstalledIsVisible == Spec => []InstalledVisible
  <1>1. Init => Placed
    BY InitTree
  <1>2. TreeInv /\ Placed /\ [Next]_vars => Placed'
    BY StepPlaced
  <1>3. TreeInv /\ Placed => InstalledVisible
    <2> SUFFICES ASSUME TreeInv, Placed, hasFstab, AllLabelled, ~degraded,
                        NEW f \in files, ~InESP(f[2]), ~Covered(f)
                 PROVE  f[1] = BootOwner(f[2])
      BY DEF InstalledVisible
    <2>1. IsHome(f[1], f[2])
      BY DEF Placed
    <2>2. f[2] \in Seq(STRING)
      <3>1. f \in formatted \X (Paths \cup WritePaths) \X {"tree", "root"}
        BY DEF TreeInv, TypeOK
      <3> QED
        BY <3>1, InstallAssumption
    <2> QED
      BY <2>1, <2>2, HomeIsBootOwner
  <1> QED
    BY <1>1, <1>2, <1>3, Invariance, PTL DEF Spec
=============================================================================
