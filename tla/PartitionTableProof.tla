------------------------- MODULE PartitionTableProof -------------------------
(***************************************************************************)
(* Proofs about PartitionTable, for every list of partitions, every disk   *)
(* and every word size.                                                    *)
(***************************************************************************)
EXTENDS PartitionTable, TLAPS

\* Places and numbers go together, and a list in order is never skipped.
Places ==
    /\ partitionNumber = Len(table) + 1
    /\ NumbersArePlaces
    /\ InOrder(parts) => Len(table) = x - 1
    /\ pc = "written" => x = Len(parts) + 1

\* The next partition starts behind all the others, until the open-ended one.
Behind ==
    RestIsLast(parts) /\ ~wrapped =>
        /\ sectorStart >= Lead
        /\ x <= Len(parts) => \A k \in DOMAIN table : table[k].end < sectorStart

\* A number below the modulus is its own remainder.
LEMMA ModSmall ==
    ASSUME NEW w \in Nat, NEW a \in Nat, a < w
    PROVE  a % w = a
OBVIOUS

\* A remainder is below the modulus.
LEMMA ModBound ==
    ASSUME NEW w \in Nat, w > 0, NEW a \in Int
    PROVE  a % w \in 0..(w - 1)
OBVIOUS

\* The word is positive, so that remainders are defined.
LEMMA WordPositive == Word \in Nat /\ Word > 0 /\ Lead \in Nat /\ Lead \in 0..(Word - 1)
BY TableAssumption DEF Lead

\* A step keeps the types.
LEMMA TypeCorrectStep ==
    ASSUME TypeOK, [Next]_vars
    PROVE  TypeOK'
<1>0. Len(parts) \in Nat
  BY DEF TypeOK
<1>1. CASE Skip
  BY <1>0, <1>1 DEF Skip, TypeOK
<1>2. CASE Add
  <2> DEFINE p == parts[x]
  <2>1. p \in Request /\ x + 1 \in 1..(Len(parts) + 1)
    BY <1>0, <1>2 DEF Add, TypeOK
  <2>2. p.number \in Int /\ p.size \in Nat
    BY <2>1 DEF Request
  <2>3. sectorStart \in Nat /\ disk \in Nat
    BY WordPositive DEF TypeOK
  <2>4. sectorStart' \in 0..(Word - 1)
    <3>1. CASE scheme = "gpt" /\ AddGPT(p)
      <4>1. ((sectorStart + p.size) % Word) \in 0..(Word - 1)
        BY <2>2, <2>3, ModBound, WordPositive
      <4> QED
        BY <3>1, <4>1, ModBound, WordPositive DEF AddGPT
    <3>2. CASE scheme = "mbr" /\ AddMBR(p)
      <4>1. (p.size % Word) \in 0..(Word - 1)
        BY <2>2, ModBound, WordPositive
      <4> QED
        BY <3>2, <2>3, <4>1, ModBound, WordPositive DEF AddMBR
    <3> QED
      BY <1>2, <3>1, <3>2 DEF Add
  <2>5. table' \in Seq(Entry)
    <3>1. CASE scheme = "gpt" /\ AddGPT(p)
      <4>1. /\ ((sectorStart + p.size) % Word) \in Int
            /\ ((disk - Lead) % Word) \in Int
        BY <2>2, <2>3, ModBound, WordPositive
      <4> QED
        BY <3>1, <2>2, <2>3, <4>1 DEF AddGPT, Entry, TypeOK
    <3>2. CASE scheme = "mbr" /\ AddMBR(p)
      <4>1. /\ ((disk - sectorStart) % Word) \in Int
            /\ (p.size % Word) \in Int
        BY <2>2, <2>3, ModBound, WordPositive
      <4> QED
        BY <3>2, <2>2, <2>3, <4>1 DEF AddMBR, Entry, TypeOK
    <3> QED
      BY <1>2, <3>1, <3>2 DEF Add
  <2>6. wrapped' \in BOOLEAN
    BY <1>2, Zenon DEF Add, AddGPT, AddMBR
  <2> QED
    BY <1>2, <2>1, <2>4, <2>5, <2>6 DEF Add, TypeOK
<1>3. CASE Write
  BY <1>3 DEF Write, TypeOK
<1>4. CASE UNCHANGED vars
  BY <1>4 DEF vars, TypeOK
<1> QED
  BY <1>1, <1>2, <1>3, <1>4 DEF Next

\* Every reachable state is well typed.
THEOREM TypeCorrect == Spec => []TypeOK
<1>1. Init => TypeOK
  <2>1. ASSUME Init PROVE TypeOK
    <3>1. parts \in Seq(Request) /\ disk \in Nat /\ scheme \in {"gpt", "mbr"}
      BY <2>1, TableAssumption DEF Init
    <3>2. Len(parts) \in Nat
      BY <3>1
    <3>3. wrapped \in BOOLEAN
      BY <2>1, Zenon DEF Init
    <3>4. table \in Seq(Entry)
      BY <2>1 DEF Init
    <3> QED
      BY <2>1, <3>1, <3>2, <3>3, <3>4, WordPositive DEF Init, TypeOK
  <2> QED
    BY <2>1
<1>2. TypeOK /\ [Next]_vars => TypeOK'
  BY TypeCorrectStep
<1> QED
  BY <1>1, <1>2, PTL DEF Spec

\* /dev/sdX<k> is the metadata's partition k, and a list in order is written
\* whole, for every list and disk.
THEOREM NumbersCorrect == Spec => [](NumbersArePlaces /\ OrderedIsComplete)
<1>1. Init => Places
  BY DEF Init, Places, NumbersArePlaces
<1>2. TypeOK /\ Places /\ [Next]_vars => Places'
  <2> SUFFICES ASSUME TypeOK, Places, [Next]_vars PROVE Places'
    OBVIOUS
  <2>0. Len(parts) \in Nat /\ Len(table) \in Nat /\ x \in Nat
    BY DEF TypeOK
  <2>1. CASE Skip
    <3>1. ~InOrder(parts)
      BY <2>0, <2>1 DEF Skip, Places, InOrder, TypeOK
    <3> QED
      BY <2>1, <3>1 DEF Skip, Places, NumbersArePlaces, InOrder
  <2>2. CASE Add
    <3>0. parts[x].number = Len(table) + 1
      BY <2>2 DEF Add, Places
    <3>1. PICK e : table' = Append(table, e) /\ e.number = Len(table) + 1
      <4>1. CASE scheme = "gpt" /\ AddGPT(parts[x])
        BY <3>0, <4>1 DEF AddGPT
      <4>2. CASE scheme = "mbr" /\ AddMBR(parts[x])
        BY <3>0, <4>2 DEF AddMBR
      <4> QED
        BY <2>2, <4>1, <4>2 DEF Add
    <3>2. Len(table') = Len(table) + 1 /\ DOMAIN table' = 1..(Len(table) + 1)
      BY <3>1 DEF TypeOK
    <3>3. \A k \in 1..Len(table) : table'[k] = table[k]
      BY <3>1 DEF TypeOK
    <3>4. table'[Len(table) + 1] = e
      BY <3>1 DEF TypeOK
    <3>5. NumbersArePlaces'
      BY <2>0, <3>1, <3>2, <3>3, <3>4 DEF Places, NumbersArePlaces, TypeOK
    <3> QED
      BY <2>0, <2>2, <3>2, <3>5 DEF Add, Places, InOrder
  <2>3. CASE Write
    BY <2>0, <2>3 DEF Write, Places, NumbersArePlaces, InOrder, TypeOK
  <2>4. CASE UNCHANGED vars
    BY <2>4 DEF vars, Places, NumbersArePlaces, InOrder
  <2> QED
    BY <2>1, <2>2, <2>3, <2>4 DEF Next
<1>3. TypeOK /\ Places => NumbersArePlaces /\ OrderedIsComplete
  BY DEF TypeOK, Places, OrderedIsComplete
<1> QED
  BY <1>1, <1>2, <1>3, TypeCorrect, PTL DEF Spec

\* A list in order is written whole: no entry of it is passed over, for every
\* list and disk.
THEOREM OrderedComplete == Spec => []OrderedIsComplete
BY NumbersCorrect, PTL

\* What one step of the loop adds, when nothing wraps around: a partition that
\* begins at sectorStart and, unless it is the open-ended one, ends before the
\* next start.
LEMMA AddedEntry ==
    ASSUME TypeOK, Add, ~wrapped'
    PROVE  \E e \in Entry :
               /\ table' = Append(table, e)
               /\ e.start = sectorStart /\ e.end >= sectorStart
               /\ sectorStart' >= sectorStart
               /\ parts[x].size # 0 => e.end < sectorStart'
               /\ e.size = parts[x].size
               /\ parts[x].size # 0 =>
                    e.end = sectorStart + parts[x].size - (IF scheme = "mbr" THEN 1 ELSE 0)
<1> DEFINE p == parts[x]
<1>1. p \in Request /\ Len(parts) \in Nat
  BY DEF Add, TypeOK
<1>2. p.number \in Int /\ p.size \in Nat /\ sectorStart \in Nat /\ disk \in Nat
  BY <1>1, WordPositive DEF Request, TypeOK
<1>3. CASE scheme = "gpt" /\ AddGPT(p)
  <2> DEFINE e == [number |-> p.number, start |-> sectorStart,
                   end |-> IF p.size = 0 THEN (disk - Lead) % Word ELSE (sectorStart + p.size) % Word,
                   size |-> p.size]
  <2>1. sectorStart + p.size + 1 < Word
    BY <1>2, <1>3, WordPositive DEF AddGPT
  <2>2. (sectorStart + p.size) % Word = sectorStart + p.size
    BY <1>2, <2>1, WordPositive, ModSmall
  <2>3. (sectorStart + p.size + 1) % Word = sectorStart + p.size + 1
    BY <1>2, <2>1, WordPositive, ModSmall
  <2>4. p.size = 0 => (disk - Lead) % Word = disk - Lead /\ disk - Lead >= sectorStart
    <3>1. p.size = 0 => sectorStart + Lead <= disk /\ disk - Lead < Word
      BY <1>3 DEF AddGPT
    <3> QED
      BY <1>2, <3>1, WordPositive, ModSmall
  <2>5. table' = Append(table, e) /\ sectorStart' = sectorStart + p.size + 1
    BY <1>3, <2>2, <2>3 DEF AddGPT
  <2>6. e \in Entry /\ e.start = sectorStart
        /\ e.end = IF p.size = 0 THEN disk - Lead ELSE sectorStart + p.size
    BY <1>2, <2>2, <2>4, WordPositive DEF Entry
  <2>7. e.size = p.size
    OBVIOUS
  <2>8. p.size # 0 => e.end = sectorStart + p.size - (IF scheme = "mbr" THEN 1 ELSE 0)
    <3> HIDE DEF e
    <3> QED
      BY <1>2, <1>3, <2>6
  <2>9. e.end >= sectorStart /\ (p.size # 0 => e.end < sectorStart') /\ sectorStart' >= sectorStart
    <3> HIDE DEF e
    <3>1. CASE p.size = 0
      BY <1>2, <2>4, <2>5, <2>6, <3>1, WordPositive
    <3>2. CASE p.size # 0
      BY <1>2, <2>5, <2>6, <3>2
    <3> QED
      BY <3>1, <3>2
  <2> HIDE DEF e
  <2> QED
    BY <2>5, <2>6, <2>7, <2>8, <2>9
<1>4. CASE scheme = "mbr" /\ AddMBR(p)
  <2> DEFINE n == IF p.size = 0 THEN (disk - sectorStart) % Word ELSE p.size % Word
             e == [number |-> p.number, start |-> sectorStart, end |-> sectorStart + n - 1,
                   size |-> p.size]
  <2>1. sectorStart + p.size < Word
    BY <1>2, <1>4, WordPositive DEF AddMBR
  <2>2. p.size % Word = p.size /\ (sectorStart + p.size) % Word = sectorStart + p.size
    <3>1. p.size < Word /\ sectorStart + p.size \in Nat
      BY <1>2, <2>1, WordPositive
    <3>2. p.size % Word = p.size
      BY <1>2, <3>1, WordPositive, ModSmall
    <3> QED
      BY <2>1, <3>1, <3>2, WordPositive, ModSmall
  <2>3. p.size = 0 => (disk - sectorStart) % Word = disk - sectorStart /\ disk > sectorStart
    <3>1. p.size = 0 => sectorStart < disk /\ disk - sectorStart < Word
      BY <1>4 DEF AddMBR
    <3> QED
      BY <1>2, <3>1, WordPositive, ModSmall
  <2>4. n \in Nat /\ n > 0 /\ (p.size # 0 => n = p.size)
    BY <1>2, <2>2, <2>3
  <2>5. table' = Append(table, e) /\ sectorStart' = sectorStart + p.size
    BY <1>4, <2>2 DEF AddMBR
  <2>6. e \in Entry /\ e.start = sectorStart /\ e.end = sectorStart + n - 1
    BY <1>2, <2>4 DEF Entry
  <2>7. e.end >= sectorStart /\ (p.size # 0 => e.end < sectorStart') /\ sectorStart' >= sectorStart
    BY <1>2, <2>4, <2>5, <2>6
  <2>8. e.size = p.size
    OBVIOUS
  <2>9. p.size # 0 => e.end = sectorStart + p.size - (IF scheme = "mbr" THEN 1 ELSE 0)
    BY <1>2, <1>4, <2>4, <2>6
  <2> QED
    BY <2>5, <2>6, <2>7, <2>8, <2>9
<1> QED
  BY <1>3, <1>4 DEF Add

\* No two partitions of a table share a sector, for every list whose
\* open-ended entry is last and every disk on which no sector number wraps.
THEOREM DisjointCorrect == Spec => []Disjoint
<1> DEFINE DInv == Disjoint /\ Behind
<1>1. Init => DInv
  BY DEF Init, Disjoint, Behind, Lead
<1>2. TypeOK /\ DInv /\ [Next]_vars => DInv'
  <2> SUFFICES ASSUME TypeOK, Disjoint, Behind, [Next]_vars PROVE DInv'
    OBVIOUS
  <2>0. Len(parts) \in Nat /\ Len(table) \in Nat /\ x \in Nat /\ sectorStart \in Nat
    BY WordPositive DEF TypeOK
  <2>1. CASE Skip
    BY <2>0, <2>1 DEF Skip, Disjoint, Behind, RestIsLast
  <2>2. CASE Add
    <3> SUFFICES ASSUME RestIsLast(parts), ~wrapped' PROVE DInv'
      BY <2>2 DEF Add, Disjoint, Behind, RestIsLast
    <3>1. ~wrapped
      BY <2>2 DEF Add, AddGPT, AddMBR
    <3>2. PICK e \in Entry :
               /\ table' = Append(table, e)
               /\ e.start = sectorStart /\ e.end >= sectorStart
               /\ sectorStart' >= sectorStart
               /\ parts[x].size # 0 => e.end < sectorStart'
      BY <2>2, AddedEntry
    <3>3. DOMAIN table = 1..Len(table) /\ DOMAIN table' = 1..(Len(table) + 1)
      BY <3>2 DEF TypeOK
    <3>4. (\A k \in 1..Len(table) : table'[k] = table[k]) /\ table'[Len(table) + 1] = e
      BY <3>2 DEF TypeOK
    <3>5. /\ sectorStart >= Lead /\ x <= Len(parts)
          /\ \A k \in 1..Len(table) : /\ table[k].end < sectorStart
                                       /\ table[k].start >= Lead /\ table[k].end >= table[k].start
                                       /\ table[k].start \in Nat /\ table[k].end \in Int
      <4>1. \A k \in 1..Len(table) : table[k] \in Entry
        BY DEF TypeOK
      <4>2. \A k \in 1..Len(table) : table[k].start \in Nat /\ table[k].end \in Int
        BY <4>1 DEF Entry
      <4>3. x <= Len(parts) /\ sectorStart >= Lead
        BY <2>2, <3>1 DEF Add, Behind
      <4>4. \A k \in 1..Len(table) : table[k].end < sectorStart
        BY <3>1, <3>3, <4>3 DEF Behind
      <4>5. \A k \in 1..Len(table) : table[k].start >= Lead /\ table[k].end >= table[k].start
        BY <3>1, <3>3 DEF Disjoint
      <4> QED
        BY <4>2, <4>3, <4>4, <4>5
    <3>6. sectorStart' \in Int /\ e.end \in Int /\ e.start \in Nat /\ Lead \in Nat
      <4>1. sectorStart' \in Int
        BY <2>0, <2>2, ModBound, WordPositive, TypeCorrectStep DEF TypeOK
      <4> QED
        BY <3>2, <4>1, WordPositive DEF Entry
    <3>7. Disjoint'
      <4>1. \A k \in DOMAIN table' : table'[k].start >= Lead /\ table'[k].end >= table'[k].start
        BY <2>0, <3>2, <3>3, <3>4, <3>5, <3>6
      <4>2. \A k, l \in DOMAIN table' : k < l => table'[k].end < table'[l].start
        <5> SUFFICES ASSUME NEW k \in DOMAIN table', NEW l \in DOMAIN table', k < l
                     PROVE  table'[k].end < table'[l].start
          OBVIOUS
        <5>1. k \in 1..Len(table) /\ (l \in 1..Len(table) \/ l = Len(table) + 1)
          BY <2>0, <3>3
        <5>2. CASE l \in 1..Len(table)
          BY <3>1, <3>3, <3>4, <5>1, <5>2 DEF Disjoint
        <5>3. CASE l = Len(table) + 1
          BY <3>2, <3>4, <3>5, <5>1, <5>3
        <5> QED
          BY <5>1, <5>2, <5>3
      <4> QED
        BY <4>1, <4>2 DEF Disjoint
    <3>8. Behind'
      <4>1. sectorStart' >= Lead
        BY <2>0, <3>2, <3>5, <3>6
      <4>2. ASSUME x' <= Len(parts)
            PROVE  \A k \in DOMAIN table' : table'[k].end < sectorStart'
        <5>1. parts[x].size # 0
          BY <2>0, <2>2, <4>2, <3>5 DEF Add, RestIsLast, TypeOK
        <5> QED
          BY <2>0, <3>2, <3>3, <3>4, <3>5, <3>6, <5>1
      <4> QED
        BY <2>2, <4>1, <4>2 DEF Behind, Add
    <3> QED
      BY <3>7, <3>8
  <2>3. CASE Write
    BY <2>3 DEF Write, Disjoint, Behind, RestIsLast
  <2>4. CASE UNCHANGED vars
    BY <2>4 DEF vars, Disjoint, Behind, RestIsLast
  <2> QED
    BY <2>1, <2>2, <2>3, <2>4 DEF Next
<1> QED
  BY <1>1, <1>2, TypeCorrect, PTL DEF Spec

\* A partition with a size gets its sectors, and on GPT one more, for every
\* list and every disk on which no sector number wraps.
THEOREM SizesCorrect == Spec => []SizeKept
<1>1. Init => SizeKept
  BY DEF Init, SizeKept
<1>2. TypeOK /\ SizeKept /\ [Next]_vars => SizeKept'
  <2> SUFFICES ASSUME TypeOK, SizeKept, [Next]_vars PROVE SizeKept'
    OBVIOUS
  <2>1. CASE Skip
    BY <2>1 DEF Skip, SizeKept
  <2>2. CASE Add
    <3> SUFFICES ASSUME ~wrapped', NEW k \in DOMAIN table', table'[k].size # 0
                 PROVE  /\ scheme' = "mbr" => table'[k].end - table'[k].start + 1 = table'[k].size
                        /\ scheme' = "gpt" => table'[k].end - table'[k].start + 1 = table'[k].size + 1
      BY DEF SizeKept
    <3>1. ~wrapped /\ scheme' = scheme
      BY <2>2 DEF Add, AddGPT, AddMBR
    <3>2. PICK e \in Entry :
               /\ table' = Append(table, e)
               /\ e.start = sectorStart /\ e.size = parts[x].size
               /\ parts[x].size # 0 =>
                    e.end = sectorStart + parts[x].size - (IF scheme = "mbr" THEN 1 ELSE 0)
      BY <2>2, AddedEntry
    <3>3. CASE k \in DOMAIN table
      <4>1. table'[k] = table[k]
        BY <3>2, <3>3 DEF TypeOK
      <4> QED
        BY <3>1, <3>3, <4>1 DEF SizeKept
    <3>4. CASE k \notin DOMAIN table
      <4>1. table'[k] = e
        BY <3>2, <3>4 DEF TypeOK
      <4>2. e.size \in Nat /\ sectorStart \in Nat /\ scheme \in {"gpt", "mbr"}
        BY <3>2, WordPositive DEF Entry, TypeOK
      <4>3. /\ e.start = sectorStart /\ e.size # 0
            /\ e.end = sectorStart + e.size - (IF scheme = "mbr" THEN 1 ELSE 0)
        BY <3>2, <4>1
      <4>4. CASE scheme = "mbr"
        BY <3>1, <4>1, <4>2, <4>3, <4>4
      <4>5. CASE scheme = "gpt"
        BY <3>1, <4>1, <4>2, <4>3, <4>5
      <4> QED
        BY <4>2, <4>4, <4>5
    <3> QED
      BY <3>3, <3>4
  <2>3. CASE Write
    BY <2>3 DEF Write, SizeKept
  <2>4. CASE UNCHANGED vars
    BY <2>4 DEF vars, SizeKept
  <2> QED
    BY <2>1, <2>2, <2>3, <2>4 DEF Next
<1> QED
  BY <1>1, <1>2, TypeCorrect, PTL DEF Spec
=============================================================================
