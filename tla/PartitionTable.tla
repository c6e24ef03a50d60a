--------------------------- MODULE PartitionTable ---------------------------
(***************************************************************************)
(* Partition and MBRPartition of rootio/storage/partition.go: the loop     *)
(* that turns the partitions of one disk in the metadata into the entries  *)
(* of a GPT or MBR table.  Sectors are unsigned machine words: arithmetic  *)
(* wraps at Word (2^64 for GPT, 2^32 for MBR in the code).                 *)
(***************************************************************************)
EXTENDS Integers, Sequences

CONSTANTS
    Lists,    \* the partition lists considered: sequences of [number, size]
    Sizes,    \* the disk sizes considered, in sectors
    Schemes,  \* "gpt", "mbr"
    Word      \* number of values of a sector word

\* The first sector handed out, and the sectors kept at the end of a GPT disk.
Lead == 2048

Request == [number : Int, size : Nat]

ASSUME TableAssumption ==
    /\ Lists \subseteq Seq(Request)
    /\ Sizes \subseteq Nat
    /\ Schemes \subseteq {"gpt", "mbr"}
    /\ Word \in Nat /\ Word > Lead

VARIABLES
    parts,            \* d.Partitions
    disk,             \* disk.Size / sectorSize
    scheme,
    x,                \* index of the loop
    partitionNumber,
    sectorStart,
    table,            \* table.Partitions: [number, start, end, size]
    wrapped,          \* history: some sector computation wrapped around
    pc                \* "build", "written", "failed"

vars == <<parts, disk, scheme, x, partitionNumber, sectorStart, table, wrapped, pc>>

Entry == [number : Int, start : Nat, end : Int, size : Nat]

TypeOK ==
    /\ parts \in Seq(Request)
    /\ disk \in Nat
    /\ scheme \in {"gpt", "mbr"}
    /\ x \in 1..(Len(parts) + 1)
    /\ partitionNumber \in Nat
    /\ sectorStart \in 0..(Word - 1)
    /\ table \in Seq(Entry)
    /\ wrapped \in BOOLEAN
    /\ pc \in {"build", "written", "failed"}

Init ==
    /\ parts \in Lists /\ disk \in Sizes /\ scheme \in Schemes
    /\ x = 1 /\ partitionNumber = 1 /\ sectorStart = Lead
    /\ table = <<>> /\ wrapped = FALSE /\ pc = "build"

-----------------------------------------------------------------------------

\* Mutants: the loop steps over an entry; an entry in order is skipped too.
SkipTwo ==
    /\ pc = "build" /\ x <= Len(parts) /\ parts[x].number # partitionNumber
    /\ x' = x + 2
    /\ UNCHANGED <<parts, disk, scheme, partitionNumber, sectorStart, table, wrapped, pc>>
SkipInOrder ==
    /\ pc = "build" /\ x <= Len(parts) /\ parts[x].number >= partitionNumber
    /\ x' = x + 1
    /\ UNCHANGED <<parts, disk, scheme, partitionNumber, sectorStart, table, wrapped, pc>>

\* The number is not the next one: the entry is passed over without a word.
Skip ==
    /\ pc = "build" /\ x <= Len(parts) /\ parts[x].number # partitionNumber
    /\ x' = x + 1
    /\ UNCHANGED <<parts, disk, scheme, partitionNumber, sectorStart, table, wrapped, pc>>

\* Mutant: the next partition starts on the last sector of this one.
AddGPTOverlap(p) ==
    /\ table' = Append(table, [number |-> p.number, start |-> sectorStart,
                               end |-> (IF p.size = 0 THEN disk - Lead ELSE sectorStart + p.size) % Word,
                               size |-> p.size])
    /\ sectorStart' = (sectorStart + p.size) % Word
    /\ UNCHANGED wrapped

\* One GPT entry.  End is inclusive; size 0 asks for the rest of the disk.
AddGPT(p) ==
    LET sectorEnd == (sectorStart + p.size) % Word
        rest == (disk - Lead) % Word
        end == IF p.size = 0 THEN rest ELSE sectorEnd
    IN  /\ table' = Append(table, [number |-> p.number, start |-> sectorStart,
                                   end |-> end, size |-> p.size])
        /\ sectorStart' = (sectorEnd + 1) % Word
        /\ wrapped' = (\/ wrapped
                       \/ sectorStart + p.size + 1 >= Word
                       \/ p.size = 0 /\ ~(sectorStart + Lead <= disk /\ disk - Lead < Word))

\* Mutant: the end taken for inclusive, as in the GPT table.
AddMBRInclusive(p) ==
    /\ table' = Append(table, [number |-> p.number, start |-> sectorStart,
                               end |-> sectorStart + p.size, size |-> p.size])
    /\ sectorStart' = (sectorStart + p.size) % Word
    /\ UNCHANGED wrapped

\* One MBR entry: a first sector and a number of sectors, both 32 bits wide.
AddMBR(p) ==
    LET remainingSectors == disk - sectorStart
        size == IF p.size = 0 THEN remainingSectors % Word ELSE p.size % Word
    IN  /\ table' = Append(table, [number |-> p.number, start |-> sectorStart,
                                   end |-> sectorStart + size - 1, size |-> p.size])
        /\ sectorStart' = (sectorStart + (p.size % Word)) % Word
        /\ wrapped' = (\/ wrapped
                       \/ sectorStart + p.size >= Word
                       \/ p.size = 0 /\ ~(sectorStart < disk /\ remainingSectors < Word))

\* Mutant: the number of the entry is not looked at.
AddAny ==
    /\ pc = "build" /\ x <= Len(parts)
    /\ x' = x + 1 /\ partitionNumber' = partitionNumber + 1
    /\ \/ scheme = "gpt" /\ AddGPT(parts[x])
       \/ scheme = "mbr" /\ AddMBR(parts[x])
    /\ UNCHANGED <<parts, disk, scheme, pc>>

Add ==
    /\ pc = "build" /\ x <= Len(parts) /\ parts[x].number = partitionNumber
    /\ x' = x + 1
    /\ partitionNumber' = partitionNumber + 1
    /\ \/ scheme = "gpt" /\ AddGPT(parts[x])
       \/ scheme = "mbr" /\ AddMBR(parts[x])
    /\ UNCHANGED <<parts, disk, scheme, pc>>

\* disk.Partition(table), Sync and Close: the table is on the disk, or an
\* error goes back to the caller.
Write ==
    /\ pc = "build" /\ x > Len(parts)
    /\ pc' \in {"written", "failed"}
    /\ UNCHANGED <<parts, disk, scheme, x, partitionNumber, sectorStart, table, wrapped>>

Next == Skip \/ Add \/ Write

Spec == Init /\ [][Next]_vars

-----------------------------------------------------------------------------
(* Properties.                                                             *)

\* A list as the metadata documents have it: numbered 1, 2, 3..., and only the
\* last entry takes the rest of the disk.
InOrder(l) == \A k \in DOMAIN l : l[k].number = k
RestIsLast(l) == \A k \in DOMAIN l : l[k].size = 0 => k = Len(l)

\* Partitions never share a sector, come in the order of their numbers and
\* leave the first sectors to the boot loader: for every list in which only
\* the last entry is open-ended, as long as no sector number wraps around.
Disjoint ==
    RestIsLast(parts) /\ ~wrapped =>
        /\ \A k \in DOMAIN table : table[k].start >= Lead /\ table[k].end >= table[k].start
        /\ \A k, l \in DOMAIN table : k < l => table[k].end < table[l].start

\* The kernel names partition devices by their place in the table: entry k is
\* the metadata's partition k, whatever the order of the list, so /dev/sdX<k>
\* in the RAID, LVM and file-system sections means what the author wrote.
NumbersArePlaces == \A k \in DOMAIN table : table[k].number = k

\* A list in order is written whole, as far as this loop goes: that go-diskfs
\* keeps no more than four entries of an MBR table is not represented here.
OrderedIsComplete == InOrder(parts) /\ pc = "written" => Len(table) = Len(parts)

\* README: "partition sizes are in 512-byte sectors".  A partition with a size
\* never gets less; in an MBR table it gets that many sectors, in a GPT one,
\* where the last sector is inclusive and set to start + size, one more.
SizeKept ==
    ~wrapped => \A k \in DOMAIN table :
        LET sectors == table[k].end - table[k].start + 1
        IN  table[k].size # 0 =>
                /\ scheme = "mbr" => sectors = table[k].size
                /\ scheme = "gpt" => sectors = table[k].size + 1
=============================================================================
