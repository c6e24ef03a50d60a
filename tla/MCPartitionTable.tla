-------------------------- MODULE MCPartitionTable --------------------------
(***************************************************************************)
(* All lists of up to three partitions over a few sizes: open-ended, small,*)
(* and large enough to reach the end of the disk or the end of the word.   *)
(***************************************************************************)
EXTENDS PartitionTable

Size == {0, 1, 700, 3000}
MCLists == UNION {[1..n -> [number : 1..3, size : Size]] : n \in 0..3}
=============================================================================
