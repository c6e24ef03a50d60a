------------------------------ MODULE MCRootio ------------------------------
(***************************************************************************)
(* Instances of Rootio for TLC: two disks with one RAID member each, one   *)
(* array over both and one volume group on the array (the layout of        *)
(* rootio/test/lvm.json without its EFI partitions).                       *)
(***************************************************************************)
EXTENDS Rootio, TLC

CONSTANTS d1, d2, p1, p2, md0, vg0

MCPartDisk == (p1 :> d1) @@ (p2 :> d2)
MCDisksWiped == <<[device |-> d1, wipeTable |-> TRUE], [device |-> d2, wipeTable |-> TRUE]>>
MCDisksKept == <<[device |-> d1, wipeTable |-> FALSE], [device |-> d2, wipeTable |-> FALSE]>>
MCRAIDs == <<[name |-> md0, level |-> "1", devices |-> <<p1, p2>>, spare |-> <<>>]>>
MCVGs == <<[name |-> vg0, pvs |-> <<md0>>, lvs |-> <<4, 0>>]>>
=============================================================================
