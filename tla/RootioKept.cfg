SPECIFICATION Spec
CONSTANTS
    d1 = d1
    d2 = d2
    p1 = p1
    p2 = p2
    md0 = md0
    vg0 = vg0
    None = None
    FS = FS
    Orphan = Orphan
    Disk = {d1, d2}
    Part = {p1, p2}
    Array = {md0}
    VG = {vg0}
    PartDisk <- MCPartDisk
    Near = {p1}
    Disks <- MCDisksKept
    RAIDs <- MCRAIDs
    VGs <- MCVGs
    Leftover = {"blank"}
    Assemble = {TRUE, FALSE}
    Rename = {FALSE}
    Commands = {"partition", "wipe"}
    MayMiss = {}
    MaxFaults = 3
    MaxBoots = 2
    MaxRuns = 4
INVARIANTS
    SecondRunConverges
CHECK_DEADLOCK FALSE
