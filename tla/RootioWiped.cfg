SPECIFICATION FairSpec
CONSTANTS
    d1 = d1
    d2 = d2
    p1 = p1
    p2 = p2
    md0 = md0
    vg0 = vg0
    None = None
    FS = FS
    Orphan = Orphan
    Disk = {d1, d2}
    Part = {p1, p2}
    Array = {md0}
    VG = {vg0}
    PartDisk <- MCPartDisk
    Near = {p1, p2}
    Disks <- MCDisksWiped
    RAIDs <- MCRAIDs
    VGs <- MCVGs
    Leftover = {"blank", "fs"}
    Assemble = {TRUE, FALSE}
    Rename = {TRUE, FALSE}
    Commands = {"partition", "wipe"}
    MayMiss = {d2}
    MaxFaults = 3
    MaxBoots = 2
    MaxRuns = 4
INVARIANTS
    TypeOK
    SilenceMeansDesired
    Idempotent
    WipeUnderLiveArrayLogged
PROPERTIES
    Terminates
CHECK_DEADLOCK FALSE
