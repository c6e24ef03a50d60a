SPECIFICATION Spec
CONSTANTS
    d1 = d1
    d2 = d2
    Disks = {d1, d2}
    None = None
    Documents <- MCDocuments
    MaxFaults = 2
    MaxRuns = 3
CHECK_DEADLOCK FALSE
INVARIANTS
    FilesAsAsked
    AccountsAsAsked
    HomesOwned
    SSHDAsAsked
    ConsoleReachesKernel
    DisksBoot
    KexecBootsDefault
    RerunSucceeds
