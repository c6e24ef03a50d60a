SPECIFICATION Spec
CONSTANTS
    Lists <- MCAll
    NoPoint = NoPoint
    Paths <- MCPaths
    WritePaths <- MCWritePaths
    MayDegrade = TRUE
    MaxFaults = 1
    MaxActions = 5
CHECK_DEADLOCK FALSE
INVARIANTS TypeOK NothingHidden InstalledVisible FstabResolvable
