SPECIFICATION Spec
CONSTANTS
    Settings <- MCSettings
    Siblings <- MCSiblings
    MaxFaults = 3
    MaxRuns = 3
CHECK_DEADLOCK FALSE
INVARIANTS ResolvRestored CommandInTarget CleanExit
