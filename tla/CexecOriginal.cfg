SPECIFICATION Spec
CONSTANTS
    Settings <- MCPlain
    Siblings <- MCNone
    MaxFaults = 1
    MaxRuns = 2
CHECK_DEADLOCK FALSE
INVARIANT OriginalRestored
