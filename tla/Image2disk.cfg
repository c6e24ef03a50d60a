SPECIFICATION Spec
CONSTANTS
    Chunks = 4
    RetryEnabled = TRUE
    MaxElapsed = 2
    MayCut = TRUE
    MayStall = TRUE
CHECK_DEADLOCK FALSE
INVARIANTS NoGoroutineLeft
PROPERTIES EndsUnlessStalled SignalEnds KeepsPromise
