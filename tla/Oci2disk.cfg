SPECIFICATION Spec
CONSTANTS
    Layers = {l1, l2}
    Chunks = 2
CHECK_DEADLOCK FALSE
INVARIANTS SuccessMeansWhole CompressionChecks
PROPERTIES HealthyPullReturns KeepsPromise
