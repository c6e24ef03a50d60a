SPECIFICATION Spec
CONSTANTS
    Archives <- MCAll
    MaxFaults = 2
    MaxRuns = 3
CHECK_DEADLOCK FALSE
INVARIANTS SuccessMeansUnpacked UncheckedMeansUnpacked OrderedSucceeds
