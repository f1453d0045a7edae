SPECIFICATION Spec
CONSTANTS
    k1 = k1
    k2 = k2
    Boot = Boot
    NoOne = NoOne
    Callbacks <- MCCallbacks
    MaxPairs = 5
    MaxVersions = 3
    MaxFailures = 1
CHECK_DEADLOCK FALSE
INVARIANT ClosedPairIsStopped
INVARIANT OnlyCurrentPairRuns
PROPERTY SettledEditIsLoaded
PROPERTY ResetsEnd
