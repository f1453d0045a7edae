SPECIFICATION StateSpec
CONSTANTS
    t1 = t1
    t2 = t2
    Timers <- MCTimers
    PollInterval = 2
    DebounceWindow = 1
    MaxChanges = 2
    MaxReadFailures = 2
CHECK_DEADLOCK FALSE
INVARIANT KnownMeansApplied
PROPERTY CatchesUp
PROPERTY CloseTerminates
