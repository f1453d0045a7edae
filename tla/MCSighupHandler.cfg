SPECIFICATION Spec
CONSTANTS
    w1 = w1
    MaxConfigs = 4
    MaxEdits = 2
    MaxOpens = 4
    HttpMode = TRUE
    LogPaths <- MCLogPaths
    Contents <- MCContents
    LogWriters <- MCLogWriters
CHECK_DEADLOCK FALSE
INVARIANT StatesAreCoherent
INVARIANT SinkIsSound
PROPERTY EverySignalIsHandled
PROPERTY PublishesAsPromised
