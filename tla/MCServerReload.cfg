CONSTANTS
    c1 = c1
    c2 = c2
    t1 = t1
    t2 = t2
    Contexts = {c1, c2}
    NoName = NoName
    Absent = Absent
    NilManager = NilManager
    Files <- TwoContexts
    MaxManagers = 3
    MaxConfigs = 3
    Sighup = sighup
    KubeCallbacks = {kubeCb}
    StateCallbacks = {stateCb}
    NoProc = NoProc
    Calls = {call1}
    Items = {t1, t2}
    Surfaces <- MCSurfaces
SPECIFICATION SafeSpec
INVARIANTS SurfaceIsLive ProviderFollowsLive AccessControlNotOlderThanSnapshot
PROPERTIES CommitCoversClients ReloadMeetsContract
CHECK_DEADLOCK FALSE
