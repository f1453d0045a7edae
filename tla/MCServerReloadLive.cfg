CONSTANTS
    c1 = c1
    c2 = c2
    t1 = t1
    t2 = t2
    Contexts = {c1, c2}
    NoName = NoName
    Absent = Absent
    NilManager = NilManager
    Files <- Edited
    MaxManagers = 2
    MaxConfigs = 2
    Sighup = sighup
    KubeCallbacks = {kubeCb}
    StateCallbacks = {stateCb}
    NoProc = NoProc
    Calls = {}
    Items = {t1, t2}
    Surfaces <- MCSurfaces
SPECIFICATION Spec
PROPERTIES EveryWaiterServed
CHECK_DEADLOCK FALSE
