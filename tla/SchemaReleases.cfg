SPECIFICATION Spec
CONSTANTS
    Processes = {p1, p2}
    Tables = {"parent", "child", "other"}
    Registries <- Releases
    Jobs = {"apply", "sync"}
    Backends = {"postgres", "sqlite"}
    MaxCalls = 2
SYMMETRY Alike
INVARIANTS TypeOK LoneSyncProceeds SyncedStaysSynced
PROPERTIES OkIsComplete
CHECK_DEADLOCK FALSE
