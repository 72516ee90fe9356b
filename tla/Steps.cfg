SPECIFICATION Spec
CONSTANTS
    t1 = t1
    t2 = t2
    d1 = d1
    Threads = {t1}
    DeviceIds = {d1}
    DeviceOf <- MCDeviceOf
    PoolTypes = {"PTA_CACHING_POOL_RECORD"}
    Ptrs = {"a", "b"}
    BlockSizes = {1}
    Messages = {"step start", "other"}
    StepLists = {{}, {2}, {2, 3}}
    PySteps = TRUE
    Stops = FALSE
    KeepsWeights = TRUE
    MaxStep = 4
    MaxRange = 4
INVARIANTS
    TableMirrorsPools
    ExtremeGapsKept
    CollectsSelectedSteps
PROPERTIES
    ReportsLeaks
CHECK_DEADLOCK FALSE
