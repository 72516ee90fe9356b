SPECIFICATION Spec
CONSTANTS
    t1 = t1
    t2 = t2
    d1 = d1
    Threads = {t1, t2}
    DeviceIds = {d1}
    DeviceOf <- MCDeviceOf
    PoolTypes = {"PTA_CACHING_POOL_RECORD"}
    Ptrs = {"a"}
    BlockSizes = {1}
    Messages = {"step start"}
    StepLists = {{}}
    PySteps = FALSE
    Stops = TRUE
    KeepsWeights = FALSE
    MaxStep = 3
    MaxRange = 3
INVARIANTS
    ListsOpenRanges
PROPERTIES
    ReportsLeaks
CHECK_DEADLOCK FALSE
