SPECIFICATION Spec
CONSTANTS
    t1 = t1
    t2 = t2
    d1 = d1
    Threads = {t1}
    DeviceIds = {d1}
    DeviceOf <- MCDeviceOf
    PoolTypes = {"PTA_CACHING_POOL_RECORD"}
    Ptrs = {"a", "b"}
    BlockSizes = {1, 2}
    Messages = {}
    StepLists = {{}}
    PySteps = TRUE
    Stops = FALSE
    KeepsWeights = FALSE
    MaxStep = 4
    MaxRange = 4
INVARIANTS
    ExtremeGapsKept
CHECK_DEADLOCK FALSE
