SPECIFICATION Spec
CONSTANTS
    t1 = t1
    t2 = t2
    d1 = d1
    Threads = {t1, t2}
    DeviceIds = {d1}
    DeviceOf <- MCDeviceOf
    PoolTypes = {"PTA_CACHING_POOL_RECORD"}
    Ptrs = {"a"}
    BlockSizes = {1, 2}
    Messages = {"step start"}
    StepLists = {{2}}
    PySteps = FALSE
    Stops = FALSE
    KeepsWeights = FALSE
    MaxStep = 4
    MaxRange = 4
INVARIANTS
    CollectsSelectedSteps
CHECK_DEADLOCK FALSE
