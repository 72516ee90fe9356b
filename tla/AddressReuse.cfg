SPECIFICATION Spec
CONSTANTS
    t1 = t1
    t2 = t2
    Threads = {t1, t2}
    d1 = d1
    Devices = {d1}
    HAL = HAL
    NA = NA
    NoState = NoState
    NoEvent = NoEvent
    Pools <- MCPools
    Addrs <- MCAddrs
    Sizes <- MCSizes
    BlocksOf <- MCSharedBlocks
    Switching = FALSE
    MaxRecords = 5
INVARIANTS
    LifeOfPtr
CHECK_DEADLOCK FALSE
