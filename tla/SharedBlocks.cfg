SPECIFICATION Spec
CONSTANTS
    t1 = t1
    t2 = t2
    Threads = {t1, t2}
    d1 = d1
    Devices = {d1}
    HAL = HAL
    NA = NA
    NoState = NoState
    NoEvent = NoEvent
    Pools <- MCPools
    Addrs <- MCAddrs
    Sizes <- MCSizes
    BlocksOf <- MCSharedBlocks
    Switching = TRUE
    MaxRecords = 4
INVARIANTS
    JoinsOnce
    SwitchClearsCache
CHECK_DEADLOCK FALSE
