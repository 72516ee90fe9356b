SPECIFICATION Spec
CONSTANTS
    HAL = HAL
    PTA_CACHING = PTA_CACHING
    ATB = ATB
    d1 = d1
    NA = NA
    NoState = NoState
    weight = weight
    noClass = noClass
    aten = aten
    Pools <- MCPools
    Addrs <- MCAddrs
    Sizes = {1}
    Devices = {d1}
    Classes = {weight}
    Threshold = 1
    BlocksOf <- MCBlocks
    OperatorPools = {PTA_CACHING}
    Switches <- MCSwitches
    MaxCalls = 2
    MaxRecords = 6
INVARIANTS
    EarlyAllocationsFound
    LateDeallocationsFound
    IdlenessFound
    OfflineAgrees
    ListsInOrder
PROPERTIES
    AtenNeverOverrides
CHECK_DEADLOCK FALSE
