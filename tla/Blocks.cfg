SPECIFICATION Spec
CONSTANTS
    PTA = PTA
    HAL = HAL
    d1 = d1
    NA = NA
    NoState = NoState
    Pools <- MCPools
    AccessPools = {PTA}
    BlocksOf <- MCBlocks
    Tensors <- MCTensors
    Addrs <- MCAddrs
    Sizes <- MCSizes
    Devices <- MCDevices
    Filtered = FALSE
    MaxRecords = 4
INVARIANTS
    TypeOK
    EmptyWhileStopped
    MirrorsHeap
    NothingLost
    WrittenOnce
    FreeMatchesMalloc
    HistoriesAreWhole
PROPERTIES
    FreeEndsItsBlock
    KeepsHistories
CHECK_DEADLOCK FALSE
