SPECIFICATION Spec
CONSTANTS
    t1 = t1
    t2 = t2
    p1 = p1
    p2 = p2
    d0 = d0
    d1 = d1
    Threads = {t1, t2}
    Controller = Controller
    Clients = {p1, p2}
    Settings <- MCSettings
    Pools <- MCPools
    HAL = "HAL"
    Addrs <- MCAddrs
    Sizes <- MCAddrs
    Devices = {d0, d1}
    NA = NA
    NoDevice = NA
    NoState = NoState
    NoHandle = NoHandle
    NotAsked = NotAsked
    NullDomain = NullDomain
SYMMETRY Symmetric
INVARIANTS
    TypeOK
    TotalsAreRegions
    SessionsAreWhole
    HeldBlocksAreListed
CHECK_DEADLOCK FALSE
