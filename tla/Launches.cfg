SPECIFICATION Spec
CONSTANTS
    t1 = t1
    t2 = t2
    k1 = k1
    k2 = k2
    Threads = {t1, t2}
    Keys = {k1, k2}
    Ops = {"op"}
    AtbKernels = {"atb"}
    Kernels = {"add", "mul"}
    Tensors = {"x"}
    Outputs <- MCOutputs
    Settings <- MCSettings
    NoKey = NoKey
    NoName = ""
    NoHash = NoHash
    NoTarget = ""
    Unknown = "UNKNWON"
    WatchStart = "op"
    WatchEnd = "add"
    WatchOutput = 1
    AllOutputs = 99
    Unlimited <- MCUnlimited
    BufferLogs = 3
    MaxCalls = 3
    MaxDumps = 1
INVARIANTS
    TypeOK
    RowsNameTheirLaunch
    DumpsKeepApart
PROPERTIES
    KernelsLeaveTheTable
CHECK_DEADLOCK FALSE
