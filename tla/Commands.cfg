SPECIFICATION Spec
CONSTANTS
    p1 = p1
    p2 = p2
    Procs = {p1, p2}
    First = p1
    CommandFile = CommandFile
    NoFile = NoFile
    Options <- MCOptions
    Dictionaries <- MCDictionaries
    ComparedFiles <- MCComparedFiles
    Unwritable <- MCUnwritable
    Dirs = {"default", "out"}
    DefaultDir = "default"
    MaxOptions = 2
    MaxCalls = 3
    MaxSteps = 2
    MaxDepth = 5
    DefaultDepth = 3
    SlotBits = 2
    NoFramework = "none"
    NoDevice = "N/A"
    NotAvailable = "N/A"
INVARIANTS
    TypeOK
    AnalysesGetTheirEvents
    SingletonsFollowConfig
    DiffIsMinimal
PROPERTIES
    InheritsConfig
    CollectorFollowsTracing
CHECK_DEADLOCK FALSE
