\* Two fibers of the main thread: one calls add_name_trx while start() waits.
CONSTANTS
    Threads = {t1}
    Fibers = {f1, f2}
    Names = {n1, n2}
    NoName = NoName
    Prevs = {p1, p2}
    ZeroId = ZeroId
    TrxDifficulties = {1, 2}
    HashDifficulties = {2}
    BlockTargets = {0, 30000}
    MinNameDifficulty = 1
    Efforts = {1}
    Delegates = {TRUE}
    WellBehavedClient = TRUE
    MaxCalls = 6
    VersionMax = 15
SYMMETRY MCSymmetry
SPECIFICATION Spec
INVARIANT LaunchedBlockConsistent
CHECK_DEADLOCK FALSE
