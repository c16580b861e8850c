\* Two worker threads: a lost update of the version can leave stop() waiting.
CONSTANTS
    Threads = {t1, t2}
    Fibers = {f1}
    Names = {n1, n2}
    NoName = NoName
    Prevs = {p1, p2}
    ZeroId = ZeroId
    TrxDifficulties = {1, 2}
    HashDifficulties = {2}
    BlockTargets = {0, 30000}
    MinNameDifficulty = 1
    Efforts = {1}
    Delegates = {TRUE}
    WellBehavedClient = TRUE
    MaxCalls = 6
    VersionMax = 15
SYMMETRY MCSymmetry
SPECIFICATION Spec
PROPERTY StopReturns
CHECK_DEADLOCK FALSE
