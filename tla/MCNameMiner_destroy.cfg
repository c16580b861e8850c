\* One worker; the owner destroys the miner while a found block is posted.
CONSTANTS
    Threads = {t1}
    Fibers = {f1}
    Names = {n1, n2}
    NoName = NoName
    Prevs = {p1, p2}
    ZeroId = ZeroId
    TrxDifficulties = {1, 2}
    HashDifficulties = {2}
    BlockTargets = {0, 30000}
    MinNameDifficulty = 1
    Efforts = {1}
    Delegates = {TRUE}
    WellBehavedClient = TRUE
    MaxCalls = 6
    VersionMax = 15
SYMMETRY MCSymmetry
SPECIFICATION Spec
INVARIANT NoCallbackAfterDestroy
CHECK_DEADLOCK FALSE
