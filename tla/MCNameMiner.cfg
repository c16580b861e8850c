\* One fiber drives the miner, as a client that waits for each call to
\* return; one worker thread (two workers race, see MCNameMiner_race_stop.cfg);
\* a client that sets the delegate and the header before it starts mining.
CONSTANTS
    Threads = {t1}
    Fibers = {f1}
    Names = {n1, n2}
    NoName = NoName
    Prevs = {p1, p2}
    ZeroId = ZeroId
    TrxDifficulties = {1, 2}
    HashDifficulties = {2}
    BlockTargets = {0, 30000}
    MinNameDifficulty = 1
    Efforts = {1}
    Delegates = {TRUE}
    WellBehavedClient = TRUE
    MaxCalls = 6
    VersionMax = 15
SYMMETRY MCSymmetry
SPECIFICATION Spec
INVARIANT TypeOK
PROPERTY StartNewBlockReturns
PROPERTY StopReturns
PROPERTY DestroyStopsWorkers
CHECK_DEADLOCK FALSE
