\* A smaller name-block hash can lower block_difficulty.
CONSTANTS
    W = 16
    HashBits = 20
    TrxIds = {a, b}
    ZeroHash = zero
    MaxTrxs = 5
    BLOCKS_PER_YEAR = 4
    TargetBlockSize = 16
    MinFee = 2
    NameTargetZeroBits = 6
    MaxNameTrxs = 2
    Fees = {1, 3, 50, 300}
    BlockSizes = {0, 8, 14, 16, 32}
    Difficulties = {1, 300, 4000}
    AvailCdays = {0, 64, 640}
    TotalCdds = {0, 10, 200}
    Hashes = {0, 1, 2, 32, 33, 1000, 1048575}
SPECIFICATION Spec
INVARIANT BlockDifficultyMonotone
