\* Nine transactions whose inputs form a DAG over the genesis outputs, two of
\* them spending the same output; up to four blocks after the genesis block,
\* of one to three transactions each.
CONSTANTS
    Trxs = {"g", "t1", "t2", "t3", "t4", "t5", "t6", "t7", "t8"}
    Genesis = "g"
    TrxDef <- MCTrxDef
    MaxBlocks = 5
    MaxBlockTrxs = 3
    MaxInputs = 2
    BlockNumBits = 3
    TrxIdHash <- MCTrxIdHash
SPECIFICATION Spec
INVARIANT TypeOK
INVARIANT ReplayIdentical
INVARIANT SpentMarkersMatchChain
INVARIANT NoDoubleSpend
INVARIANT MarketMatchesUnspent
INVARIANT StoreOrderFollowsCreation
INVARIANT MatchConservesAmounts
PROPERTY LedgerSpec
