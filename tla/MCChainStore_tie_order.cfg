\* Equal-priced orders on one book: the index's order by output_reference
\* against the time priority spec 4.4 claims for it.  The transactions and
\* blocks of MCChainStore.cfg.
CONSTANTS
    Trxs = {"g", "t1", "t2", "t3", "t4", "t5", "t6", "t7", "t8"}
    Genesis = "g"
    TrxDef <- MCTrxDef
    MaxBlocks = 5
    MaxBlockTrxs = 3
    MaxInputs = 2
    BlockNumBits = 3
    TrxIdHash <- MCTrxIdHash
SPECIFICATION Spec
INVARIANT NoBetterOrderLeft
