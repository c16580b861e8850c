------------------------------- MODULE Ledger -------------------------------
(***************************************************************************)
(* What the blockchain DB promises (spec sections 3 and 4.5): the chain is *)
(* a stack of blocks on top of the genesis block; push_block appends a     *)
(* block whose every transaction spends only outputs that exist and are    *)
(* unspent once the chain and the block's earlier transactions are        *)
(* applied; pop_block removes the top block.  The unspent outputs are a    *)
(* function of the chain alone.                                            *)
(*                                                                         *)
(* A transaction is an id; TrxDef gives its inputs (output references      *)
(* <<trx id, output index>>, in order) and its number of outputs.          *)
(***************************************************************************)
EXTENDS Naturals, Sequences, SequencesExt

CONSTANTS
    Trxs,          \* transaction ids
    Genesis,       \* the transaction of block 0
    TrxDef,        \* [Trxs -> [inputs : Seq(output ref), nouts : Nat]]
    MaxBlocks,     \* bound on the chain length, genesis included
    MaxBlockTrxs   \* bound on the transactions of one block

VARIABLE chain

\* The transactions of the chain.
Applied(c) == UNION {Range(c[b]) : b \in DOMAIN c}

\* Every output the chain created, and every output an input of it spends.
CreatedOutputs(c) == UNION {{<<t, o>> : o \in 1..TrxDef[t].nouts} : t \in Applied(c)}
SpentOutputs(c) == UNION {Range(TrxDef[t].inputs) : t \in Applied(c)}
Unspent(c) == CreatedOutputs(c) \ SpentOutputs(c)

\* Spec 4.2 step 2: every input resolves to an unspent output at the head.
Valid(c, t) == \A j \in DOMAIN TrxDef[t].inputs : TrxDef[t].inputs[j] \in Unspent(c)

\* Blocks that could follow c: distinct transactions not yet in the chain.
Candidates(c) ==
    {b \in SeqOf(Trxs \ Applied(c), MaxBlockTrxs) : b # <<>> /\ IsInjective(b)}

Init == chain = << <<Genesis>> >>

Push ==
    /\ Len(chain) < MaxBlocks
    /\ \E b \in Candidates(chain) :
          /\ \A i \in 1..Len(b) : Valid(Append(chain, SubSeq(b, 1, i - 1)), b[i])
          /\ chain' = Append(chain, b)

Pop ==
    /\ Len(chain) > 1
    /\ chain' = Front(chain)

Next == Push \/ Pop

Spec == Init /\ [][Next]_chain
=============================================================================
