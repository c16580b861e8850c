------------------------------ MODULE ChainStore ------------------------------
(***************************************************************************)
(* The UTXO store of blockchain_db (src/include/bts/blockchain/            *)
(* blockchain_db.hpp): the block list, the trx_id -> trx_num index and the *)
(* trx_num -> meta_trx index, whose meta_outputs hold the spent marker of  *)
(* every output.  The types (trx_num, meta_trx_output, meta_trx) are       *)
(* translated from the header; push_block, pop_block and the validation   *)
(* of evaluate_signed_transaction are declared there but their bodies are *)
(* not in the repository, so they follow spec 4.2, 4.3 and 4.5.            *)
(*                                                                         *)
(* The market DB (blockchain_market_db.hpp) is composed in: push_block    *)
(* and pop_block insert and remove its bid, ask and margin-call entries    *)
(* and their depth in lock-step with the order outputs they create and     *)
(* spend (spec 3, Lifecycle; 4.5 step 4 and pop_block).                    *)
(*                                                                         *)
(* Data is abstracted to the UTXO structure: a transaction is an id whose  *)
(* inputs and outputs TrxDef gives (as in Ledger), each output a claim      *)
(* record of its claim_func, amount, unit and price; signatures, fees and *)
(* the price history are left out, and there is one asset pair.  A         *)
(* transaction id (a uint160 hash) is ordered by TrxIdHash.  Block numbers are BlockNumBits wide so that uint32_t(-1)   *)
(* stays a TLC integer.                                                    *)
(***************************************************************************)
EXTENDS Naturals, Sequences, SequencesExt, FiniteSetsExt

CONSTANTS
    Trxs, Genesis, TrxDef, MaxBlocks, MaxBlockTrxs,
    MaxInputs,     \* the most inputs of a transaction in TrxDef
    BlockNumBits,  \* width of trx_num::block_num
    TrxIdHash(_)   \* the numeric value of a transaction's id (uint160)

VARIABLES
    blocks,     \* block_num -> full_block: blocks[n+1] is block n
    trxNum,     \* trx_id -> trx_num
    metaTrx     \* trx_num -> meta_trx

VARIABLES
    book,       \* market_db indices: "bids", "asks", "calls" -> entries
    depth       \* market_db depth of each index

vars == <<blocks, trxNum, metaTrx, book, depth>>

(* The loops of the code over a sequence, in index order: op(acc, i) for   *)
(* i = 1 .. Len(s).  The accumulator is passed forward, one level per      *)
(* element (FoldLeftDomain's recursion over subsets nests far deeper).     *)
RECURSIVE ForEachIndex(_, _, _, _)
ForEachIndex(op(_, _), acc, s, i) ==
    IF i > Len(s) THEN acc ELSE ForEachIndex(op, op(acc, i), s, i + 1)
ForEach(op(_, _), acc, s) == ForEachIndex(op, acc, s, 1)

ASSUME \A t \in Trxs : Len(TrxDef[t].claims) = TrxDef[t].nouts

---------------------------------------------------------------------------
(* blockchain_db.hpp: trx_num and meta_trx_output.                          *)

\* INVALID_BLOCK_NUM, uint32_t(-1)
invalid_block_id == 2^BlockNumBits - 1

\* trx_num(b, t), with trx_idx a uint16_t
TrxNum(b, t) == [block_num |-> b, trx_idx |-> t % 2^16]

\* trx_num::operator <: by block, then by index within the block.
trx_num_less(a, b) ==
    IF a.block_num = b.block_num THEN a.trx_idx < b.trx_idx ELSE a.block_num < b.block_num

\* A default meta_trx_output: trx_num() and input_num(-1) in a uint8_t.
meta_trx_output_signed == [trx_id |-> TrxNum(invalid_block_id, 0), input_num |-> -1]
meta_trx_output == [trx_id |-> TrxNum(invalid_block_id, 0), input_num |-> 2^8 - 1]

\* meta_trx_output::is_spent
is_spent_never(m) == FALSE
is_spent(m) == m.trx_id.block_num # invalid_block_id

\* meta_trx(t): one default meta output per output of t.
meta_trx(t) == [trx |-> t, meta_outputs |-> [o \in 1..TrxDef[t].nouts |-> meta_trx_output]]

---------------------------------------------------------------------------
(* blockchain_market_db.hpp.  A claim_by_bid output is an offer to buy the *)
(* base unit with its quote-unit amount (a bid) or to sell its base-unit   *)
(* amount (an ask); the asks include the open short offers, claim_by_long; *)
(* a claim_by_cover output is a margin call at its call price.             *)
Books == {"bids", "asks", "calls"}
OrderFuncs == {"claim_by_bid", "claim_by_long", "claim_by_cover"}

\* The claim of the output an input <<trx id, output index>> refers to.
Claim(ref) == TrxDef[ref[1]].claims[ref[2]]

BookOf(c) ==
    CASE c.func = "claim_by_bid" /\ c.unit = "quote" -> "bids"
      [] c.func \in {"claim_by_bid", "claim_by_long"} -> "asks"
      [] c.func = "claim_by_cover"                   -> "calls"

\* market_order(price, loc) and margin_call(call_price, loc).
market_order(p, loc) == [ratio |-> p, location |-> loc]
margin_call(p, loc) == [call_price |-> p, location |-> loc]
MarketEntry(c, loc) ==
    IF c.func = "claim_by_cover" THEN margin_call(c.price, loc)
    ELSE market_order(c.price, loc)

\* insert_bid / insert_ask / insert_call(m, depth) for an order output.
insert_order(st, c, loc) ==
    IF c.func \notin OrderFuncs THEN st
    ELSE [st EXCEPT !.book[BookOf(c)] = @ \cup {MarketEntry(c, loc)},
                    !.depth[BookOf(c)] = @ + c.amount]

\* remove_bid / remove_ask / remove_call(m, depth).
remove_order_keepdepth(st, c, loc) ==
    IF c.func \notin OrderFuncs THEN st
    ELSE [st EXCEPT !.book[BookOf(c)] = @ \ {MarketEntry(c, loc)}]
remove_order(st, c, loc) ==
    IF c.func \notin OrderFuncs THEN st
    ELSE [st EXCEPT !.book[BookOf(c)] = @ \ {MarketEntry(c, loc)},
                    !.depth[BookOf(c)] = @ - c.amount]

---------------------------------------------------------------------------
(* The store as one record, so that the operations of spec 4.3 can be      *)
(* folded over the transactions of a block.                                *)
Store == [num |-> trxNum, meta |-> metaTrx, book |-> book, depth |-> depth]

\* The meta output an input <<trx id, output index>> refers to.
MetaOut(st, ref) == st.meta[st.num[ref[1]]].meta_outputs[ref[2]]

\* An input whose source transaction and output exist in the store.
Resolves(st, ref) ==
    ref[1] \in DOMAIN st.num /\ ref[2] \in DOMAIN st.meta[st.num[ref[1]]].meta_outputs

(* fetch_inputs(inputs): one meta_trx_input per input, with the source     *)
(* trx_num, the uint8_t output_num, the output and its meta output.        *)
fetch_inputs(st, ins) ==
    [j \in DOMAIN ins |->
       [source |-> st.num[ins[j][1]], output_num |-> (ins[j][2] - 1) % 2^8,
        output |-> Claim(ins[j]), meta_output |-> MetaOut(st, ins[j])]]

(* Step 2 of spec 4.2: every input resolves (fetch_inputs throws on one     *)
(* that does not) to an output whose meta output is not is_spent.          *)
evaluate_signed_transaction(st, t) ==
    /\ \A j \in DOMAIN TrxDef[t].inputs : Resolves(st, TrxDef[t].inputs[j])
    /\ \A j \in DOMAIN TrxDef[t].inputs :
          ~is_spent(fetch_inputs(st, TrxDef[t].inputs)[j].meta_output)

\* store_trx(trx, t): the id and trx_num indices.
store_trx(st, t, tn) ==
    [st EXCEPT !.num = (t :> tn) @@ @, !.meta = (tn :> meta_trx(t)) @@ @]

\* mark_spent(output_ref, spender): input j (0-based j-1) of trx_num tn.
mark_spent_1based(st, ref, tn, j) ==
    [st EXCEPT !.meta[st.num[ref[1]]].meta_outputs[ref[2]] =
                 [trx_id |-> tn, input_num |-> j % 2^8]]
mark_spent(st, ref, tn, j) ==
    [st EXCEPT !.meta[st.num[ref[1]]].meta_outputs[ref[2]] =
                 [trx_id |-> tn, input_num |-> (j - 1) % 2^8]]

\* unmark_spent(output_ref): back to the default meta output.
unmark_spent_none(st, ref) == st
unmark_spent(st, ref) ==
    [st EXCEPT !.meta[st.num[ref[1]]].meta_outputs[ref[2]] = meta_trx_output]

(* Applying one transaction: store it, mark its inputs in order and take  *)
(* the orders they spend off the market, then put its order outputs on.   *)
ApplyTrx(st, t, tn) ==
    LET spend(acc, j) ==
          LET ref == TrxDef[t].inputs[j]
          IN  remove_order(mark_spent(acc, ref, tn, j), Claim(ref), ref)
        spent == ForEach(spend, store_trx(st, t, tn), TrxDef[t].inputs)
    IN  ForEach(LAMBDA acc, o : insert_order(acc, Claim(<<t, o>>), <<t, o>>),
                       spent, TrxDef[t].claims)

(* Undoing one: take its orders off the market, unmark its inputs in       *)
(* reverse and re-insert the orders they spent, drop it from both indices. *)
UnapplyTrx(st, t) ==
    LET off == ForEach(LAMBDA acc, o : remove_order(acc, Claim(<<t, o>>), <<t, o>>),
                              st, TrxDef[t].claims)
        un  == LET ins == Reverse(TrxDef[t].inputs)
              IN  ForEach(LAMBDA acc, j : insert_order(unmark_spent(acc, ins[j]), Claim(ins[j]), ins[j]),
                          off, ins)
    IN  [un EXCEPT !.num  = Restrict(@, DOMAIN @ \ {t}),
                   !.meta = Restrict(@, DOMAIN @ \ {un.num[t]})]

\* Step 4 of push_block for block number n: trx i gets trx_num(n, i-1).
ApplyBlock(st, b, n) ==
    ForEach(LAMBDA acc, i : ApplyTrx(acc, b[i], TrxNum(n, i - 1)), st, b)

\* The reverse of ApplyBlock, last transaction first.
UnapplyBlock(st, b) ==
    LET r == Reverse(b) IN ForEach(LAMBDA acc, i : UnapplyTrx(acc, r[i]), st, r)

EmptyStore == [num |-> <<>>, meta |-> <<>>,
               book |-> [b \in Books |-> {}], depth |-> [b \in Books |-> 0]]

(* evaluate_signed_transactions(trxs) for block number n: each transaction *)
(* is evaluated against the store with the earlier ones of the block       *)
(* applied (spec 4.3: one write set per block; scenario 2: of two          *)
(* transactions spending one output the second fails); the first failure  *)
(* rejects the block.                                                      *)
evaluate_signed_transactions_head(st, b, n) ==
    \A i \in 1..Len(b) : evaluate_signed_transaction(st, b[i])
evaluate_signed_transactions(st, b, n) ==
    LET step(acc, i) ==
          IF acc.ok /\ evaluate_signed_transaction(acc.st, b[i])
          THEN [ok |-> TRUE, st |-> ApplyTrx(acc.st, b[i], TrxNum(n, i - 1))]
          ELSE [ok |-> FALSE, st |-> acc.st]
    IN  ForEach(step, [ok |-> TRUE, st |-> st], b).ok

---------------------------------------------------------------------------
(* blockchain_wallet.hpp: output_index, the wallet's position of an output *)
(* (uint32_t block, uint16_t trx and uint16_t output indices; the uint32_t *)
(* is BlockNumBits wide like trx_num::block_num), and its operator <.      *)
output_index(block_id, trx_id, output_id) ==
    [block_idx |-> block_id % 2^BlockNumBits, trx_idx |-> trx_id % 2^16,
     output_idx |-> output_id % 2^16]

\* The branches of the trx_idx comparison swapped.
output_index_less_swapped(a, b) ==
    IF a.block_idx = b.block_idx
    THEN IF a.trx_idx = b.trx_idx THEN a.output_idx < b.output_idx
         ELSE b.trx_idx < a.trx_idx
    ELSE a.block_idx < b.block_idx
output_index_less(a, b) ==
    IF a.block_idx = b.block_idx
    THEN IF a.trx_idx = b.trx_idx THEN a.output_idx < b.output_idx
         ELSE a.trx_idx < b.trx_idx
    ELSE a.block_idx < b.block_idx

\* The output_index of a stored output: its trx_num and 0-based output.
OutputIndexOf(st, ref) ==
    output_index(st.num[ref[1]].block_num, st.num[ref[1]].trx_idx, ref[2] - 1)

---------------------------------------------------------------------------
(* The matching engine, blockchain_db::match_orders (spec 4.4), over the   *)
(* market DB's bids and asks; its body is not in the repository.  An      *)
(* order is its market_order (ratio and location, the output_reference    *)
(* <<trx id, output index>>), the quote amount still open (spec 8         *)
(* scenario 3: "a bid ... for 50 USD", "an ask ... for 40 USD"), its       *)
(* claim_func, the output it came from and, for the properties only, the   *)
(* output_index of its output.  The market transactions go into block n,  *)
(* after its user transactions, of which match_orders on the store has    *)
(* none; market transaction k of block n has the id MarketTrx(n, k).       *)
MarketTrx(n, k) == <<"market", n, k>>

BookOrders(st, bk) ==
    {[price |-> e.ratio, location |-> e.location, amount |-> Claim(e.location).amount,
      func |-> Claim(e.location).func, pos |-> OutputIndexOf(st, e.location),
      origin |-> e.location] : e \in st.book[bk]}

\* output_reference order: by the trx id's value, then by output index.
output_ref_less(r, s) ==
    \/ TrxIdHash(r[1]) < TrxIdHash(s[1])
    \/ r[1] = s[1] /\ r[2] < s[2]

(* The order of the bid and ask indices (spec 3: bids keyed by (-ratio,    *)
(* output_ref), asks by (+ratio, output_ref)): a better price first, then  *)
(* the smaller output_reference, the only other field of market_order.     *)
bid_before(a, b) ==
    \/ a.price > b.price
    \/ a.price = b.price /\ output_ref_less(a.location, b.location)
ask_before(a, b) ==
    \/ a.price < b.price
    \/ a.price = b.price /\ output_ref_less(a.location, b.location)

\* market_db::get_highest_bid / get_lowest_ask (shorts included).
get_highest_bid(bids) == CHOOSE b \in bids : \A x \in bids \ {b} : bid_before(b, x)
get_lowest_ask(asks) == CHOOSE a \in asks : \A x \in asks \ {a} : ask_before(a, x)

\* Step 2: the pair trades unless the bid is below the ask.
crosses(B, A) == B.price >= A.price

\* What is left of an order after vol of it traded: nothing, or a residual
\* at the original price, a new output of market transaction k of block n.
fill_noreduce(o, vol, n, k) ==
    IF o.amount = vol THEN {}
    ELSE {[o EXCEPT !.location = <<MarketTrx(n, k), 1>>, !.pos = output_index(n, k, 0)]}
fill(o, vol, n, k) ==
    IF o.amount = vol THEN {}
    ELSE {[o EXCEPT !.amount = @ - vol, !.location = <<MarketTrx(n, k), 1>>,
                    !.pos = output_index(n, k, 0)]}

(* Steps 3 and 4: the volume is the smaller amount, at the ask's price;    *)
(* against a short the trade creates a cover whose margin call is at 3/4   *)
(* of the short's price.                                                   *)
match_trade(B, A) ==
    [bid |-> B, ask |-> A, price |-> A.price,
     volume |-> IF B.amount < A.amount THEN B.amount ELSE A.amount,
     call_price |-> IF A.func = "claim_by_long" THEN (3 * A.price) \div 4 ELSE 0]

(* Step 5: repeat until no crossing remains.  Each trade fills at least    *)
(* one of its orders, so the loop ends.                                    *)
RECURSIVE MatchLoop(_, _, _, _)
MatchLoop(bids, asks, trades, n) ==
    IF bids = {} \/ asks = {} THEN [bids |-> bids, asks |-> asks, trades |-> trades]
    ELSE LET B == get_highest_bid(bids)
             A == get_lowest_ask(asks)
             t == match_trade(B, A)
             k == Len(trades)
         IN  IF ~crosses(B, A) THEN [bids |-> bids, asks |-> asks, trades |-> trades]
             ELSE MatchLoop((bids \ {B}) \cup fill(B, t.volume, n, k),
                            (asks \ {A}) \cup fill(A, t.volume, n, k),
                            Append(trades, t), n)

match_orders(st, n) == MatchLoop(BookOrders(st, "bids"), BookOrders(st, "asks"), <<>>, n)

---------------------------------------------------------------------------
\* Blocks a producer may offer: distinct transactions other than the genesis.
Blocks == {b \in SeqOf(Trxs \ {Genesis}, MaxBlockTrxs) : b # <<>> /\ IsInjective(b)}

(* Spec 4.7: the genesis block 0 holds the one coinbase transaction.       *)
Init ==
    /\ blocks = << <<Genesis>> >>
    /\ LET st == ApplyBlock(EmptyStore, <<Genesis>>, 0)
       IN  trxNum = st.num /\ metaTrx = st.meta /\ book = st.book /\ depth = st.depth

(* push_block(b) (spec 4.5): the transactions validated (step 2), then all *)
(* applied (step 4) in one commit; a block that fails validation leaves    *)
(* the store untouched, a stuttering step.                                 *)
push_block(b) ==
    /\ Len(blocks) < MaxBlocks
    /\ evaluate_signed_transactions(Store, b, Len(blocks))
    /\ LET st == ApplyBlock(Store, b, Len(blocks))
       IN  /\ trxNum' = st.num /\ metaTrx' = st.meta
           /\ book' = st.book /\ depth' = st.depth
    /\ blocks' = Append(blocks, b)

(* pop_block: removes the top block and restores every spent marker; the   *)
(* genesis block is never popped.                                          *)
pop_block ==
    /\ Len(blocks) > 1
    /\ LET st == UnapplyBlock(Store, Last(blocks))
       IN  /\ trxNum' = st.num /\ metaTrx' = st.meta
           /\ book' = st.book /\ depth' = st.depth
    /\ blocks' = Front(blocks)

Next ==
    \/ \E b \in Blocks : push_block(b)
    \/ pop_block

Spec == Init /\ [][Next]_vars

---------------------------------------------------------------------------
(* The detailed store implements the abstract chain of Ledger: the block   *)
(* list is the chain.                                                      *)
L == INSTANCE Ledger WITH chain <- blocks

TrxNums == [block_num : 0..invalid_block_id, trx_idx : 0..(2^16 - 1)]
MetaOutputs == [trx_id : TrxNums, input_num : 0..(2^8 - 1)]

(* Type invariant: the indices map ids to trx_nums and trx_nums to         *)
(* meta_trx records whose meta outputs are trx_num and uint8 pairs.        *)
TypeOK ==
    /\ blocks \in Seq(Seq(Trxs))
    /\ DOMAIN trxNum \subseteq Trxs
    /\ \A t \in DOMAIN trxNum : trxNum[t] \in TrxNums
    /\ \A tn \in DOMAIN metaTrx :
         /\ tn \in TrxNums
         /\ metaTrx[tn].trx \in Trxs
         /\ metaTrx[tn].meta_outputs \in Seq(MetaOutputs)
    /\ DOMAIN book = Books /\ DOMAIN depth = Books
    /\ \A b \in Books : depth[b] \in Nat

(* push_block and pop_block implement Ledger: every block the store        *)
(* accepts spends only outputs the chain created and left unspent, and a  *)
(* transaction is never applied twice (the is_spent check of               *)
(* evaluate_signed_transaction rejects a block that repeats one).          *)
LedgerSpec == L!Spec

(* Spec 8: re-deriving the indices by replaying the blocks from an empty   *)
(* store gives the indices the store holds; in particular pop_block after  *)
(* push_block restores the exact prior image, whatever was pushed and      *)
(* popped in between.                                                      *)
ReplayIdentical ==
    Store = ForEach(LAMBDA acc, k : ApplyBlock(acc, blocks[k], k - 1),
                           EmptyStore, blocks)

\* Input j of transaction i of block k, numbered from 1, as <<k, i, j>>.
Spenders == {<<k, i, j>> \in (DOMAIN blocks) \X (1..MaxBlockTrxs) \X (1..MaxInputs) :
                i \in DOMAIN blocks[k] /\ j \in DOMAIN TrxDef[blocks[k][i]].inputs}
SpentRef(s) == TrxDef[blocks[s[1]][s[2]]].inputs[s[3]]

(* Spec invariant 1: the spent markers are exactly the (trx_num,           *)
(* input_idx) pairs of the inputs of applied transactions: the output an   *)
(* input refers to records the spender's trx_num and the input's index,    *)
(* and an output marked spent is referred to by an applied input.          *)
SpentMarkersMatchChain ==
    /\ \A s \in Spenders :
         /\ SpentRef(s)[1] \in DOMAIN trxNum
         /\ MetaOut(Store, SpentRef(s))
              = [trx_id |-> TrxNum(s[1] - 1, s[2] - 1), input_num |-> s[3] - 1]
    /\ \A tn \in DOMAIN metaTrx : \A o \in DOMAIN metaTrx[tn].meta_outputs :
         is_spent(metaTrx[tn].meta_outputs[o])
           => \E s \in Spenders : SpentRef(s) = <<metaTrx[tn].trx, o>>

(* Spec invariant 2: no output is referred to by two inputs anywhere in    *)
(* the chain, neither across blocks (the is_spent check against the store) *)
(* nor within one block (the evaluation against the block's write set).    *)
NoDoubleSpend ==
    \A s1, s2 \in Spenders : SpentRef(s1) = SpentRef(s2) => s1 = s2
(* Spec 3 invariant 5 and the Lifecycle note: after any sequence of        *)
(* push_block and pop_block, each market index holds exactly the entries   *)
(* of the unspent order outputs of the chain that belong to it (so a       *)
(* cancelled or filled order is gone, and pop_block re-inserts every order *)
(* the popped block spent and removes every one it created), and the       *)
(* index's depth is the total amount of those outputs.                     *)
MarketMatchesUnspent ==
    \A bk \in Books :
       LET resting == {r \in L!Unspent(blocks) :
                         Claim(r).func \in OrderFuncs /\ BookOf(Claim(r)) = bk}
       IN  /\ book[bk] = {MarketEntry(Claim(r), r) : r \in resting}
           /\ depth[bk] = MapThenSumSet(LAMBDA r : Claim(r).amount, resting)
(* Every output the chain created, in the order push_block created them:   *)
(* block by block, transaction by transaction, output by output.           *)
CreationOrder ==
    FlattenSeq([k \in DOMAIN blocks |->
       FlattenSeq([i \in DOMAIN blocks[k] |->
          [o \in 1..TrxDef[blocks[k][i]].nouts |-> <<blocks[k][i], o>>]])])

(* The trx_num -> meta_trx index is ordered by trx_num::operator <, and   *)
(* the wallet sorts outputs by output_index::operator <: for the           *)
(* transactions and outputs of the chain, the trx_nums the store holds and *)
(* the output_indexes built from them order both exactly as push_block     *)
(* created them, whatever blocks were popped and pushed before.            *)
StoreOrderFollowsCreation ==
    LET trxs == FlattenSeq(blocks)
        outs == CreationOrder
        idx  == [i \in DOMAIN outs |-> OutputIndexOf(Store, outs[i])]
    IN  /\ \A i, j \in DOMAIN trxs : trx_num_less(trxNum[trxs[i]], trxNum[trxs[j]]) <=> i < j
        /\ \A i, j \in DOMAIN outs : output_index_less(idx[i], idx[j]) <=> i < j

(* The order in which outputs are created: by block, then transaction,     *)
(* then output (the reference for the properties below).                   *)
CreatedBefore(p, q) ==
    \/ p.block_idx < q.block_idx
    \/ p.block_idx = q.block_idx /\ p.trx_idx < q.trx_idx
    \/ p.block_idx = q.block_idx /\ p.trx_idx = q.trx_idx /\ p.output_idx < q.output_idx

(* Spec 4.4 step 3: every trade is at the ask's price, at most the bid's,  *)
(* for a positive volume, and matching makes and loses no quote amount:    *)
(* each resting order's amount is the volume it traded plus what is left   *)
(* of it on the book, and what is left of an order is a positive amount,   *)
(* over however many partial fills the order went through.                *)
MatchConservesAmounts ==
    LET r == match_orders(Store, Len(blocks))
        traded(o, side) ==
          MapThenSumSet(LAMBDA i : r.trades[i].volume,
                        {i \in DOMAIN r.trades : r.trades[i][side].origin = o.origin})
        left(o, rest) ==
          MapThenSumSet(LAMBDA x : x.amount, {x \in rest : x.origin = o.origin})
    IN  /\ \A i \in DOMAIN r.trades :
              /\ r.trades[i].price = r.trades[i].ask.price
              /\ r.trades[i].price <= r.trades[i].bid.price
              /\ r.trades[i].volume > 0
        /\ \A x \in r.bids \cup r.asks : x.amount > 0
        /\ \A o \in BookOrders(Store, "bids") : o.amount = traded(o, "bid") + left(o, r.bids)
        /\ \A o \in BookOrders(Store, "asks") : o.amount = traded(o, "ask") + left(o, r.asks)

(* Spec 4.4 step 1 and its tie-break, "equal prices resolved by earliest   *)
(* output_ref (time priority encoded in block-num ordering)": no order     *)
(* left on the book after matching has a better price than an order of    *)
(* its side that traded, or the same price and an output created earlier. *)
NoBetterOrderLeft ==
    LET r == match_orders(Store, Len(blocks))
    IN  \A i \in DOMAIN r.trades :
          LET t == r.trades[i]
          IN  /\ \A b \in r.bids :
                   ~ \/ b.price > t.bid.price
                     \/ b.price = t.bid.price /\ CreatedBefore(b.pos, t.bid.pos)
              /\ \A a \in r.asks :
                   ~ \/ a.price < t.ask.price
                     \/ a.price = t.ask.price /\ CreatedBefore(a.pos, t.ask.pos)
====
