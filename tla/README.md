# TLA+ models of BitShares (bitname miner, chain arithmetic, UTXO store and market books)

This directory holds TLA+ models of the code under `src/`, the TLC
configurations that check them, and `PROJECT.json`, which maps every model
definition to the source lines it translates and lists the runs, mutants,
findings and hazards.

## 1. Inventory

| Component | Source | State it keeps | Operations |
|---|---|---|---|
| Name miner | `src/src/bitname/bitname_miner.cpp` | `_block_version` (volatile uint64), `_cur_effort`, `_cur_block`, `_callback_del`, `_block_target`, `_name_trx_target`, the static `in_start_new_block`, one `fc::thread` and one `_mining_complete` future per worker | `set_delegate`, `set_block_target`, `start(effort)`, `stop`, `add_name_trx`, `set_name_header`; internally `start_new_block`, the worker loop `start_mining_in_mining_thread`, the `found_name_block` callback; the destructor |
| Name block | `src/src/bitname/bitname_block.cpp` | none (values) | `id`, `difficulty`, `block_difficulty`, `calc_trxs_hash`, `max_name_hash`, `min_name_difficulty`, `create_genesis_block` |
| Difficulty | `src/src/difficulty.cpp` | none | `difficulty(sha224)`, `difficulty(uint160)` |
| Trx block | `src/src/blockchain/block.cpp` | none | `calculate_merkle_root`, `calculate_next_fee`, `min_fee`, `get_required_difficulty`, `get_missing_cdd`, `validate_work`, `id` |
| Signed transaction | `src/src/blockchain/transaction.cpp` | the signature set | `digest`, `id`, `sign`, `get_signed_addresses`, `get_signed_pts_addresses`, `size`, variant conversion |
| Extended keys/address | `src/src/extended_address.cpp` | none | `child` (public and private derivation), base58 encode/decode with checksum |
| Blockchain DB | `src/include/bts/blockchain/blockchain_db.hpp` (header only) | UTXO indices, spent markers, head, fee rate | `push_block`, `pop_block`, `evaluate_signed_transaction`, `match_orders`, fetches |
| Market DB | `src/include/bts/blockchain/blockchain_market_db.hpp` (header only) | bid/ask/short/margin-call books, depth, price history | insert/remove bid, ask, call; best bid/ask |
| Wallet | `src/include/bts/blockchain/blockchain_wallet.hpp` (header only) | keys, wallet file, transaction history | `output_index` and its `operator <`; the rest declared only, out of the spec's scope |
| HTML printer | `blockchain_printer.cpp` | none | rendering, out of the spec's scope |

**How they interact.** The name miner is the only concurrent component. The
main fc thread calls its API; `start` runs `start_new_block`, which bumps
`_block_version`, waits on the `_mining_complete` futures of the previous
workers, and posts a copy of `_cur_block` with the new version to every
worker thread. A worker hashes nonces until its version is out of date or a
nonce beats `_name_trx_target`; the winner increments `_block_version` and
posts `found_name_block(b)` to the callback thread (the thread that built the
miner, in practice the main thread). fc threads are cooperative: while a
fiber of the main thread waits on a future, other fibers of that thread (other
API calls, the callbacks) run. The block and transaction code is a set of
pure functions used by the (absent) blockchain DB: Merkle root when a block
is built and checked, fee and difficulty retargeting after `push_block`.

**What is hard.**
- Miner: three kinds of actors share a non-atomic counter; the winner's check
  and increment are separate; `start_new_block` reads `_cur_block` before and
  after a wait; `stop` decides from `_cur_effort` whether to wait; an
  exception leaves a static flag set; futures may never have been assigned.
- Arithmetic: 64-bit products and sums that can wrap (retarget, block
  difficulty), the clamp of a big quotient to int64, the odd-layer padding
  and the reuse of a moved-from vector in the Merkle loop.
- Chain (spec only): push/pop must be inverse, no output is spent twice, the
  matcher's output is deterministic and leaves no crossed book.

**What makes each component correct.**
- Miner: one winner per version; after `stop` returns nothing more is found;
  stale workers exit and `stop` returns; a launched block is internally
  consistent; a win is for the header the miner currently holds.
- Arithmetic: Merkle root equal to the reference tree; retargeted difficulty
  never below the previous one; block difficulty never below the header's;
  fee never below `min_fee`; difficulty monotone in the hash.
- Chain: spent markers exactly the inputs of applied transactions; pop
  restores push; non-BTS balance in = out; book not crossed between blocks.

## 2. Plan

Modules in the order they are (to be) written, most important first:

1. `NameMiner` + `MCNameMiner` (done, this sitting): the whole miner API, the
   worker loop with the split load/store of `++_block_version`, the cooperative
   main-thread fibers and the callback thread.
2. `BlockMath` + `MCBlockMath` (done): pure operators for `calculate_merkle_root` (RECURSIVE over
   layers, checked against a reference tree definition),
   `get_required_difficulty`, `get_missing_cdd`, `calculate_next_fee`,
   and `difficulty`, all in w-bit unsigned
   arithmetic (`% 2^W`), checked over bounded inputs; then (done)
   `name_block::block_difficulty`, `max_name_hash` and `min_name_difficulty`.
3. `NameMiner` destructor (done) and the delivery-time check of spec
   scenario 8.5; a two-fiber passing run for the properties that survive
   fibers.
4. `ChainStore` + `Ledger` + `MCChainStore` (done; spec-modelled, the
   implementation of `blockchain_db` is not in the repository): `push_block`/`pop_block` over an abstract UTXO store using
   the header's `trx_num` order and `meta_trx_output::is_spent`; properties:
   no double spend, spent set = inputs of applied transactions, pop inverts
   push. An abstract `Ledger` spec (a stack of applied blocks) with
   `ChainStore` refining it via INSTANCE ... WITH.
5. Market DB books composed into `ChainStore` (done): insert/remove of bid,
   ask and margin-call entries and their depth in lock-step with the order
   outputs; the wallet's `output_index` order; the price-time-priority
   matcher (spec 4.4) as an operator over the books of every reachable store.
6. `ExtendedAddress` + `MCExtendedAddress` (done): public/private child
   derivation and the base58-with-checksum codec over an abstract group.
7. `Transaction` (done, no run): `sign`, signer recovery and the variant
   conversion of outputs, with a sender and a receiver. Its transport
   property held by construction (both switches unpack and pack each tag's
   own struct), so its run was given to the matcher's tie-order question.

## 3. Modules

### NameMiner (src/src/bitname/bitname_miner.cpp)

State: `blockVersion` = `_block_version`, a counter that wraps after
`VersionMax` (uint64_t(-1); 15 in the runs, above any version the bounded
calls reach); `curEffort`; `curBlock` (a record of
`name_hash`, `prev`, `trxs`, `trxs_hash`); `callbackDel` (non-null?);
`blockTarget`, `nameTrxTarget`; `inStartNewBlock` (the function-static flag);
`worker[i]` = the task on thread i: `pc` ("none" = future never assigned,
"mine", "claim"/"bump" = the load/store of the winner's increment, "done"),
its version `gen`, its block copy `blk`, the loaded value `read`;
`fiber[f]` = where a main-thread fiber waits ("snb_wait" in
`start_new_block`, "stop_wait" in `stop`); `callbacks` = the posted
`found_name_block` calls; `fault` = undefined behaviour reached (wait on an
invalid future, call through a null delegate). History variables:
`destroyed` (the destructor ran);
`lateCallback` (a `found_name_block` ran after it); `calls` bounds the API
calls.

Actions: one per API function (`set_delegate`, `set_block_target`,
`add_name_trx`, `set_name_header`, `start`, `stop`), the destructor
`destroy` (version set to uint64_t(-1), no wait), the resumptions after a
wait (`start_new_block_launch`, `stop_wait`), the worker loop
(`mining_exit`, `mining_found`, `claim_load`, `claim_store`) and the callback
(`deliver_found`; after the destructor its read of the freed miner is
undefined, and the model takes the outcome in which it still finds the
delegate and records `lateCallback`). A fiber yields only where the code waits on a future that
is valid and not ready; everything between two waits is one step.

Abstractions: hashes are injective (`calc_trxs_hash(b) = <<prev, trxs>>`);
difficulties are small numbers; the nonce/time search is a nondeterministic
choice of the difficulty one nonce reaches (`HashDifficulties`); effort is 0
or positive (its only other use is the sleep length). The main thread's
`++_block_version` is one step; the worker's is two, which covers every
interleaving of two read-modify-writes.

Fairness: weak fairness on the worker steps that follow a decision
(`mining_exit`, `claim_load`, `claim_store`), on the resumptions of waiting
fibers and on the callback thread: OS threads and the fc scheduler run ready
work. Finding a nonce (`mining_found`) and API calls are not fair: neither is
guaranteed to happen.

### BlockMath (src/src/blockchain/block.cpp, src/src/difficulty.cpp)

Pure functions in W-bit words (`Wrap(x) = x % 2^W` for every uint64 product
and sum). Each state is one call (`in`: the function and its arguments); a
step is the next call. `calculate_merkle_root` is the code's while loop as a
RECURSIVE operator over layers (`PadLayer` appends `uint160()` to an odd
layer, `small_hash` is an injective pairing); `MerkleReference` is an
independent definition by tree levels. `get_required_difficulty`,
`get_missing_cdd`, `calculate_next_fee` (with `min_fee` and `512*1024` as
the constants `MinFee` and `TargetBlockSize`) and `difficulty` (bigint
quotient, `to_int64`, clamp of a negative value to 0) follow the source line
by line. The implementation of `fc::bigint::to_int64` is not in the
repository; the model takes the `BN_get_word` conversion of this fc, which
makes every quotient of 63 bits or more negative and so 0 after the clamp.
`block_difficulty(header, trxs)` (bitname_block.cpp) is the header's
difficulty plus the W-bit wrapping sum `TrxDifficultySum` of the
transactions' difficulties, or half the header's when that sum is 0;
`max_name_hash` is the hash with `NameTargetZeroBits` leading zero bits and
`min_name_difficulty` its difficulty. A `name_block` call takes a header and
up to `MaxNameTrxs` transaction hashes.

### ExtendedAddress (src/src/extended_address.cpp)

The curve group is Z_P with generator `Gen` (public key `s*Gen`, `add(d)`
adds `d*Gen`, `generate_from_seed(s, d) = s + d`), which keeps the one law
derivation relies on. The halves of sha512 and `hash64` are operator
constants given stand-in definitions in `MCExtendedAddress`. Text is the
byte string it encodes (base58 is a bijection); the checksum is a
`CheckBits`-bit word and `hash64` a `2*CheckBits`-bit one. `SIZEOF_THIS` is
`sizeof(extended_address)` in the build (40 bytes: an 8-byte key handle and
a 32-byte chain code), `PACKED_SIZE` the 65 packed bytes.

### Transaction (src/src/blockchain/transaction.cpp)

State: the sender's `outputs` and `sigs`, and the `sent`/`received` copies
of the signed transaction. Actions: `add_output` (the sender builds the
transaction, bounded by `MaxOutputs`), `sign(k)` (the code's `sign`),
`transport` (`to_variant` of every output, `from_variant` on the receiver's
side). The digest is injective over the outputs; a compact signature
records key and digest; recovery with another digest yields an unrelated
key. The nine near-identical cases of each switch are one table indexed by
the tag, one per switch (`ToVariantType` for `to_variant`,
`FromVariantType` for `from_variant`); a struct converted to a variant carries its
fields by name, and `from_variant` into another struct leaves them default.
No run checks this module: both switches name each tag's own struct, so
the variant round trip of a packed struct is the identity and a property
that signatures survive it would hold by construction. The hazard that
could break it, bytes after the struct in `claim_data`, depends on what
validation accepts, which is in the absent blockchain DB bodies.

### Ledger and ChainStore (src/include/bts/blockchain/blockchain_db.hpp, spec 3, 4.2-4.5)

Only the header of `blockchain_db` is in the repository, so its operations
follow the spec and are marked `spec_modelled` in the map; the types
`trx_num` (with `invalid_block_id` and the uint16 `trx_idx`),
`meta_trx_output` (default `input_num(-1)` in a uint8, `is_spent`) and
`meta_trx` (one default meta output per output) are translated from the
header. A transaction is an id; `TrxDef` gives its inputs (output references
`<<trx id, output index>>`) and its outputs, each a claim record
(`claim_func`, amount, unit, price). Claim rules, signatures, fees and
coin-days are left out: the store's question is which outputs exist, which
are spent and by whom, and which orders rest on the market.

`Ledger` is the abstract promise: `chain` is a stack of blocks on the
genesis block; `Push` appends a block of distinct transactions not yet in
the chain, each of which spends only outputs that are unspent once the chain
and the block's earlier transactions are applied; `Pop` removes the top
block. The unspent set is a function of the chain.

`ChainStore` keeps what `blockchain_db` keeps: `blocks` (block_num ->
block), `trxNum` (trx_id -> trx_num) and `metaTrx` (trx_num -> meta_trx with
its spent markers). `push_block(b)` runs `evaluate_signed_transactions`
(each transaction's inputs must exist and not be `is_spent` in the store
with the block's earlier transactions applied, spec 4.3's single write set
and scenario 2; it is a left fold that stops at the first failing
transaction, so a later one is never evaluated against a store that holds
an invalid one), then applies the block in one commit: `store_trx` with
`trx_num(n, i-1)`, then `mark_spent` of each input with the spender's
trx_num and input index. `pop_block` unmarks the inputs of the top block in
reverse and removes its transactions from both indices. A block that fails
validation changes nothing (a stuttering step). The code's loops over
inputs, outputs and transactions are `ForEach`, a left fold over indices
that passes the store forward (the community `FoldLeftDomain` nests deep
enough to exhaust TLC's stack when the whole chain is replayed); the
genesis block is never
popped. `MCChainStore` refines `Ledger` with `chain <- blocks`.

The market DB (`blockchain_market_db.hpp`) is composed into the same store
record: `book` holds the `bids`, `asks` and `calls` indices (entries
`market_order(ratio, location)` and `margin_call(call_price, location)`)
and `depth` their volume. Following the header's comment, a `claim_by_bid`
output whose amount is in the quote unit is a bid, one in the base unit an
ask, and a `claim_by_long` (short offer) is an ask too; a `claim_by_cover`
is a margin call. Applying a transaction removes the entries of the order
outputs its inputs spend (`remove_order`, next to `mark_spent`) and
inserts those of its own order outputs (`insert_order`); undoing it does the
reverse, re-inserting the orders it spent. The books of a store are never
matched in place (push_block's fence of matcher transactions is not
modelled), so they may cross; spec invariant 6 is not claimed of the store.

`match_orders` (spec 4.4) is an operator over the books of each reachable
store: `BookOrders` lists the orders of a side (`get_bids`/`get_asks`) with
their price, amount and wallet `output_index`; `get_highest_bid` and
`get_lowest_ask` take the best order under `bid_before`/`ask_before`
(price, then the smaller `output_reference`, compared by `output_ref_less`
on the trx id's hash value `TrxIdHash` and then the output index: these are
the only fields of `market_order` besides the units, and spec 3 keys both
indices by `(ratio, output_ref)`); `MatchLoop` trades while `crosses`
(bid price >= ask price) holds, one `match_trade` per step at the ask price
for `min(B.amount, A.amount)`, with a short's call price at 3/4 of its
price, and `fill` returns the unfilled rest of an order to its book as a new
residual output. Amounts are in the quote unit.

The wallet's `output_index` (`blockchain_wallet.hpp`, uint32 block, uint16
trx and output indices) and its `operator <` are translated; `OutputIndexOf`
builds the index of a stored output from its trx_num. `trx_num::operator <` (the key order
of the trx_num -> meta_trx index) and `meta_trx_input`, the record
`fetch_inputs` returns per input and `evaluate_signed_transaction` reads the
spent marker from, are translated from the header.

## 4. Runs

All runs use `MCNameMiner` (symmetry over worker threads), names {n1, n2},
prevs {p1, p2}, transaction difficulties {1, 2}, hash difficulty 2, block
targets {0, 30000} (the second makes the trx target 3, so nothing can be found
after it), MinNameDifficulty 1 and at most 6 API calls: enough for
set_delegate, set_name_header, add_name_trx, start, stop and a second start.
Deadlock is not checked: when the client stops calling and the workers have
returned, the miner is idle, which is a correct final state.

| Run | Config | Expect | What it shows |
|---|---|---|---|
| miner | `MCNameMiner.cfg` | pass | One worker, one calling fiber, a client that sets delegate and header first: `TypeOK`; `StartNewBlockReturns` (a `start()` that finds a worker still running gets past `start_new_block`'s wait and launches, also when a winner's load and store of the version straddle it); `StopReturns`; `DestroyStopsWorkers` (after the destructor every worker returns). 32 938 states. |
| miner_race_stop | `MCNameMiner_race_stop.cfg` | violation | Two workers both pass the version check of one generation (so both post a found block), the second's `++` stores a value loaded before `start()`'s increment, which puts the version back onto the new generation, and the next `stop()` waits until a block is found (`StopReturns`). |
| miner_stale_header | `MCNameMiner_stale_header.cfg` | violation | After `set_name_header` a worker wins the old header (`WinsOnlyForCurrentHeader`). |
| miner_fibers | `MCNameMiner_fibers.cfg` | violation | Two fibers: `add_name_trx` during `start()`'s wait makes the launched `trxs_hash` stale (`LaunchedBlockConsistent`). |
| miner_destroy | `MCNameMiner_destroy.cfg` | violation | A worker that passed the version check before the destructor loads uint64_t(-1), stores 0 and posts a callback that runs on the freed miner (`NoCallbackAfterDestroy`). |

Other modules:

| Run | Config | Expect | What it shows |
|---|---|---|---|
| blockmath | `MCBlockMath.cfg` | pass | `TypeOK` (results are W-bit words); `MerkleMatchesReference` for every list of up to 5 ids over 2 values; `NextFeeWithinBounds` (the fee moves toward the size-implied rate and never past it, or is `min_fee`); `NoPenaltyWhenCddSurplus`. 516 states. |
| blockmath_retarget_wrap | `MCBlockMath_retarget_wrap.cfg` | violation | `prev_difficulty * factor` wraps: difficulty 4000 with factor 17 gives 2464 in 16 bits (`RequiredDifficultyNotBelowPrev`). |
| blockmath_difficulty_order | `MCBlockMath_difficulty_order.cfg` | violation | `name_block::block_difficulty` sums transaction difficulties in a uint64_t: from header 0 with transaction hashes 0 and 1, a smaller hash in one place (more work) gives a smaller block difficulty, because difficulty 0 (a clamped quotient of 63 bits or more) and the wrap of the sum make it non-monotone (`BlockDifficultyMonotone`). |
| xaddr | `MCExtendedAddress.cfg` | pass | `TypeOK`; `PublicDerivationConsistent` for 6 secrets, 3 chain codes, 3 indices, both modes. 126 states. |
| xaddr_roundtrip | `MCExtendedAddress_roundtrip.cfg` | violation | Decoding the encoded text throws (`AddressRoundTrip`). |
| chainstore | `MCChainStore.cfg` | pass | Every sequence of pushes and pops of up to 4 blocks of 1 to 3 transactions over 9 transactions (a DAG over 3 genesis outputs, with t8 spending the output t1 spends): `TypeOK`; `ReplayIdentical` (the indices equal a replay of the blocks from an empty store, so a pop restores the image before the push); `SpentMarkersMatchChain` (spec invariant 1, marker = spender's trx_num and input index); `NoDoubleSpend` (spec invariant 2, within and across blocks); `MarketMatchesUnspent` (spec invariant 5: each market index holds exactly the entries of the unspent order outputs, with their total amount as depth, after any pops; orders: a bid t4 cancels, an ask t3 fills, a short and a bid t7 turns into a cover, and t8's bid); `StoreOrderFollowsCreation` (`trx_num::operator <` over the stored trx_nums, and the wallet's `output_index` order built from them, are the order in which push_block created the transactions and outputs); `LedgerSpec` (refinement of `Ledger`); of `match_orders` over each store's books: `MatchConservesAmounts` (each order's amount is its traded volume plus a positive residue, every trade of positive volume at the ask price and within the bid). 5 690 states. |
| chainstore_tie_order | `MCChainStore_tie_order.cfg` | violation | The indices take equal prices in `output_reference` order, a hash: one block with t2 (ask at 8), t6 (short at 8) and t8 (bid at 8 for 2) fills t6's later short and leaves t2's earlier ask, against spec 4.4's "earliest output_ref (time priority)" (`NoBetterOrderLeft`). |

BlockMath uses 16-bit words, a 20-bit hash, `BLOCKS_PER_YEAR` 4 and a target
block size of 16: the retarget factor reaches 161, so products cross 2^16;
fee inputs keep `block_size * prev_fee` below 2^16, as 64-bit fees and
sizes do. ChainStore uses 3-bit block numbers (`invalid_block_id` = 7, above the
highest block number 4); its transactions include one spending two outputs
of one parent in reverse order, dependencies two blocks deep, and a
conflicting pair, so blocks that re-include a stored transaction or spend an
output twice (in one block or across blocks) are offered and must be
refused. Blocks hold up to 3 transactions, so a block can carry a spend
chain of two links (t1, t4, t5 or t6, t7) whose later links spend
outputs created earlier in the same block. `MCTrxIdHash` gives the transaction ids hash values unrelated to the order
in which blocks can create them (t6's below t2's), as a real uint160 id is. ExtendedAddress uses Z_11 and a 2-bit checksum so the upper half of
`hash64` is nonzero for most addresses, as for a real 64-bit hash.

Why the passing run has one worker and one fiber: with two workers the
check-then-increment race breaks `StopReturns` (run
miner_race_stop), and with two fibers the stale trxs hash breaks
`LaunchedBlockConsistent` (run miner_fibers). The passing run checks what
the code guarantees once those two races are excluded: the interaction of
one worker with the main thread, including the lost update between the
worker's increment and `start`/`stop`.

Each property of the passing runs has a mutant (PROJECT.json) that TLC must
catch: a target not raised to the minimum, a `start_new_block` that waits
without incrementing the version, a `stop` that does not increment it, a
destructor that leaves it alone.

The miner run enumerates effort 1 only. With effort 0 `start(0)` followed by
`stop()` lets `stop()` return without waiting while a worker can still post
a found block (hazard at bitname_miner.cpp:197); the model reaches it, and
no run is spent on it.

## 5. Findings

See `findings` in PROJECT.json; in short: the winner's version check and
increment are not atomic (double callbacks, and a lost update that makes a
later `stop()` hang); `set_name_header`/`add_name_trx` do not restart the
workers; `start_new_block` hashes the block before a wait and copies it
after; a failed `FC_ASSERT` leaves `in_start_new_block` set (reached with
`WellBehavedClient = FALSE`, not run: `StartNewBlockReleased`); the
destructor does not wait for a winner, whose callback then runs on the
freed miner and whose increment wraps the version to 0; `stop()` after a
`start()` without a header waits on unassigned futures (reached by the model
as `fault`, not run); `start(0)` makes `stop()` skip its wait (reached with
`Efforts = {0, 1}`, not run). In the block
arithmetic the retarget product wraps and `difficulty` is not monotone for
tiny hashes, so a name block's difficulty can fall when one of its hashes
gets smaller, and its uint64_t sum can wrap (run blockmath_difficulty_order;
in 64 bits it needs a hash of probability about 2^-63); the extended address decoder compares a 32-bit checksum with
a 64-bit hash over the wrong byte count, so no encoded address decodes.
In the market DB, orders of equal price are ranked by `output_reference`,
whose trx id is a hash, so `match_orders` does not give the time priority
spec 4.4 claims (run chainstore_tie_order).

## 6. Not modelled

- Hash functions, ECDSA, base58, serialisation: replaced by injective
  abstractions; no property depends on their bits.
- The nonce sweep bound (`max_nonce`), `_mine_time`, the sleeps: timing only.
- `name_hash` (implementation absent) and the printer.
- `validate_work` (Momentum), `id`/`size`
  of blocks and transactions: hashing and measuring bytes.
- The margin-call sweep: spec 4.4 says a called cover is force-executed
  against the order book, its scenario 4 says against the bids, and the
  repository has no body to decide. Price points and `get_history`:
  statistics with no implementation. The transactions `match_orders`
  generates are not pushed back into the store (the chain's transaction
  set is fixed), so the fence check of push_block is not modelled. Of the blockchain DB, `trx_eval` (fees, coin-days), claim
  rules and signatures in evaluation, `open`/`close` and the fetch queries other than `fetch_inputs`.
- The wallet beyond `output_index`: its class is declarations only, and the
  spec puts it out of scope.
