----------------------------- MODULE BlockMath -----------------------------
(***************************************************************************)
(* The pure arithmetic of the block code: the Merkle root of a trx block   *)
(* (src/src/blockchain/block.cpp), the fee and difficulty retargeting of   *)
(* block_header, and bts::difficulty (src/src/difficulty.cpp).  Unsigned   *)
(* 64-bit arithmetic is modelled as W-bit arithmetic modulo 2^W, int64 as  *)
(* W-bit two's complement, and a HashBits-bit hash as a number.            *)
(*                                                                         *)
(* Each state is one call of one of these functions with its arguments     *)
(* (the variable `in`); a step is the next call.  The properties relate    *)
(* the result to the definition the spec gives for it.                     *)
(***************************************************************************)
EXTENDS Integers, Sequences, FiniteSets

CONSTANTS
    W,                 \* width of uint64_t / int64_t
    HashBits,          \* width n of the hash in difficulty (160 or 224)
    TrxIds,            \* transaction ids (model values)
    ZeroHash,          \* uint160(), the all-zero hash
    MaxTrxs,           \* longest transaction list enumerated
    BLOCKS_PER_YEAR,   \* config constant used by the retarget
    TargetBlockSize,   \* the 512*1024 of calculate_next_fee
    MinFee,            \* block_header::min_fee()
    NameTargetZeroBits,\* leading zero bits of max_name_hash (28: HARD_MINING)
    MaxNameTrxs,       \* longest name_trxs list enumerated
    Fees, BlockSizes, Difficulties, AvailCdays, TotalCdds, Hashes

VARIABLE in

Word == 2^W
\* Unsigned W-bit wrap-around of a product or a sum.
Wrap(x) == x % Word

---------------------------------------------------------------------------
(* calculate_merkle_root: small_hash of two adjacent uint160 is modelled   *)
(* as an injective pairing.                                                *)
small_hash(x, y) == <<x, y>>

\* One layer made even by appending uint160() when its size is odd.
PadLayer_none(layer) == layer
PadLayer(layer) ==
    IF Len(layer) % 2 = 1 THEN Append(layer, ZeroHash) ELSE layer

\* The while loop: hash adjacent pairs into layer_two, move it to layer_one.
RECURSIVE MerkleLayers(_)
MerkleLayers(layer_one) ==
    IF Len(layer_one) <= 1 THEN layer_one[1]
    ELSE LET p == PadLayer(layer_one)
             layer_two == [k \in 1..(Len(p) \div 2) |-> small_hash(p[2*k-1], p[2*k])]
         IN  MerkleLayers(layer_two)

calculate_merkle_root(ids) ==
    CASE Len(ids) = 0 -> ZeroHash
      [] Len(ids) = 1 -> ids[1]
      [] OTHER        -> MerkleLayers(ids)

(* Reference: node j of level k of the tree over n leaves, where level k   *)
(* has LevelSize(n, k) nodes and a node without a right sibling is paired  *)
(* with the zero hash.                                                     *)
RECURSIVE LevelSize(_, _)
LevelSize(n, k) == IF k = 0 THEN n ELSE (LevelSize(n, k-1) + 1) \div 2

RECURSIVE TreeNode(_, _, _)
TreeNode(ids, k, j) ==
    IF k = 0 THEN ids[j]
    ELSE small_hash(TreeNode(ids, k-1, 2*j-1),
                    IF 2*j <= LevelSize(Len(ids), k-1)
                    THEN TreeNode(ids, k-1, 2*j) ELSE ZeroHash)

MerkleReference(ids) ==
    IF ids = <<>> THEN ZeroHash
    ELSE LET n == Len(ids)
             height == CHOOSE k \in 0..n : LevelSize(n, k) = 1
                                           /\ \A m \in 0..(k-1) : LevelSize(n, m) > 1
         IN  TreeNode(ids, height, 1)

---------------------------------------------------------------------------
(* Retargeting (block_header).                                             *)
get_missing_cdd(total_cdd, prev_avail_cdays) ==
    LET cdd == prev_avail_cdays \div BLOCKS_PER_YEAR
    IN  IF cdd < total_cdd THEN total_cdd - cdd ELSE 0

\* `factor += 1` left out.
PenaltyFactor_noinc(avail, cdd) == avail - cdd
PenaltyFactor(avail, cdd) == Wrap(avail - cdd + 1)

get_required_difficulty(prev_difficulty, prev_avail_cdays, total_cdd) ==
    LET avail == prev_avail_cdays \div BLOCKS_PER_YEAR
        cdd   == IF total_cdd > avail THEN avail ELSE total_cdd
    IN  Wrap(prev_difficulty * PenaltyFactor(avail, cdd))

\* The 99 % / 1 % weights written as 100 / 1.
calculate_next_fee_weights(prev_fee, block_size) ==
    LET next_fee_base == Wrap(block_size * prev_fee) \div TargetBlockSize
        next_fee      == Wrap(100 * prev_fee + next_fee_base) \div 100
    IN  IF next_fee > MinFee THEN next_fee ELSE MinFee
calculate_next_fee(prev_fee, block_size) ==
    LET next_fee_base == Wrap(block_size * prev_fee) \div TargetBlockSize
        next_fee      == Wrap(99 * prev_fee + next_fee_base) \div 100
    IN  IF next_fee > MinFee THEN next_fee ELSE MinFee

---------------------------------------------------------------------------
(* bts::difficulty: (2^n - 1) / H as a bigint, then to_int64 and the clamp *)
(* of a negative result to 0.  The fc bigint is not in the repository; the *)
(* fc of this era converts with BN_get_word, so a quotient of W bits or    *)
(* more becomes all ones, and one with the top bit set is negative: both   *)
(* end as 0.                                                               *)
to_int64(q) ==
    IF q >= Word THEN -1
    ELSE IF q >= 2^(W-1) THEN q - Word ELSE q

\* The clamp `if( tmp < 0 ) tmp = 0` left out.
difficulty_noclamp(h) ==
    IF h = 0 THEN Word - 1 ELSE to_int64((2^HashBits - 1) \div h)
difficulty(h) ==
    IF h = 0 THEN Word - 1
    ELSE LET tmp == to_int64((2^HashBits - 1) \div h)
         IN  IF tmp < 0 THEN 0 ELSE tmp

---------------------------------------------------------------------------
(* src/src/bitname/bitname_block.cpp.  A name header's id is the hash it   *)
(* is, as a HashBits-bit number; name_header::difficulty is difficulty of  *)
(* it, and name_trx::difficulty(prev) that of the header the transaction   *)
(* forms with prev.                                                        *)

\* name_block::block_difficulty: the uint64_t sum of the transactions'
\* difficulties, added to the header's; half the header's when it is 0.
RECURSIVE TrxDifficultySum(_)
TrxDifficultySum(trx_ids) ==
    IF trx_ids = <<>> THEN 0
    ELSE Wrap(difficulty(Head(trx_ids)) + TrxDifficultySum(Tail(trx_ids)))

block_difficulty(header_id, trx_ids) ==
    LET sum == TrxDifficultySum(trx_ids)
    IN  IF sum > 0 THEN Wrap(difficulty(header_id) + sum)
        ELSE difficulty(header_id) \div 2

\* max_name_hash: bytes 0-2 are 0x00, byte 3 is 0x0f and the rest 0xff, read
\* big-endian by the bigint of difficulty: NameTargetZeroBits zero bits
\* then ones.  min_name_difficulty is its difficulty.
max_name_hash == 2^(HashBits - NameTargetZeroBits) - 1
min_name_difficulty == difficulty(max_name_hash)

---------------------------------------------------------------------------
TrxLists == UNION { [1..n -> TrxIds] : n \in 0..MaxTrxs }

Inputs ==
       [op : {"merkle"}, ids : TrxLists]
  \cup [op : {"fee"}, prev_fee : Fees, block_size : BlockSizes]
  \cup [op : {"retarget"}, prev_difficulty : Difficulties,
        prev_avail_cdays : AvailCdays, total_cdd : TotalCdds]
  \cup [op : {"difficulty"}, hash : Hashes]
  \cup [op : {"name_block"}, header : Hashes,
        trxs : UNION { [1..n -> Hashes] : n \in 0..MaxNameTrxs }]

Init == in \in Inputs

\* The caller's next call.
call == \E x \in Inputs : in' = x

Next == call

Spec == Init /\ [][Next]_in

---------------------------------------------------------------------------
(* Type invariant: every state is a call of one of the four functions, and *)
(* every uint64_t result is a W-bit unsigned value.                        *)
TypeOK ==
    /\ in \in Inputs
    /\ in.op = "fee" => calculate_next_fee(in.prev_fee, in.block_size) \in 0..(Word-1)
    /\ in.op = "retarget" =>
         get_required_difficulty(in.prev_difficulty, in.prev_avail_cdays,
                                 in.total_cdd) \in 0..(Word-1)
    /\ in.op = "difficulty" => difficulty(in.hash) \in 0..(Word-1)
    /\ in.op = "name_block" => block_difficulty(in.header, in.trxs) \in 0..(Word-1)

(* Invariant 3 of the spec: the Merkle root that calculate_merkle_root     *)
(* builds layer by layer with odd-layer padding and vector moves equals    *)
(* the root of the padded binary tree over the transaction ids.            *)
MerkleMatchesReference ==
    in.op = "merkle" => calculate_merkle_root(in.ids) = MerkleReference(in.ids)

(* The fee update of calculate_next_fee moves the rate from prev_fee       *)
(* toward the size-implied rate block_size*prev_fee/(512*1024) and never   *)
(* past either (spec 4.5 step 5), unless it is raised to min_fee.          *)
NextFeeWithinBounds ==
    in.op = "fee" =>
      LET base == (in.block_size * in.prev_fee) \div TargetBlockSize
          next == calculate_next_fee(in.prev_fee, in.block_size)
      IN  \/ next = MinFee
          \/ /\ next >= IF base < in.prev_fee THEN base ELSE in.prev_fee
             /\ next <= IF base < in.prev_fee THEN in.prev_fee ELSE base

(* A block whose coin-days destroyed reach the per-block share of the      *)
(* available coin-days (get_missing_cdd > 0) pays no difficulty penalty:   *)
(* get_required_difficulty returns the previous difficulty unchanged.      *)
NoPenaltyWhenCddSurplus ==
    in.op = "retarget" =>
      (get_missing_cdd(in.total_cdd, in.prev_avail_cdays) > 0
         => get_required_difficulty(in.prev_difficulty, in.prev_avail_cdays,
                                    in.total_cdd) = in.prev_difficulty)

(* Spec 4.5 step 6: required = prev_difficulty * (1 + avail - min(cdd,     *)
(* avail)) is never below prev_difficulty; the code's uint64 product       *)
(* prev_difficulty * factor may wrap.                                      *)
RequiredDifficultyNotBelowPrev ==
    in.op = "retarget" =>
      get_required_difficulty(in.prev_difficulty, in.prev_avail_cdays,
                              in.total_cdd) >= in.prev_difficulty

(* Spec 8: difficulty(hash) decreases as the hash grows, and spec 4.6: a    *)
(* name block's difficulty is its header's plus its transactions', so a    *)
(* block whose header or one of whose transactions is replaced by one of   *)
(* smaller hash (more work) is never ranked lower by block_difficulty.     *)
BlockDifficultyMonotone ==
    in.op = "name_block" =>
      LET d == block_difficulty(in.header, in.trxs)
      IN  /\ \A h \in Hashes :
                h <= in.header => block_difficulty(h, in.trxs) >= d
          /\ \A k \in DOMAIN in.trxs, h \in Hashes :
                h <= in.trxs[k] =>
                  block_difficulty(in.header, [in.trxs EXCEPT ![k] = h]) >= d
=============================================================================
