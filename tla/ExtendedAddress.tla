--------------------------- MODULE ExtendedAddress ---------------------------
(***************************************************************************)
(* Extended keys and the extended address text codec of                    *)
(* src/src/extended_address.cpp.                                           *)
(*                                                                         *)
(* The secp256k1 group is abstracted to the integers modulo a prime P with *)
(* generator Gen: a secret s has public key s*Gen mod P, public_key::add(d) *)
(* adds d*Gen, and private_key::generate_from_seed(s, d) is s + d mod P,   *)
(* which is what fc does with the curve order.  SHA-512 over the packed    *)
(* key and index is given as two operator constants for its left and right *)
(* halves; hash64 as an operator constant over the first n bytes of the    *)
(* packed address.  A uint32 is a CheckBits-bit word and the uint64 hash a *)
(* 2*CheckBits-bit one.                                                    *)
(*                                                                         *)
(* Each state is one call of a derivation or of the codec; a step is the   *)
(* next call.                                                              *)
(***************************************************************************)
EXTENDS Integers, Sequences

CONSTANTS
    P, Gen,            \* the group Z_P and its generator
    PrivKeys,          \* secrets (1..P-1)
    ChainCodes,        \* chain codes (sha256 values)
    Indices,           \* child indices
    Sha512Left(_),     \* left half of sha512(pack(...)), a scalar
    Sha512Right(_),    \* right half, a chain code
    CheckBits,         \* width of the uint32 checksum
    hash64(_, _),      \* fc::hash64 over the first n bytes of the data
    PACKED_SIZE,       \* fc::raw::pack(extended_address).size(): 33 + 32
    SIZEOF_THIS        \* sizeof(extended_address) in the build

VARIABLE in

\* fc::ecc::private_key::regenerate(s).get_public_key()
PubOf(s) == (s * Gen) % P

\* fc::ecc::public_key::add(digest)
PubAdd(pub, d) == (pub + d * Gen) % P

\* fc::ecc::private_key::generate_from_seed(seed, offset).get_secret()
GenerateFromSeed(seed, offset) == (seed + offset) % P

---------------------------------------------------------------------------
(* Derivation.                                                             *)

\* extended_private_key::get_public_key
get_public_key(xpriv) == PubOf(xpriv.priv_key)

\* extended_public_key::child: I = sha512(pack(pub_key) || child_idx).
extended_public_key_child(xpub, child_idx) ==
    LET ikey == <<"pub", xpub.pub_key, child_idx>>
    IN  [pub_key    |-> PubAdd(xpub.pub_key, Sha512Left(ikey)),
         chain_code |-> Sha512Right(ikey)]

\* The branches of `if( pub_derivation )` swapped.
extended_private_key_child_swapped(xpriv, child_idx, pub_derivation) ==
    LET ikey == IF ~pub_derivation
                THEN <<"pub", get_public_key(xpriv), child_idx>>
                ELSE <<"priv", xpriv.priv_key, child_idx>>
    IN  [priv_key   |-> GenerateFromSeed(xpriv.priv_key, Sha512Left(ikey)),
         chain_code |-> Sha512Right(ikey)]

\* extended_private_key::child: the public key, or pad 0 and the secret.
extended_private_key_child(xpriv, child_idx, pub_derivation) ==
    LET ikey == IF pub_derivation
                THEN <<"pub", get_public_key(xpriv), child_idx>>
                ELSE <<"priv", xpriv.priv_key, child_idx>>
    IN  [priv_key   |-> GenerateFromSeed(xpriv.priv_key, Sha512Left(ikey)),
         chain_code |-> Sha512Right(ikey)]

---------------------------------------------------------------------------
(* The text codec.  pack(address) is the byte string <<pub, chain code>>;  *)
(* base58 is a bijection between byte strings and text, so a text is the   *)
(* byte string it encodes, tagged as base58.                               *)

Word32 == 2^CheckBits
pack(addr) == <<addr.pub_key, addr.chain_code>>
to_base58(bytes) == [base58 |-> bytes]
from_base58(text) == text.base58

\* The checksum stored without the uint32_t truncation.
address_to_string_untruncated(addr) ==
    LET data == pack(addr)
    IN  to_base58(Append(data, hash64(data, PACKED_SIZE)))

\* operator std::string: data || uint32(hash64(data, data.size())).
address_to_string(addr) ==
    LET data == pack(addr)
        checksum == hash64(data, PACKED_SIZE) % Word32
    IN  to_base58(Append(data, checksum))

(* extended_address(base58str): the size check, the unpack, and the        *)
(* comparison of the uint32 checksum with the uint64 hash64 of the first   *)
(* sizeof( *this ) bytes.  A thrown exception is the result [ok |-> FALSE]. *)
address_from_string(text) ==
    LET data == from_base58(text)
    IN  IF Len(data) # 3 THEN [ok |-> FALSE]
        ELSE LET addr == [pub_key |-> data[1], chain_code |-> data[2]]
             IN  IF data[3] = hash64(SubSeq(data, 1, 2), SIZEOF_THIS)
                 THEN [ok |-> TRUE, addr |-> addr] ELSE [ok |-> FALSE]

---------------------------------------------------------------------------
XPrivs == [priv_key : PrivKeys, chain_code : ChainCodes]
Addresses == [pub_key : {PubOf(s) : s \in PrivKeys}, chain_code : ChainCodes]

Inputs ==
       [op : {"derive"}, key : XPrivs, child_idx : Indices, pub_derivation : BOOLEAN]
  \cup [op : {"codec"}, addr : Addresses]

Init == in \in Inputs

\* The caller's next call.
call == \E x \in Inputs : in' = x

Next == call

Spec == Init /\ [][Next]_in

---------------------------------------------------------------------------
(* Type invariant: every call is a derivation or an encoding, a derived    *)
(* key is a secret with a chain code, and an encoded text carries a uint32 *)
(* checksum.                                                               *)
TypeOK ==
    /\ in \in Inputs
    /\ in.op = "derive" =>
         extended_private_key_child(in.key, in.child_idx, in.pub_derivation)
           \in [priv_key : 0..(P-1), chain_code : ChainCodes]
    /\ in.op = "codec" =>
         from_base58(address_to_string(in.addr))[3] \in 0..(Word32-1)

(* Spec 8: for public-mode derivation, the public key of the private child *)
(* (extended_private_key::child with pub_derivation) is the public child   *)
(* of the parent's public key (extended_public_key::child), with the same  *)
(* chain code.                                                             *)
PublicDerivationConsistent ==
    (in.op = "derive" /\ in.pub_derivation) =>
      LET cpriv == extended_private_key_child(in.key, in.child_idx, TRUE)
          cpub  == extended_public_key_child(
                      [pub_key |-> get_public_key(in.key),
                       chain_code |-> in.key.chain_code], in.child_idx)
      IN  /\ PubOf(cpriv.priv_key) = cpub.pub_key
          /\ cpriv.chain_code = cpub.chain_code

(* Spec 8: decoding the text of an extended address gives back the         *)
(* address: extended_address( std::string(a) ) == a, without an exception. *)
AddressRoundTrip ==
    in.op = "codec" => address_from_string(address_to_string(in.addr)) = [ok |-> TRUE, addr |-> in.addr]
=============================================================================
