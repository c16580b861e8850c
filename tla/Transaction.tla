----------------------------- MODULE Transaction -----------------------------
(***************************************************************************)
(* Signed transactions and the variant (JSON) conversion of their outputs, *)
(* src/src/blockchain/transaction.cpp.                                     *)
(*                                                                         *)
(* A sender builds a transaction (appends outputs) and signs it with keys; *)
(* it can send it as a variant, which the receiver converts back.  The     *)
(* receiver recovers the signing addresses from the signatures and the     *)
(* digest of what it received.                                             *)
(*                                                                         *)
(* Abstractions: sha256 of the packed transaction is injective (the        *)
(* digest is the list of outputs); a compact signature records the key and *)
(* the digest it signed, and public-key recovery with another digest gives *)
(* a key unrelated to any signer.  claim_data is the packing of one claim  *)
(* struct, a record of its type and its value; fc::raw::unpack<T> of it    *)
(* reads the bytes as a T, and from_variant of a struct reads its fields   *)
(* by name, leaving them default when the object holds another struct.     *)
(***************************************************************************)
EXTENDS Naturals, Sequences, FiniteSets

CONSTANTS
    Keys,          \* private keys of the signers
    ClaimFuncs,    \* claim_func tags handled by the switch
    ClaimValues,   \* contents of a claim struct
    DefaultValue,  \* the value of a default-constructed claim struct
    Amounts,
    MaxOutputs,    \* bound on the outputs the sender appends
    NoTrx          \* the receiver holds no transaction yet

VARIABLES
    outputs,    \* the sender's transaction (its outputs)
    sigs,       \* signed_transaction::sigs of the sender
    sent,       \* the signed transaction as it was when sent, or NoTrx
    received    \* the signed transaction the receiver converted back, or NoTrx

vars == <<outputs, sigs, sent, received>>

---------------------------------------------------------------------------
\* transaction::digest: sha256 of the packed transaction, without sigs.
digest(outs) == <<"sha256", outs>>

\* private_key::sign_compact
sign_compact(k, dig) == [key |-> k, digest |-> dig]

\* fc::ecc::public_key(sig, digest): the signer's key only for its digest.
RecoverKey(sig, dig) ==
    IF sig.digest = dig THEN sig.key ELSE <<"unrelated", sig.key, sig.digest, dig>>

\* signed_transaction::get_signed_addresses
get_signed_addresses(outs, sgs) ==
    {<<"address", RecoverKey(s, digest(outs))>> : s \in sgs}

\* signed_transaction::get_signed_pts_addresses: compressed and uncompressed
\* forms with version bytes 56 and 0 of every recovered key.
get_signed_pts_addresses(outs, sgs) ==
    {<<"pts", RecoverKey(s, digest(outs)), compressed, version>> :
        s \in sgs, compressed \in BOOLEAN, version \in {56, 0}}

---------------------------------------------------------------------------
(* Claim data and its variant form.                                        *)
pack(c) == <<c>>

\* fc::raw::unpack<T>(data): the bytes read as a T.
unpack(T, data) == [type |-> T, v |-> data[1].v]

\* A struct converted to a variant object: its fields, named after its type.
StructToVariant(c) == [fields |-> c.type, v |-> c.v]

\* from_variant(obj, c) for a struct c of type T.
StructFromVariant(obj, T) ==
    [type |-> T, v |-> IF obj.fields = T THEN obj.v ELSE DefaultValue]

\* The struct type each case of to_variant's switch unpacks: the tag's own.
ToVariantType(f) == f

\* The struct type each case of from_variant's switch fills and packs: the
\* tag's own.
FromVariantType(f) == f

\* fc::to_variant(trx_output): claim_data only for a tag the switch handles.
to_variant(o) ==
    IF o.claim_func \in ClaimFuncs
    THEN [amount |-> o.amount, claim_func |-> o.claim_func,
          claim_data |-> StructToVariant(unpack(ToVariantType(o.claim_func), o.claim_data))]
    ELSE [amount |-> o.amount, claim_func |-> o.claim_func]

\* fc::from_variant(variant, trx_output) into a default-constructed output.
from_variant(var) ==
    [amount |-> var.amount, claim_func |-> var.claim_func,
     claim_data |-> IF var.claim_func \in ClaimFuncs
                    THEN pack(StructFromVariant(var.claim_data, FromVariantType(var.claim_func)))
                    ELSE <<>>]

---------------------------------------------------------------------------
Claims == [type : ClaimFuncs, v : ClaimValues]
Outputs == {[amount |-> a, claim_func |-> c.type, claim_data |-> pack(c)] :
               a \in Amounts, c \in Claims}

TrxContents == UNION {[1..n -> Outputs] : n \in 0..MaxOutputs}

Init ==
    /\ outputs = <<>>
    /\ sigs = {}
    /\ sent = NoTrx
    /\ received = NoTrx

\* The sender appends an output to the unsigned part of the transaction.
add_output(o) ==
    /\ Len(outputs) < MaxOutputs
    /\ outputs' = Append(outputs, o)
    /\ UNCHANGED <<sigs, sent, received>>

\* signed_transaction::sign(k): insert the compact signature of the digest.
sign(k) ==
    /\ sign_compact(k, digest(outputs)) \notin sigs
    /\ sigs' = sigs \cup {sign_compact(k, digest(outputs))}
    /\ UNCHANGED <<outputs, sent, received>>

\* The transaction travels as a variant: to_variant of every output on the
\* sender's side, from_variant on the receiver's; sigs are copied as-is.
transport ==
    /\ sigs # {}
    /\ sent' = [outputs |-> outputs, sigs |-> sigs]
    /\ received' = [outputs |-> [i \in DOMAIN outputs |-> from_variant(to_variant(outputs[i]))],
                    sigs |-> sigs]
    /\ UNCHANGED <<outputs, sigs>>

Next ==
    \/ \E o \in Outputs : add_output(o)
    \/ \E k \in Keys : sign(k)
    \/ transport

Spec == Init /\ [][Next]_vars

---------------------------------------------------------------------------
(* Type invariant.                                                         *)
TypeOK ==
    /\ outputs \in TrxContents
    /\ sigs \subseteq [key : Keys, digest : {digest(c) : c \in TrxContents}]
    /\ received = NoTrx \/ received.outputs \in TrxContents
=============================================================================
