---------------------------- MODULE MCChainStore ----------------------------
EXTENDS ChainStore

\* Output claims: an address payment, a bid, an ask, a short offer and a
\* cover, each with a price (a multiple of 4, so that 3/4 of it is exact)
\* and a quote-unit amount.
Sig(a) == [func |-> "claim_by_signature", unit |-> "base", price |-> 0, amount |-> a]
Bid(p, a) == [func |-> "claim_by_bid", unit |-> "quote", price |-> p, amount |-> a]
Ask(p, a) == [func |-> "claim_by_bid", unit |-> "base", price |-> p, amount |-> a]
Long(p, a) == [func |-> "claim_by_long", unit |-> "base", price |-> p, amount |-> a]
Cover(p, a) == [func |-> "claim_by_cover", unit |-> "base", price |-> p, amount |-> a]

Trx(ins, claims) == [inputs |-> ins, nouts |-> Len(claims), claims |-> claims]

(* The genesis coinbase g has three outputs; t1, t2 and t6 spend them; t3 *)
(* spends outputs of t1 and t2, so it needs both in earlier blocks; t4     *)
(* spends the other output of t1, t5 spends t3 and t4, and t7 both outputs *)
(* of t6 in reverse order.  t8 spends the output t1 spends, so one block    *)
(* or two can try to spend it twice.  t1 places a bid that t4 cancels, t2  *)
(* an ask that t3 fills, t6 a short offer of the ask's price and a lower  *)
(* bid, which t7 turns into a cover, and t8 a bid of the same price as     *)
(* t1's.  The bids of t1 and t8 cross both asks.                           *)
MCTrxDef ==
    [t \in Trxs |->
        CASE t = "g"  -> Trx(<<>>, <<Sig(4), Sig(4), Sig(4)>>)
          [] t = "t1" -> Trx(<< <<"g", 1>> >>, <<Sig(1), Bid(8, 3)>>)
          [] t = "t2" -> Trx(<< <<"g", 2>> >>, <<Ask(8, 2)>>)
          [] t = "t3" -> Trx(<< <<"t1", 1>>, <<"t2", 1>> >>, <<Sig(2)>>)
          [] t = "t4" -> Trx(<< <<"t1", 2>> >>, <<Sig(3)>>)
          [] t = "t5" -> Trx(<< <<"t3", 1>>, <<"t4", 1>> >>, <<Sig(5)>>)
          [] t = "t6" -> Trx(<< <<"g", 3>> >>, <<Long(8, 2), Bid(4, 1)>>)
          [] t = "t7" -> Trx(<< <<"t6", 2>>, <<"t6", 1>> >>, <<Cover(6, 2)>>)
          [] t = "t8" -> Trx(<< <<"g", 1>> >>, <<Bid(8, 2)>>)]
(* The value of each transaction id, a hash: unrelated to the order in    *)
(* which the transactions can be created (t6 below t2, t8 below t1).       *)
(* A market transaction's id is above every user transaction's.            *)
MCTrxIdHash(id) ==
    IF id \in Trxs
    THEN CASE id = "g"  -> 41 [] id = "t1" -> 17 [] id = "t2" -> 29
           [] id = "t3" -> 8  [] id = "t4" -> 36 [] id = "t5" -> 12
           [] id = "t6" -> 23 [] id = "t7" -> 3  [] id = "t8" -> 11
    ELSE 50 + 8 * id[2] + id[3]
====
