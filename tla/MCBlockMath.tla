---------------------------- MODULE MCBlockMath ----------------------------
(* BlockMath with 16-bit words and a 20-bit hash: small enough for TLC's   *)
(* integers, wide enough that a product, a quotient or a sum can overflow. *)
EXTENDS BlockMath
=============================================================================
