---------------------------- MODULE MCNameMiner ----------------------------
(* Instantiates NameMiner for TLC; the constants are given in the .cfg.   *)
EXTENDS NameMiner, TLC

\* Worker threads and fibers are interchangeable.
MCSymmetry == Permutations(Threads)

=============================================================================
