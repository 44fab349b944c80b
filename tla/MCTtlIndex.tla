----------------------------- MODULE MCTtlIndex -----------------------------
(* Small instances of TtlIndex; the values are in the cfg files.            *)
EXTENDS TtlIndex, TLC

ItemSymmetry == Permutations(Items)
=============================================================================
