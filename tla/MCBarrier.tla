----------------------------- MODULE MCBarrier -----------------------------
(* Instances of YgmBarrier for TLC. *)
EXTENDS YgmBarrier, TLC

Symmetry == Permutations(Rank)
=============================================================================
