--------------------------- MODULE MCMatchedPair ---------------------------
(* Two jobs race for one pair. *)
EXTENDS MatchedPair, TLC

Symmetry == Permutations(Jobs)
=============================================================================
