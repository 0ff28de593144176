------------------------- MODULE MCProcessCleanup -------------------------
EXTENDS ProcessCleanup, TLC

(* The processes but the leader are alike. *)
Symmetry == Permutations(Procs \ {Leader})
=============================================================================
