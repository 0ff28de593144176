-------------------------- MODULE MCDecisionReplay --------------------------
(***************************************************************************)
(* Two candidates screened in a fixed order.  The first one's screen and   *)
(* two evaluation seeds (the protocol has three, all alike) collect        *)
(* attempts, and the second one's screen: the shortest panel with a        *)
(* replacement on either side of the seed boundary and a candidate behind  *)
(* another.                                                                *)
(***************************************************************************)
EXTENDS DecisionReplay, TLC

CONSTANTS a, b, s0, e1, e2

Panel == {a, b}
Order == <<a, b>>
Seeds == {e1, e2}

Collected == {<<a, s0>>, <<b, s0>>, <<a, e1>>, <<a, e2>>}

(* The evaluation seeds of a candidate are alike. *)
Symmetry == Permutations(Seeds)

=============================================================================
