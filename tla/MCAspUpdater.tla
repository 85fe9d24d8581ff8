---------------------------- MODULE MCAspUpdater ----------------------------
(* The workers are model values; confirmers are interchangeable. *)
EXTENDS AspUpdater, TLC

CONSTANTS c1, c2, o1, w1

Symmetry == Permutations(Confirmer)
=============================================================================
