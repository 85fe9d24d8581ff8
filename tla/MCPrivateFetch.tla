---------------------------- MODULE MCPrivateFetch ----------------------------
(* The sellers are interchangeable model values. *)
EXTENDS PrivateFetch, TLC

CONSTANTS s1, s2

Symmetry == Permutations(Seller)
=============================================================================
