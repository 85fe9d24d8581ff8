----------------------------- MODULE MCSettleX402 -----------------------------
(* One note and two sellers, who are interchangeable. *)
EXTENDS SettleX402, TLC

CONSTANTS s1, s2

Sellers == Permutations({s1, s2})
=============================================================================
