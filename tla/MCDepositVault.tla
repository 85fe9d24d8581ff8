---------------------------- MODULE MCDepositVault ----------------------------
(* Two tabs, each in a browser of its own or both in one. *)
EXTENDS DepositVault, TLC

CONSTANTS t1, t2, b1, b2

Apart == (t1 :> b1) @@ (t2 :> b2)
Together == (t1 :> b1) @@ (t2 :> b1)

(* Bound: no step is taken from a state that an older list or a stale put has *)
(* reached, or after a third secret, be it a note or a seed.                  *)
Bounded == Ordered /\ Cardinality(saved) + Cardinality(made) <= 2

Symmetry == {n @@ p : n \in Permutations(Note), p \in Permutations(Put)}
=============================================================================
