----------------------------- MODULE MCFacilitator -----------------------------
(* Facilitator for TLC: one user's two payments, of the prices of the two     *)
(* tiers, the dearer signed over to another nullifier as well; a shop that is *)
(* a registered provider, and a stall the agent may not pay.                  *)
EXTENDS Facilitator, TLC

CONSTANTS p1, p2, n1, n2, alice, a1, shop, stall

MCPayer == p1 :> alice @@ p2 :> alice

MCWorth == p1 :> 1 @@ p2 :> 2

MCSignsFor == p1 :> {n1} @@ p2 :> {n1, n2}

MCAllowed == a1 :> {shop}

MCAccessFee == [standard |-> 1, compliance |-> 2]

MCTakeBps == [none |-> 0, standard |-> 5000, compliance |-> 5000, enterprise |-> 0]

MCFloor == [standard |-> 0, compliance |-> 1]

MCProviderTier == shop :> "standard" @@ stall :> "none"

RequestSymmetry == Permutations(Requests)
=============================================================================
