----------------------------- MODULE MCEntrypoint -----------------------------
(* A pool small enough for TLC; the README says why the bounds are enough. *)
EXTENDS Entrypoint

CONSTANTS alice, bob, pool, entrypoint, p1, p2, p3

MCPrecommitments == {p1, p2, p3}

(* p3 is a second precommitment on p1's nullifier. *)
MCNullifierOf == [p \in MCPrecommitments |-> IF p = p3 THEN 1 ELSE IF p = p1 THEN 1 ELSE 2]

OneDeposit == [u \in {alice, bob} |-> IF u = alice THEN 2 ELSE 0]

MCDepositValue == {2}

LargeDeposit == [u \in {alice, bob} |-> IF u = alice THEN 4 ELSE 0]

LargeDepositValue == {4}

(* Relayed, with a fee that only FreeDeposits allows, and direct. *)
MCWithdrawalData == {
  [processooor |-> entrypoint, recipient |-> bob, feeRecipient |-> alice, relayFeeBPS |-> 5000],
  [processooor |-> bob, recipient |-> bob, feeRecipient |-> bob, relayFeeBPS |-> 0]}

FreeDeposits == [minimumDepositAmount |-> 2, vettingFeeBPS |-> 0, maxRelayFeeBPS |-> 5000]

VettedDeposits == [minimumDepositAmount |-> 0, vettingFeeBPS |-> 5000, maxRelayFeeBPS |-> 0]

TwoConfigs == {FreeDeposits, VettedDeposits}

(* Deposits pay a fee to the Entrypoint and relays pay one to the relayer, or  *)
(* both are refused.                                                           *)
FeesOrRefusals == {
  [minimumDepositAmount |-> 2, vettingFeeBPS |-> 5000, maxRelayFeeBPS |-> 5000],
  [minimumDepositAmount |-> 5, vettingFeeBPS |-> 0, maxRelayFeeBPS |-> 0]}
=============================================================================
