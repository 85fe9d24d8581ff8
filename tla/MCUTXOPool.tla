------------------------------ MODULE MCUTXOPool ------------------------------
(* UTXOPool for TLC. *)
EXTENDS UTXOPool
=============================================================================
