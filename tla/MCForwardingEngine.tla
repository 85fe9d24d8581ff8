-------------------------- MODULE MCForwardingEngine --------------------------
(* One watched address and one payer, who may come to be listed. *)
EXTENDS ForwardingEngine

(* The daemon as it is, and as its comments would have it rearmed. *)
Shipped == {<<"dryRun", "public">>, <<"disarmed", "public">>}
Rearmed == <<"sweep", "registry">>
ShippedAndRearmed == Shipped \cup {Rearmed}
=============================================================================
