-------------------------- MODULE MCThresholdPostman --------------------------
(* ThresholdPostman for TLC: quorums of two out of three signers, and a       *)
(* deposit the screening rejects, so that different decisions give one root.  *)
EXTENDS ThresholdPostman
=============================================================================
