----------------------------- MODULE MCSvmPayment -----------------------------
(* SvmPayment for TLC. *)
EXTENDS SvmPayment
=============================================================================
