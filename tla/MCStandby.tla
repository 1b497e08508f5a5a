----------------------------- MODULE MCStandby -----------------------------
(* Standby for TLC. *)
EXTENDS Standby
=============================================================================
