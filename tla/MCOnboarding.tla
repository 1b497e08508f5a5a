---------------------------- MODULE MCOnboarding ----------------------------
(* Small instances of Onboarding for TLC. *)
EXTENDS Onboarding

CONSTANTS t1, t2, c1
=============================================================================
