-------------------------- MODULE MCRuntimeConfig --------------------------
(* Small instances of RuntimeConfig for TLC. *)
EXTENDS RuntimeConfig, TLC

CONSTANTS s1, s2
=============================================================================
