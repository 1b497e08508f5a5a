--------------------------- MODULE MCSetupSession ---------------------------
(* Small instances of SetupSession for TLC. *)
EXTENDS SetupSession, TLC

CONSTANTS r1, r2, r3

\* Every request is alike.
Symmetry == Permutations({r1, r2, r3})
=============================================================================
