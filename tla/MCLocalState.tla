---------------------------- MODULE MCLocalState ----------------------------
(* Small instances of LocalState for TLC. *)
EXTENDS LocalState, TLC

CONSTANTS p1, p2

\* The processes are alike.
Symmetry == Permutations({p1, p2})
=============================================================================
