------------------------------- MODULE MCFeed -------------------------------
(* Small instances of Feed for TLC. *)
EXTENDS Feed, TLC

CONSTANTS t1, t2, m1, m2, cfm

\* Threads are alike, and so are markets.
Symmetry == Permutations({t1, t2}) \cup Permutations({m1, m2})
=============================================================================
