--------------------------- MODULE MCPendingClaim ---------------------------
(* Small instances of PendingClaim for TLC. *)
EXTENDS PendingClaim

CONSTANTS h1, h2
=============================================================================
