--------------------------- MODULE MCBridgeServer ---------------------------
(* Small instances of BridgeServer for TLC. *)
EXTENDS BridgeServer

CONSTANTS t1, t2, t3, k1, k2, k3
=============================================================================
