----------------------------- MODULE MCBridgeHub -----------------------------
(***************************************************************************)
(* BridgeHub for TLC.  Without symmetry, which liveness does not allow.    *)
(***************************************************************************)
EXTENDS BridgeHub
=============================================================================
