-------------------------- MODULE MCTunnelHistory --------------------------
(* Bounds for model-checking TunnelHistory: the constants are numbers.     *)
EXTENDS TunnelHistory
=============================================================================
