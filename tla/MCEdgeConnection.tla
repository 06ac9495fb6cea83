-------------------------- MODULE MCEdgeConnection --------------------------
(* Three connections against a cap of two.                                 *)
EXTENDS EdgeConnection
=============================================================================
