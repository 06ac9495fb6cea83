--------------------------- MODULE MCEdgeRegistry ---------------------------
(* EdgeRegistry on two tokens competing for one or two hostnames.          *)
EXTENDS EdgeRegistry, TLC

TokenSymmetry == Permutations(Token)
=============================================================================
