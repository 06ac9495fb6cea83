---------------------------- MODULE MCAgentKeys -----------------------------
(* AgentKeys: two tokens sharing one entry of the bounded counter map,     *)
(* with room for a repin and an older binding after it.                    *)
EXTENDS AgentKeys, TLC

KeySymmetry == Permutations(Token) \cup Permutations(Key)
=============================================================================
