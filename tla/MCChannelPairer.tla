-------------------------- MODULE MCChannelPairer --------------------------
(* Two holders: a with a keepalive and a plain leg and a cap of one park, so *)
(* that its second park supersedes the first; b with a keepalive leg.        *)
EXTENDS ChannelPairer

CONSTANTS a1, a2, b1

MCLeg == {a1, a2, b1}
MCHolderOf == [l \in MCLeg |-> IF l \in {a1, a2} THEN "a" ELSE "b"]
MCPhases == [l \in MCLeg |-> IF l = a2 THEN {"unmarked"}
                             ELSE {"rendezvous", "relay"}]
MCKeepalive == {a1, b1}
=============================================================================
