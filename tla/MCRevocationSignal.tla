------------------------- MODULE MCRevocationSignal -------------------------
(* Two tokens sharing the tick, three relays.                              *)
EXTENDS RevocationSignal

CONSTANTS t1, t2, r1, r2, r3

MCToken == {t1, t2}
MCRelay == {r1, r2, r3}
MCRelayToken == [r \in MCRelay |-> IF r = r3 THEN t2 ELSE t1]
=============================================================================
