--------------------------- MODULE MCTcpFallback ----------------------------
(* TcpFallback with three slots and two Clients; the second token gets one *)
(* slot (and one Client in the wait runs).                                 *)
EXTENDS TcpFallback, TLC

CONSTANTS t1, t2, s1, s2, s3, c1, c2

MCToken == {t1, t2}
MCSlot == {s1, s2, s3}
MCClient == {c1, c2}

(* One token's pool under pressure: three slots, two Clients.              *)
OneTokenSlots == [s \in MCSlot |-> t1]
OneTokenClients == [c \in MCClient |-> t1]

(* Slots of one token are alike until they park: to number them in the     *)
(* order in which they do leaves out renamed behaviours only.  A park is   *)
(* not fair, so liveness is the same.                                      *)
ParkInOrder ==
    /\ slot[s2] # "idle" => slot[s1] # "idle"
    /\ slot[s3] # "idle" => slot[s2] # "idle"

(* Two tokens sharing the one Notify.                                      *)
TwoTokenSlots == [s \in MCSlot |-> IF s = s3 THEN t2 ELSE t1]
TwoTokenClients == [c \in MCClient |-> IF c = c2 THEN t2 ELSE t1]
=============================================================================
