----------------------------- MODULE MCDelivery -----------------------------
(* Two ends; one has a record to send, the other only its end of input.     *)
EXTENDS Delivery

CONSTANTS a, b

MCSide == {a, b}
MCMaxSend == [s \in MCSide |-> IF s = a THEN 1 ELSE 0]
=============================================================================
