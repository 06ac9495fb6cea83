---------------------------- MODULE MCFrontDoor -----------------------------
(* Two tokens that want one hostname; the control plane knows the first.   *)
EXTENDS FrontDoor

CONSTANTS t1, t2, h1

MCToken == {t1, t2}
MCHost == {h1}
MCRegistry == [h \in MCHost |-> t1]
=============================================================================
