---------------------------- MODULE MCAcmeBroker ----------------------------
(* Two hosts that compete for a budget of one certificate.                   *)
EXTENDS AcmeBroker

CONSTANTS h1, h2
=============================================================================
