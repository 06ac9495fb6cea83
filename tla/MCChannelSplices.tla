-------------------------- MODULE MCChannelSplices --------------------------
(* Two legs of one holder that were admitted under one grant: withdrawing    *)
(* the membership or the grant concerns both, and one may join while the     *)
(* verdict on the other is awaited.                                          *)
EXTENDS ChannelSplices

CONSTANTS l1, l2, g1

MCGrantOf == [l \in SpliceLeg |-> g1]
=============================================================================
