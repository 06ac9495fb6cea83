---------------------------- MODULE ChannelProofs ----------------------------
(***************************************************************************)
(* Proofs about the channels of an edge.                                   *)
(*                                                                         *)
(* The front door: for every set of legs, holders and caps, no two parks   *)
(* that could be paired wait side by side, no live client's park is taken  *)
(* for a corpse and no keepalive byte follows a token.  All of them rest   *)
(* on one inductive invariant, Inv.                                        *)
(*                                                                         *)
(* Admission and re-check: for every lifetime of the caches and of a       *)
(* question, a removed member is locked out in time and no outage of the   *)
(* control plane cuts a call, by the inductive invariant SplicesInv.       *)
(***************************************************************************)
EXTENDS ChannelPairer, ChannelSplices, FiniteSetTheorems, TLAPS

\* The arrival order gives every set of parks an oldest one.
OldestExists ==
    \A S \in SUBSET queue :
        S # {} => \E x \in S : \A y \in S \ {x} : <<x, y>> \in ahead

\* A leg without a pump is back to where it started.
OffIsReset ==
    \A l \in Leg : pump[l] = "off" =>
        client[l] = "none" /\ upward[l] = "open" /\ downward[l] = "open" /\ ~buf[l]

\* A parked leg's duplex is open and carries nothing.
QueuedIsFresh ==
    \A l \in queue :
        /\ pump[l] # "session" /\ ~buf[l] /\ writable[l]
        /\ upward[l] # "shut" /\ downward[l] = "open"

\* Before the first token has been passed on the client has heard nothing.
ParkedIsQuiet ==
    \A l \in Leg : heard[l] # "torn" /\ (pump[l] # "session" => heard[l] = "nothing")

\* A keepalive client keeps a parked leg fully open.
KeepaliveOpen == \A l \in Keepalive : client[l] = "half" => pump[l] = "session"

DeadIsOff == \A l \in dead : pump[l] = "off"

\* A leg has one owner: the queue, or some task.
OneOwner == \A l \in queue : l \notin ending /\ l \notin Paired

Inv ==
    /\ TypeOK /\ OldestExists /\ OffIsReset /\ QueuedIsFresh /\ ParkedIsQuiet
    /\ KeepaliveOpen /\ DeadIsOff /\ OneOwner /\ NoStrandedPair

-----------------------------------------------------------------------------
\* The oldest park of a set of parks is one of them.
LEMMA OldestIsMember ==
    ASSUME OldestExists, NEW S \in SUBSET queue, S # {}
    PROVE  Oldest(S) \in S
BY Zenon DEF OldestExists, Oldest

\* Nothing is parked, owned or running at first.
LEMMA InitInv == Init => Inv
<1> SUFFICES ASSUME Init PROVE Inv
  BY Zenon
<1> USE PairerAssumption DEF Init
<1>1. TypeOK
  BY Zenon DEF TypeOK, Phase
<1>2. OldestExists /\ NoStrandedPair /\ DeadIsOff /\ OneOwner /\ QueuedIsFresh
  BY Zenon DEF OldestExists, NoStrandedPair, DeadIsOff, OneOwner, QueuedIsFresh
<1>3. OffIsReset /\ ParkedIsQuiet
  BY Zenon DEF OffIsReset, ParkedIsQuiet
<1>4. KeepaliveOpen
  BY Zenon DEF KeepaliveOpen, PairerAssumption
<1> QED
  BY Zenon, <1>1, <1>2, <1>3, <1>4 DEF Inv

\* Dropping parks from the queue keeps the order of the others.
LEMMA KeepOrder ==
    ASSUME OldestExists, NEW K \in SUBSET queue, queue' = K, ahead' = ahead \cap (K \X K)
    PROVE  OldestExists'
BY Zenon DEF OldestExists

\* A half-close of the client disturbs nothing: a keepalive client has heard a token.
LEMMA HalfCloseInv ==
    ASSUME Inv, NEW l \in Leg, HalfClose(l)
    PROVE  Inv'
<1> USE PairerAssumption DEF PairerAssumption, Inv, HalfClose, clientSteps, pairing
<1>1. TypeOK'
  BY Zenon DEF TypeOK
<1>2. OffIsReset' /\ ParkedIsQuiet' /\ KeepaliveOpen'
  BY DEF OffIsReset, ParkedIsQuiet, KeepaliveOpen, TypeOK
<1>3. QueuedIsFresh' /\ DeadIsOff'
  BY Zenon DEF QueuedIsFresh, DeadIsOff, TypeOK
<1>4. OldestExists' /\ OneOwner' /\ NoStrandedPair'
  BY Zenon DEF OldestExists, OneOwner, Paired, NoStrandedPair
<1> QED
  BY Zenon, <1>1, <1>2, <1>3, <1>4

\* A client may leave at any moment.
LEMMA LeaveInv ==
    ASSUME Inv, NEW l \in Leg, Leave(l)
    PROVE  Inv'
<1> USE PairerAssumption DEF PairerAssumption, Inv, Leave, clientSteps, pairing
<1>1. TypeOK'
  BY Zenon DEF TypeOK
<1>2. OffIsReset' /\ ParkedIsQuiet' /\ KeepaliveOpen'
  BY DEF OffIsReset, ParkedIsQuiet, KeepaliveOpen, TypeOK
<1>3. QueuedIsFresh' /\ DeadIsOff'
  BY Zenon DEF QueuedIsFresh, DeadIsOff, TypeOK
<1>4. OldestExists' /\ OneOwner' /\ NoStrandedPair'
  BY Zenon DEF OldestExists, OneOwner, Paired, NoStrandedPair
<1> QED
  BY Zenon, <1>1, <1>2, <1>3, <1>4

\* The pump sees an EOF: it keeps a plain parked leg and stops with the others.
LEMMA PumpEofInv ==
    ASSUME Inv, NEW l \in Leg, PumpEof(l)
    PROVE  Inv'
<1> USE PairerAssumption DEF PairerAssumption, Inv, PumpEof, UpwardEnds, PumpStops, Flags, pairing
<1>1. TypeOK'
  BY ZenonT(30) DEF TypeOK
<1>2. OffIsReset' /\ ParkedIsQuiet' /\ KeepaliveOpen'
  BY DEF OffIsReset, ParkedIsQuiet, KeepaliveOpen, TypeOK
<1>3. QueuedIsFresh' /\ DeadIsOff'
  BY DEF QueuedIsFresh, DeadIsOff, TypeOK
<1>4. OldestExists' /\ OneOwner' /\ NoStrandedPair'
  BY Zenon DEF OldestExists, OneOwner, Paired, NoStrandedPair
<1> QED
  BY Zenon, <1>1, <1>2, <1>3, <1>4

\* A half-close held back while parked is passed on.
LEMMA PumpReleasesInv ==
    ASSUME Inv, NEW l \in Leg, PumpReleases(l)
    PROVE  Inv'
<1> USE PairerAssumption DEF PairerAssumption, Inv, PumpReleases, UpwardEnds, PumpStops, pairing
<1>1. TypeOK'
  BY ZenonT(30) DEF TypeOK
<1>2. OffIsReset' /\ ParkedIsQuiet' /\ KeepaliveOpen'
  BY DEF OffIsReset, ParkedIsQuiet, KeepaliveOpen, TypeOK
<1>3. QueuedIsFresh' /\ DeadIsOff'
  BY DEF QueuedIsFresh, DeadIsOff, TypeOK
<1>4. OldestExists' /\ OneOwner' /\ NoStrandedPair'
  BY Zenon DEF OldestExists, OneOwner, Paired, NoStrandedPair
<1> QED
  BY Zenon, <1>1, <1>2, <1>3, <1>4

\* A failed read flags a parked leg and stops the pump.
LEMMA PumpResetInv ==
    ASSUME Inv, NEW l \in Leg, PumpReset(l)
    PROVE  Inv'
<1> USE PairerAssumption DEF PairerAssumption, Inv, PumpReset, PumpStops, Flags, pairing
<1>1. TypeOK'
  BY Zenon DEF TypeOK
<1>2. OffIsReset' /\ ParkedIsQuiet' /\ KeepaliveOpen'
  BY DEF OffIsReset, ParkedIsQuiet, KeepaliveOpen, TypeOK
<1>3. QueuedIsFresh' /\ DeadIsOff'
  BY DEF QueuedIsFresh, DeadIsOff, TypeOK
<1>4. OldestExists' /\ OneOwner' /\ NoStrandedPair'
  BY DEF OldestExists, OneOwner, Paired, NoStrandedPair
<1> QED
  BY Zenon, <1>1, <1>2, <1>3, <1>4

\* The pump of a leg nobody owns stops.
LEMMA PumpAbortsInv ==
    ASSUME Inv, NEW l \in Leg, PumpAborts(l)
    PROVE  Inv'
<1> USE PairerAssumption DEF PairerAssumption, Inv, PumpAborts, PumpStops, pairing
<1>1. TypeOK'
  BY Zenon DEF TypeOK
<1>2. OffIsReset' /\ ParkedIsQuiet' /\ KeepaliveOpen'
  BY DEF OffIsReset, ParkedIsQuiet, KeepaliveOpen, TypeOK
<1>3. QueuedIsFresh' /\ DeadIsOff'
  BY DEF QueuedIsFresh, DeadIsOff, TypeOK
<1>4. OldestExists' /\ OneOwner' /\ NoStrandedPair'
  BY Zenon DEF OldestExists, OneOwner, Paired, NoStrandedPair
<1> QED
  BY Zenon, <1>1, <1>2, <1>3, <1>4

\* Passing on the first token ends the parked phase.
LEMMA PumpWriteInv ==
    ASSUME Inv, NEW l \in Leg, PumpWrite(l)
    PROVE  Inv'
<1> USE PairerAssumption DEF PairerAssumption, Inv, PumpWrite, PumpStops, pairing
<1>1. TypeOK'
  BY ZenonT(30) DEF TypeOK
<1>2. OffIsReset' /\ ParkedIsQuiet' /\ KeepaliveOpen'
  BY DEF OffIsReset, ParkedIsQuiet, KeepaliveOpen, TypeOK
<1>3. QueuedIsFresh' /\ DeadIsOff'
  BY DEF QueuedIsFresh, DeadIsOff, TypeOK
<1>4. OldestExists' /\ OneOwner' /\ NoStrandedPair'
  BY DEF OldestExists, OneOwner, Paired, NoStrandedPair
<1> QED
  BY Zenon, <1>1, <1>2, <1>3, <1>4

\* The end of the duplex ends a parked leg or half-closes a session.
LEMMA PumpEndInv ==
    ASSUME Inv, NEW l \in Leg, PumpEnd(l)
    PROVE  Inv'
<1> USE PairerAssumption DEF PairerAssumption, Inv, PumpEnd, PumpStops, pairing
<1>1. TypeOK'
  BY ZenonT(30) DEF TypeOK
<1>2. OffIsReset' /\ ParkedIsQuiet' /\ KeepaliveOpen'
  BY DEF OffIsReset, ParkedIsQuiet, KeepaliveOpen, TypeOK
<1>3. QueuedIsFresh' /\ DeadIsOff'
  BY DEF QueuedIsFresh, DeadIsOff, TypeOK
<1>4. OldestExists' /\ OneOwner' /\ NoStrandedPair'
  BY Zenon DEF OldestExists, OneOwner, Paired, NoStrandedPair
<1> QED
  BY Zenon, <1>1, <1>2, <1>3, <1>4

\* A keepalive byte goes to a parked leg only, which has heard nothing.
LEMMA PumpNulInv ==
    ASSUME Inv, NEW l \in Leg, PumpNul(l)
    PROVE  Inv'
<1> USE PairerAssumption DEF PairerAssumption, Inv, PumpNul, PumpStops, Flags, pairing
<1>1. TypeOK'
  BY ZenonT(30) DEF TypeOK
<1>2. OffIsReset' /\ ParkedIsQuiet' /\ KeepaliveOpen'
  BY DEF OffIsReset, ParkedIsQuiet, KeepaliveOpen, TypeOK
<1>3. QueuedIsFresh' /\ DeadIsOff'
  BY DEF QueuedIsFresh, DeadIsOff, TypeOK
<1>4. OldestExists' /\ OneOwner' /\ NoStrandedPair'
  BY Zenon DEF OldestExists, OneOwner, Paired, NoStrandedPair
<1> QED
  BY Zenon, <1>1, <1>2, <1>3, <1>4

\* The linger ends a half-closed leg.
LEMMA PumpLingersInv ==
    ASSUME Inv, NEW l \in Leg, PumpLingers(l)
    PROVE  Inv'
<1> USE PairerAssumption DEF PairerAssumption, Inv, PumpLingers, PumpStops, pairing
<1>1. TypeOK'
  BY Zenon DEF TypeOK
<1>2. OffIsReset' /\ ParkedIsQuiet' /\ KeepaliveOpen'
  BY DEF OffIsReset, ParkedIsQuiet, KeepaliveOpen, TypeOK
<1>3. QueuedIsFresh' /\ DeadIsOff'
  BY DEF QueuedIsFresh, DeadIsOff, TypeOK
<1>4. OldestExists' /\ OneOwner' /\ NoStrandedPair'
  BY Zenon DEF OldestExists, OneOwner, Paired, NoStrandedPair
<1> QED
  BY Zenon, <1>1, <1>2, <1>3, <1>4

\* The reaper drops corpses and hands expired parks over.
LEMMA ReapInv ==
    ASSUME Inv, Reap
    PROVE  Inv'
<1> USE PairerAssumption DEF PairerAssumption, Inv, Reap, Keep, Shut, pumpState
<1>1. TypeOK'
  BY Zenon DEF TypeOK, Phase
<1>2. OffIsReset' /\ ParkedIsQuiet' /\ KeepaliveOpen'
  BY Zenon DEF OffIsReset, ParkedIsQuiet, KeepaliveOpen, TypeOK
<1>3. QueuedIsFresh' /\ DeadIsOff'
  BY Zenon DEF QueuedIsFresh, DeadIsOff, OneOwner, TypeOK
<1>4. OldestExists' /\ OneOwner' /\ NoStrandedPair'
  BY Zenon DEF OldestExists, OneOwner, Paired, NoStrandedPair, TypeOK
<1> QED
  BY Zenon, <1>1, <1>2, <1>3, <1>4

\* A deadline passes.
LEMMA ExpireInv ==
    ASSUME Inv, NEW l \in Leg, Expire(l)
    PROVE  Inv'
<1> USE PairerAssumption DEF PairerAssumption, Inv, Expire, pumpState
<1>1. TypeOK'
  BY DEF TypeOK, Phase
<1>2. OffIsReset' /\ ParkedIsQuiet' /\ KeepaliveOpen'
  BY Zenon DEF OffIsReset, ParkedIsQuiet, KeepaliveOpen, TypeOK
<1>3. QueuedIsFresh' /\ DeadIsOff'
  BY Zenon DEF QueuedIsFresh, DeadIsOff, OneOwner, TypeOK
<1>4. OldestExists' /\ OneOwner' /\ NoStrandedPair'
  BY DEF OldestExists, OneOwner, Paired, NoStrandedPair, TypeOK
<1> QED
  BY Zenon, <1>1, <1>2, <1>3, <1>4

\* The end-of-park task writes to a leg that is no longer queued.
LEMMA EndParkInv ==
    ASSUME Inv, NEW l \in Leg, EndPark(l)
    PROVE  Inv'
<1> USE PairerAssumption DEF PairerAssumption, Inv, EndPark, Sends, Shut, pumpState
<1>1. TypeOK'
  BY Zenon DEF TypeOK, Phase
<1>2. OffIsReset' /\ ParkedIsQuiet' /\ KeepaliveOpen'
  BY Zenon DEF OffIsReset, ParkedIsQuiet, KeepaliveOpen, TypeOK
<1>3. QueuedIsFresh' /\ DeadIsOff'
  BY DEF QueuedIsFresh, DeadIsOff, OneOwner, TypeOK
<1>4. OldestExists' /\ OneOwner' /\ NoStrandedPair'
  BY Zenon DEF OldestExists, OneOwner, Paired, NoStrandedPair, TypeOK
<1> QED
  BY Zenon, <1>1, <1>2, <1>3, <1>4

\* A refused pair is told and dropped.
LEMMA RefusePairInv ==
    ASSUME Inv, NEW p \in pairs, RefusePair(p)
    PROVE  Inv'
<1> USE PairerAssumption DEF PairerAssumption, Inv, RefusePair, Sends, Finish, Shut, offTask, pumpState
<1>1. TypeOK'
  BY Zenon DEF TypeOK, Pair
<1>2. OffIsReset' /\ ParkedIsQuiet' /\ KeepaliveOpen'
  BY Zenon DEF OffIsReset, ParkedIsQuiet, KeepaliveOpen, TypeOK
<1>3. p.a \notin queue /\ p.b \notin queue
  BY Zenon DEF OneOwner, Paired
<1>4. QueuedIsFresh' /\ DeadIsOff'
  BY <1>3 DEF QueuedIsFresh, DeadIsOff, TypeOK
<1>5. OldestExists' /\ NoStrandedPair'
  BY Zenon DEF OldestExists, NoStrandedPair
<1>6. OneOwner'
  BY DEF OneOwner, Paired, TypeOK, Pair
<1> QED
  BY Zenon, <1>1, <1>2, <1>4, <1>5, <1>6

\* An acknowledgement, or the end of a pair whose pump is gone.
LEMMA AckInv ==
    ASSUME Inv, NEW p \in pairs, Ack(p)
    PROVE  Inv'
<1>1. /\ UNCHANGED offTask
      /\ UNCHANGED writable \/ Finish(p)
      /\ UNCHANGED buf \/ \E x \in {p.a, p.b} : Sends({x})
      /\ (\E t \in {"ackB", p.kind} : Step(p, t)) \/ Finish(p)
  BY Zenon DEF Ack
<1> USE PairerAssumption, <1>1
    DEF PairerAssumption, Inv, Step, Sends, Finish, Shut, offTask, pumpState
<1>2. pairs' \subseteq Pair
  <2>1. p.kind \in {"splice", "close"}
    BY Zenon DEF TypeOK, Pair
  <2>2. \A t \in {"ackB", "splice", "close"} : [p EXCEPT !.step = t] \in Pair
    BY DEF TypeOK, Pair
  <2> QED
    BY <2>1, <2>2 DEF TypeOK
<1>3. TypeOK'
  <2>1. writable' \in [Leg -> BOOLEAN]
    <3>1. CASE UNCHANGED writable
      BY Zenon, <3>1 DEF TypeOK
    <3>2. CASE Finish(p)
      BY Zenon, <3>2
    <3> QED
      BY Zenon, <3>1, <3>2
  <2>2. buf' \in [Leg -> BOOLEAN]
    <3>1. CASE UNCHANGED buf
      BY Zenon, <3>1 DEF TypeOK
    <3>2. CASE \E x \in {p.a, p.b} : Sends({x})
      BY Zenon, <3>2
    <3> QED
      BY Zenon, <3>1, <3>2
  <2> QED
    BY Zenon, <1>2, <2>1, <2>2 DEF TypeOK
<1>4. OffIsReset' /\ ParkedIsQuiet' /\ KeepaliveOpen'
  BY DEF OffIsReset, ParkedIsQuiet, KeepaliveOpen, TypeOK
<1>5. p.a \notin queue /\ p.b \notin queue
  BY Zenon DEF OneOwner, Paired
<1>6. QueuedIsFresh' /\ DeadIsOff'
  BY <1>5 DEF QueuedIsFresh, DeadIsOff, TypeOK
<1>7. OldestExists' /\ NoStrandedPair'
  BY Zenon DEF OldestExists, NoStrandedPair
<1>8. OneOwner'
  BY DEF OneOwner, Paired, TypeOK, Pair
<1> QED
  BY Zenon, <1>3, <1>4, <1>6, <1>7, <1>8

\* A pair ends in any of the ways it can.
LEMMA PairEndsInv ==
    ASSUME Inv, NEW p \in pairs,
           CloseRendezvous(p) \/ SpliceEnds(p) \/ SpliceFails(p) \/ SpliceCut(p)
    PROVE  Inv'
<1> USE PairerAssumption
    DEF PairerAssumption, Inv, CloseRendezvous, SpliceEnds, SpliceFails, SpliceCut,
        Finish, Shut, offTask, pumpState
<1>0. pairs' \subseteq pairs /\ writable' \in [Leg -> BOOLEAN]
  <2>1. Finish(p)
    BY Zenon
  <2> QED
    BY Zenon, <2>1 DEF TypeOK
<1>1. TypeOK'
  BY Zenon, <1>0 DEF TypeOK
<1>2. OffIsReset' /\ ParkedIsQuiet' /\ KeepaliveOpen'
  BY DEF OffIsReset, ParkedIsQuiet, KeepaliveOpen, TypeOK
<1>3. p.a \notin queue /\ p.b \notin queue
  BY Zenon DEF OneOwner, Paired
<1>4. QueuedIsFresh' /\ DeadIsOff'
  BY <1>3 DEF QueuedIsFresh, DeadIsOff, TypeOK
<1>5. OldestExists' /\ NoStrandedPair'
  BY Zenon DEF OldestExists, NoStrandedPair
<1>6. OneOwner'
  BY DEF OneOwner, Paired, TypeOK, Pair
<1> QED
  BY Zenon, <1>1, <1>2, <1>4, <1>5, <1>6

\* One direction of a splice ends.
LEMMA SpliceHalfInv ==
    ASSUME Inv, NEW p \in pairs, NEW x, NEW y, SpliceHalf(p, x, y)
    PROVE  Inv'
<1> USE PairerAssumption DEF PairerAssumption, Inv, SpliceHalf, Shut, offTask, pumpState
<1>1. TypeOK'
  BY Zenon DEF TypeOK, Pair
<1>2. OffIsReset' /\ ParkedIsQuiet' /\ KeepaliveOpen'
  BY Zenon DEF OffIsReset, ParkedIsQuiet, KeepaliveOpen, TypeOK
<1>3. p.a \notin queue /\ p.b \notin queue
  BY Zenon DEF OneOwner, Paired
<1>4. QueuedIsFresh' /\ DeadIsOff'
  BY SMTT(30), <1>3 DEF QueuedIsFresh, DeadIsOff, TypeOK
<1>5. OldestExists' /\ NoStrandedPair'
  BY Zenon DEF OldestExists, NoStrandedPair
<1>6. OneOwner'
  BY Zenon DEF OneOwner, Paired, TypeOK, Pair
<1> QED
  BY Zenon, <1>1, <1>2, <1>4, <1>5, <1>6

\* What a join leaves alone or sets for the leg that joins, in both cases.
LEMMA JoinLegs ==
    ASSUME Inv, NEW l \in Leg, NEW ph \in Phase, Join(l, ph)
    PROVE  OffIsReset' /\ ParkedIsQuiet' /\ KeepaliveOpen'
BY PairerAssumption
   DEF PairerAssumption, Inv, Join, OffIsReset, ParkedIsQuiet, KeepaliveOpen, TypeOK

\* A join that finds a partner: the pair leaves the queue together with the
\* corpses in front of it.
LEMMA OfferPairsInv ==
    ASSUME Inv, NEW l \in Leg, NEW ph \in Phase, Join(l, ph), OfferPairs(l, ph)
    PROVE  Inv'
<1> DEFINE x == Oldest(Partners(l, ph))
           met == {c \in dead : <<c, x>> \in ahead}
           K == queue \ ({x} \cup met)
           p == [a |-> x, b |-> l, step |-> "ackA", kind |-> Completion(phase[x], ph)]
<1>1. x \in queue
  <2>1. Partners(l, ph) \in SUBSET queue /\ Partners(l, ph) # {}
    BY Zenon DEF Partners, OfferPairs
  <2> QED
    BY Zenon, <2>1, OldestIsMember DEF Inv
<1>2. /\ queue' = K /\ ahead' = ahead \cap (K \X K)
      /\ late' = late \cap K /\ dead' = dead \cap K
      /\ phase' = [y \in Leg |-> IF y \in K THEN phase[y] ELSE "unmarked"]
      /\ pairs' = pairs \cup {p}
      /\ writable' = [y \in Leg |-> y = l \/ (writable[y] /\ y \notin met)]
      /\ ending' = ending
  BY Zenon DEF OfferPairs, Keep
<1>3. /\ pump[l] = "off" /\ ~Held(l)
      /\ pump' = [pump EXCEPT ![l] = "parked"]
      /\ client' = [client EXCEPT ![l] = "up"]
      /\ UNCHANGED <<upward, downward, buf, heard>>
  BY Zenon DEF Join
<1>4. p \in Pair
  BY Zenon, <1>1 DEF Pair, Completion, Inv, TypeOK
<1> HIDE DEF x, met, p
<1>5. TypeOK'
  BY Zenon, <1>2, <1>3, <1>4 DEF Inv, TypeOK, Phase, K
<1>6. K \subseteq queue /\ l \notin K /\ x \notin K /\ K \cap met = {}
  BY Zenon, <1>3 DEF Held, K
<1>7. OldestExists'
  BY Zenon, <1>2, <1>6, KeepOrder DEF Inv
<1>8. QueuedIsFresh' /\ DeadIsOff'
  BY <1>2, <1>3, <1>6 DEF Inv, QueuedIsFresh, DeadIsOff, TypeOK
<1>9. OneOwner'
  <2>1. p.a = x /\ p.b = l
    BY Zenon DEF p
  <2> QED
    BY Zenon, <1>2, <1>6, <2>1 DEF Inv, OneOwner, Paired
<1>10. NoStrandedPair'
  BY Zenon, <1>2, <1>6 DEF Inv, NoStrandedPair, TypeOK
<1> QED
  BY Zenon, <1>5, <1>7, <1>8, <1>9, <1>10, JoinLegs DEF Inv

\* A join that parks: nobody live suits it, and its oldest own park may go.
LEMMA OfferParksInv ==
    ASSUME Inv, NEW l \in Leg, NEW ph \in Phase, Join(l, ph), OfferParks(l, ph)
    PROVE  Inv'
<1> DEFINE own == {x \in queue \ dead : HolderOf[x] = HolderOf[l]}
           stale == IF Cardinality(own) + 1 > ParksPerMember THEN {Oldest(own)} ELSE {}
           kept == (queue \ dead) \ stale
<1>1. stale \subseteq queue
  <2>1. own = {} => stale = {}
    BY FS_EmptySet, PairerAssumption DEF PairerAssumption
  <2>2. own # {} => Oldest(own) \in own
    BY Zenon, OldestIsMember DEF Inv
  <2> QED
    BY Zenon, <2>1, <2>2
<1>2. /\ queue' = kept \cup {l}
      /\ ahead' = (ahead \cap (kept \X kept)) \cup (kept \X {l})
      /\ late' = late \cap kept /\ dead' = {}
      /\ phase' = [y \in Leg |-> IF y = l THEN ph
                                 ELSE IF y \in kept THEN phase[y] ELSE "unmarked"]
      /\ ending' = ending \cup stale /\ pairs' = pairs
      /\ writable' = [y \in Leg |-> y = l \/ (writable[y] /\ y \notin dead)]
      /\ Partners(l, ph) = {}
  BY ZenonT(30) DEF OfferParks
<1>3. /\ pump[l] = "off" /\ ~Held(l)
      /\ pump' = [pump EXCEPT ![l] = "parked"]
      /\ client' = [client EXCEPT ![l] = "up"]
      /\ UNCHANGED <<upward, downward, buf, heard>>
  BY Zenon DEF Join
<1>4. /\ kept \subseteq queue /\ kept \cap dead = {} /\ kept \cap stale = {}
      /\ l \notin queue
  BY Zenon, <1>3 DEF Held
<1> HIDE DEF stale, kept
<1>5. TypeOK'
  BY Zenon, <1>1, <1>2, <1>3, <1>4 DEF Inv, TypeOK, Phase
<1>6. OldestExists'
  <2> SUFFICES ASSUME NEW S \in SUBSET (kept \cup {l}), S # {}
               PROVE  \E x \in S : \A y \in S \ {x} : <<x, y>> \in ahead'
    BY Zenon, <1>2 DEF OldestExists
  <2>1. CASE S \cap kept = {}
    BY Zenon, <2>1
  <2>2. CASE S \cap kept # {}
    <3>1. PICK x \in S \cap kept : \A y \in (S \cap kept) \ {x} : <<x, y>> \in ahead
      BY ZenonT(30), <1>4, <2>2 DEF Inv, OldestExists
    <3> QED
      BY Zenon, <3>1, <1>2
  <2> QED
    BY Zenon, <2>1, <2>2
<1>7. QueuedIsFresh' /\ DeadIsOff'
  <2>1. \A y \in kept : y \in Leg /\ y # l /\ y \notin dead
    BY Zenon, <1>4 DEF Inv, TypeOK
  <2>2. upward[l] = "open" /\ downward[l] = "open" /\ ~buf[l]
    BY Zenon, <1>3 DEF Inv, OffIsReset
  <2>3. QueuedIsFresh'
    <3> SUFFICES ASSUME NEW y \in kept \cup {l}
                 PROVE  /\ pump'[y] # "session" /\ ~buf'[y] /\ writable'[y]
                        /\ upward'[y] # "shut" /\ downward'[y] = "open"
      BY Zenon, <1>2 DEF QueuedIsFresh
    <3>1. CASE y = l
      BY ZenonT(30), <1>2, <1>3, <2>2, <3>1 DEF Inv, TypeOK
    <3>2. CASE y \in kept
      BY Zenon, <1>2, <1>3, <1>4, <2>1, <3>2 DEF Inv, QueuedIsFresh, TypeOK
    <3> QED
      BY Zenon, <3>1, <3>2
  <2> QED
    BY Zenon, <1>2, <2>3 DEF DeadIsOff
<1>8. OneOwner'
  BY ZenonT(30), <1>1, <1>2, <1>3, <1>4 DEF Inv, OneOwner, Paired, Held
<1>9. NoStrandedPair'
  <2>1. \A x \in kept : HolderOf[x] # HolderOf[l] => ~Compatible(phase[x], ph)
    BY ZenonT(30), <1>2, <1>4 DEF Partners
  <2> QED
    BY <1>2, <1>4, <2>1 DEF Inv, NoStrandedPair, TypeOK, Compatible
<1> QED
  BY <1>5, <1>6, <1>7, <1>8, <1>9, JoinLegs DEF Inv

\* Every step keeps the invariant.
LEMMA NextInv == Inv /\ [Next]_vars => Inv'
<1> SUFFICES ASSUME Inv, [Next]_vars PROVE Inv'
  BY Zenon
<1>1. CASE \E l \in Leg : \E ph \in Phase : Join(l, ph)
  BY ZenonT(30), <1>1, OfferPairsInv, OfferParksInv DEF Join
<1>2. CASE \E l \in Leg : Expire(l) \/ EndPark(l) \/ HalfClose(l) \/ Leave(l)
  BY Zenon, <1>2, ExpireInv, EndParkInv, HalfCloseInv, LeaveInv
<1>3. CASE \E l \in Leg : PumpStep(l) \/ PumpNul(l) \/ PumpAborts(l)
  BY Zenon, <1>3, PumpEofInv, PumpReleasesInv, PumpResetInv, PumpWriteInv, PumpEndInv,
     PumpLingersInv, PumpNulInv, PumpAbortsInv
     DEF PumpStep
<1>4. CASE Reap
  BY Zenon, <1>4, ReapInv
<1>5. CASE \E p \in pairs : TaskStep(p) \/ SpliceFails(p) \/ SpliceCut(p)
  BY Zenon, <1>5, RefusePairInv, AckInv, PairEndsInv, SpliceHalfInv DEF TaskStep
<1>6. CASE UNCHANGED vars
  BY Zenon, <1>6 DEF Inv, TypeOK, OldestExists, OffIsReset, QueuedIsFresh, ParkedIsQuiet,
       KeepaliveOpen, DeadIsOff, OneOwner, Paired, NoStrandedPair, vars, pairing
<1> QED
  BY Zenon, <1>1, <1>2, <1>3, <1>4, <1>5, <1>6 DEF Next

\* The invariant holds in every reachable state.
THEOREM InvHolds == Spec => []Inv
<1>1. Init => Inv
  BY Zenon, InitInv
<1>2. Inv /\ [Next]_vars => Inv'
  BY Zenon, NextInv
<1> QED
  BY <1>1, <1>2, PTL DEF Spec

\* The variables keep their types; the corpse flags and deadlines only ever
\* concern queued legs.
THEOREM TypeCorrect == Spec => []TypeOK
BY InvHolds, PTL DEF Inv

\* Two live parks that offer would pair never wait side by side.
THEOREM NobodyStranded == Spec => []NoStrandedPair
BY InvHolds, PTL DEF Inv

\* No keepalive byte reaches a client behind a token of the member.
THEOREM CleanStart == Spec => []SessionStartsClean
<1>1. Inv => SessionStartsClean
  <2> SUFFICES ASSUME Inv, NEW l \in Leg PROVE heard[l] # "torn"
    BY Zenon DEF SessionStartsClean
  <2> QED
    BY Zenon DEF Inv, ParkedIsQuiet
<1> QED
  BY <1>1, InvHolds, PTL

\* A client that is there, half-closed or not, is never hung up on while parked,
\* and its park never just vanishes.
THEOREM LiveParksKept == Spec => LiveParkNeverLost
<1>1. ASSUME Inv, [Next]_vars, NEW l \in queue, client[l] \in {"up", "half"}
      PROVE  pump'[l] # "off" /\ l \in queue' \cup ending' \cup Paired'
  <2>0. l \in Leg /\ pump[l] = "parked" /\ l \notin dead
    BY <1>1 DEF Inv, TypeOK, OffIsReset, QueuedIsFresh, DeadIsOff
  <2>1. ASSUME NEW k \in Leg, PumpStep(k) \/ PumpNul(k) \/ PumpAborts(k)
        PROVE  pump'[l] # "off" /\ queue' = queue
    <3>1. queue' = queue
      BY Zenon, <2>1 DEF PumpStep, PumpEof, PumpReleases, PumpReset, PumpWrite, PumpEnd,
                  PumpLingers, PumpNul, PumpAborts, pairing
    <3>2. CASE k # l
      <4>1. \E v \in {pump[k], "off", "session"} : pump' = [pump EXCEPT ![k] = v]
        BY ZenonT(30), <1>1, <2>1
           DEF PumpStep, PumpEof, PumpReleases, PumpReset, PumpWrite, PumpEnd, PumpLingers,
               PumpNul, PumpAborts, UpwardEnds, PumpStops, Inv, TypeOK
      <4> QED
        BY Zenon, <1>1, <2>0, <3>1, <3>2, <4>1 DEF Inv, TypeOK
    <3>3. CASE k = l
      <4>1. ~buf[l] /\ writable[l] /\ upward[l] # "shut" /\ downward[l] = "open"
        BY ZenonT(30), <1>1 DEF Inv, QueuedIsFresh
      <4>2. (l \in Keepalive => client[l] = "up") /\ client[l] # "gone"
        BY ZenonT(30), <1>1, <2>0 DEF Inv, KeepaliveOpen
      <4>3. /\ ~PumpReleases(l) /\ ~PumpReset(l) /\ ~PumpWrite(l) /\ ~PumpEnd(l)
            /\ ~PumpLingers(l) /\ ~PumpAborts(l)
        BY Zenon, <2>0, <4>1, <4>2 DEF PumpReleases, PumpReset, PumpWrite, PumpEnd, PumpLingers,
                                PumpAborts, Held
      <4>4. ASSUME PumpEof(l) \/ PumpNul(l) PROVE pump' = pump
        BY Zenon, <2>0, <4>2, <4>4 DEF PumpEof, PumpNul, WriteMayFail
      <4> QED
        BY Zenon, <2>0, <2>1, <3>1, <3>3, <4>3, <4>4 DEF PumpStep
    <3> QED
      BY Zenon, <3>1, <3>2, <3>3
  <2>2. ASSUME NEW k \in Leg, NEW ph \in Phase, Join(k, ph)
        PROVE  pump'[l] # "off" /\ l \in queue' \cup ending' \cup Paired'
    <3>1. pump'[l] # "off"
      BY Zenon, <2>0, <2>2, <1>1 DEF Join, Inv, TypeOK
    <3>2. CASE OfferPairs(k, ph)
      <4> DEFINE x == Oldest(Partners(k, ph))
                 met == {c \in dead : <<c, x>> \in ahead}
                 p == [a |-> x, b |-> k, step |-> "ackA", kind |-> Completion(phase[x], ph)]
      <4>1. queue' = queue \ ({x} \cup met) /\ p \in pairs'
        BY Zenon, <3>2 DEF OfferPairs, Keep
      <4>2. p.a = x
        BY Zenon
      <4> HIDE DEF x, p
      <4> QED
        BY Zenon, <2>0, <3>1, <4>1, <4>2 DEF Paired
    <3>3. CASE OfferParks(k, ph)
      <4> DEFINE own == {x \in queue \ dead : HolderOf[x] = HolderOf[k]}
                 stale == IF Cardinality(own) + 1 > ParksPerMember THEN {Oldest(own)} ELSE {}
      <4>1. queue' = ((queue \ dead) \ stale) \cup {k} /\ ending' = ending \cup stale
        BY ZenonT(30), <3>3 DEF OfferParks
      <4> QED
        BY Zenon, <2>0, <3>1, <4>1
    <3> QED
      BY Zenon, <2>2, <3>1, <3>2, <3>3 DEF Join
  <2>3. ASSUME NEW k \in Leg, Expire(k) \/ EndPark(k) \/ HalfClose(k) \/ Leave(k)
        PROVE  pump' = pump /\ queue' = queue
    BY Zenon, <2>3 DEF Expire, EndPark, HalfClose, Leave, clientSteps, pairing, pumpState
  <2>4. CASE Reap
    BY ZenonT(30), <2>0, <2>4, <1>1 DEF Reap, Keep, pumpState
  <2>5. ASSUME NEW p \in pairs, TaskStep(p) \/ SpliceFails(p) \/ SpliceCut(p)
        PROVE  pump' = pump /\ queue' = queue
    BY Zenon, <2>5 DEF TaskStep, RefusePair, Ack, CloseRendezvous, SpliceEnds, SpliceHalf,
                SpliceFails, SpliceCut, offTask, pumpState
  <2>6. CASE UNCHANGED vars
    BY Zenon, <2>0, <2>6 DEF vars, pairing
  <2> QED
    BY Zenon, <1>1, <2>0, <2>1, <2>2, <2>3, <2>4, <2>5, <2>6 DEF Next
<1>2. Inv /\ [Next]_vars =>
        [\A l \in queue : client[l] \in {"up", "half"} =>
             /\ pump'[l] # "off"
             /\ l \in queue' \cup ending' \cup Paired']_vars
  BY Zenon, <1>1
<1> QED
  BY <1>2, InvHolds, PTL DEF Spec, LiveParkNeverLost

-----------------------------------------------------------------------------
(***************************************************************************)
(* Admission and the re-check sweep.                                       *)
(***************************************************************************)

\* What the edge has cached or been told as revoked is revoked.
AnswersTrue ==
    /\ known \subseteq revoked /\ hits \subseteq revoked /\ listed \subseteq revoked
    /\ \A l \in SpliceLeg :
          leg[l] = "vetting" /\ reply[l] = "no" => GrantOf[l] \in revoked

\* After a removal, a "yes" on its way was asked for before it, and the positive entry
\* runs out within a question and CACHE_TTL of it.
YesIsRecent ==
    ~member =>
        /\ pos > 0 => since + pos <= QueryTimeout + CacheTtl
        /\ \A l \in SpliceLeg : leg[l] = "asking" /\ reply[l] = "yes" => since <= age[l]

\* After a re-addition, the same of a "no" to the re-check and its negative entry.
NoIsRecent ==
    member =>
        /\ recheckNeg > 0 => since + recheckNeg <= QueryTimeout + NegTtl
        /\ sweep = "members" /\ reply[Recheck] = "no" => since <= age[Recheck]

\* The inductive invariant of the admissions and of the re-check.
SplicesInv == SplicesTypeOK /\ AnswersTrue /\ YesIsRecent /\ NoIsRecent

\* Nobody has asked and nothing is cached at first.
LEMMA SplicesInitInv == SplicesInit => SplicesInv
<1> SUFFICES ASSUME SplicesInit PROVE SplicesInv
  BY Zenon
<1> USE SplicesAssumption DEF SplicesInit
<1>1. Horizon \in 0..Horizon /\ 0 \in 0..CacheTtl /\ 0 \in 0..NegTtl /\ 0 \in 0..CleanTtl
      /\ 0 \in 0..QueryTimeout /\ ~(0 > 0)
  BY SMT DEF Horizon, SplicesAssumption
<1>2. SplicesTypeOK
  BY Zenon, <1>1 DEF SplicesTypeOK
<1>3. AnswersTrue
  BY Zenon DEF AnswersTrue
<1>4. YesIsRecent /\ NoIsRecent
  BY Zenon, <1>1 DEF YesIsRecent, NoIsRecent
<1> QED
  BY Zenon, <1>2, <1>3, <1>4 DEF SplicesInv

\* The constants and the bounds that the clocks keep to.
LEMMA SplicesBounds ==
    /\ 0 \in 0..Horizon /\ 0 \in 0..CacheTtl /\ CacheTtl \in 0..CacheTtl
    /\ 0 \in 0..NegTtl /\ NegTtl \in 0..NegTtl /\ 0 \in 0..CleanTtl
    /\ CleanTtl \in 0..CleanTtl /\ 0 \in 0..QueryTimeout
    /\ Recheck \in Asker /\ SpliceLeg \subseteq Asker /\ Recheck \notin SpliceLeg
    /\ \A l \in SpliceLeg : GrantOf[l] \in Grant
<1>1. /\ 0 \in 0..Horizon /\ 0 \in 0..CacheTtl /\ CacheTtl \in 0..CacheTtl
      /\ 0 \in 0..NegTtl /\ NegTtl \in 0..NegTtl /\ 0 \in 0..CleanTtl
      /\ CleanTtl \in 0..CleanTtl /\ 0 \in 0..QueryTimeout
  BY SMT, SplicesAssumption DEF SplicesAssumption, Horizon
<1>2. /\ Recheck \in Asker /\ SpliceLeg \subseteq Asker /\ Recheck \notin SpliceLeg
      /\ \A l \in SpliceLeg : GrantOf[l] \in Grant
  BY Zenon, SplicesAssumption DEF SplicesAssumption, Asker
<1> QED
  BY Zenon, <1>1, <1>2

\* The types that opening and closing a question keep.
LEMMA QuestionTypes ==
    ASSUME SplicesTypeOK, NEW q \in Asker, Opened(q) \/ Closed(q)
    PROVE  /\ reply' \in [Asker -> {"idle", "sent", "yes", "no"}]
           /\ age' \in [Asker -> 0..QueryTimeout]
           /\ reply'[q] \in {"idle", "sent"}
           /\ \A p \in Asker : p # q => reply'[p] = reply[p] /\ age'[p] = age[p]
<1>1. DOMAIN reply = Asker /\ DOMAIN age = Asker
  BY Zenon DEF SplicesTypeOK
<1>2. PICK r \in {"idle", "sent"} :
        reply' = [reply EXCEPT ![q] = r] /\ age' = [age EXCEPT ![q] = 0]
  BY Zenon DEF Opened, Closed
<1>3. reply' \in [Asker -> {"idle", "sent", "yes", "no"}] /\ reply'[q] = r
  BY Zenon, <1>1, <1>2 DEF SplicesTypeOK
<1>4. age' \in [Asker -> 0..QueryTimeout]
  BY Zenon, <1>1, <1>2, SplicesBounds DEF SplicesTypeOK
<1>5. \A p \in Asker : p # q => reply'[p] = reply[p] /\ age'[p] = age[p]
  BY Zenon, <1>1, <1>2
<1> QED
  BY Zenon, <1>2, <1>3, <1>4, <1>5

\* A leg that goes to a stage; the others stay where they are.
LEMMA StageTypes ==
    ASSUME SplicesTypeOK, NEW l \in SpliceLeg,
           NEW stage \in {"away", "asking", "vetting", "admitted", "live"}, Goes(l, stage)
    PROVE  /\ leg' \in [SpliceLeg -> {"away", "asking", "vetting", "admitted", "live"}]
           /\ leg'[l] = stage
           /\ \A k \in SpliceLeg : k # l => leg'[k] = leg[k]
BY Zenon DEF SplicesTypeOK, Goes

\* What resolve's second half leaves behind.
LEMMA LookUpTypes ==
    ASSUME SplicesTypeOK, NEW l \in SpliceLeg, LookUpGrant(l)
    PROVE  /\ leg' \in [SpliceLeg -> {"away", "asking", "vetting", "admitted", "live"}]
           /\ leg'[l] # "asking"
           /\ \A k \in SpliceLeg : k # l => leg'[k] = leg[k]
           /\ reply' \in [Asker -> {"idle", "sent", "yes", "no"}]
           /\ age' \in [Asker -> 0..QueryTimeout]
           /\ reply'[l] \in {"idle", "sent"}
           /\ \A p \in Asker : p # l => reply'[p] = reply[p] /\ age'[p] = age[p]
<1>1. PICK stage \in {"away", "vetting", "admitted"} : Goes(l, stage)
  BY Zenon DEF LookUpGrant
<1>2. stage \in {"away", "asking", "vetting", "admitted", "live"} /\ stage # "asking"
  BY <1>1
<1>3. Opened(l) \/ Closed(l)
  BY Zenon DEF LookUpGrant
<1>4. l \in Asker
  BY Zenon, SplicesBounds
<1> QED
  BY Zenon, <1>1, <1>2, <1>3, <1>4, StageTypes, QuestionTypes

\* What the second half of a sweep leaves behind; the grants it hits are cached as
\* revoked.
LEMMA SweepTypes ==
    ASSUME SplicesTypeOK, NEW C \in SUBSET SpliceLeg, SweepGrants(C)
    PROVE  /\ cut' \subseteq SpliceLeg /\ sweep' \in {"idle", "grants"}
           /\ hits' \subseteq known /\ asked' \subseteq Grant
           /\ listed' \in {{}, listed}
           /\ \A l \in cut' \ cut : l \in C \/ GrantOf[l] \in known
           /\ reply' \in [Asker -> {"idle", "sent", "yes", "no"}]
           /\ age' \in [Asker -> 0..QueryTimeout]
           /\ reply'[Recheck] \in {"idle", "sent"}
           /\ \A p \in Asker : p # Recheck => reply'[p] = reply[p] /\ age'[p] = age[p]
<1> DEFINE ds == {GrantOf[l] : l \in Live}
           miss == {g \in ds \ known : clean[g] = 0}
<1>1. ds \subseteq Grant /\ miss \subseteq Grant
  BY Zenon, SplicesBounds DEF Live
<1>2. Opened(Recheck) \/ Closed(Recheck)
  BY Zenon DEF SweepGrants, SweepIdle
<1>3. /\ reply' \in [Asker -> {"idle", "sent", "yes", "no"}]
      /\ age' \in [Asker -> 0..QueryTimeout]
      /\ reply'[Recheck] \in {"idle", "sent"}
      /\ \A p \in Asker : p # Recheck => reply'[p] = reply[p] /\ age'[p] = age[p]
  BY Zenon, <1>2, SplicesBounds, QuestionTypes
<1>4. /\ sweep' \in {"idle", "grants"} /\ listed' \in {{}, listed}
      /\ hits' \subseteq known /\ asked' \in {{}, miss}
      /\ cut' \in {cut \cup C, cut \cup C \cup LiveWith(ds \cap known)}
  BY Zenon DEF SweepGrants, SweepIdle
<1>5. asked' \subseteq Grant
  BY Zenon, <1>1, <1>4
<1>6. /\ cut' \subseteq SpliceLeg
      /\ \A l \in cut' \ cut : l \in C \/ GrantOf[l] \in known
  BY Zenon, <1>4 DEF SplicesTypeOK, LiveWith, Live
<1> QED
  BY Zenon, <1>3, <1>4, <1>5, <1>6

-----------------------------------------------------------------------------
\* A step of the control plane: a withdrawal leaves every open question and every
\* entry a full lifetime, and an answer tells what holds.
LEMMA ControlPlaneStep ==
    ASSUME SplicesInv,
           \/ RemoveMember \/ AddMember \/ \E g \in Grant : RevokeGrant(g)
           \/ \E q \in Asker : Answer(q)
    PROVE  SplicesInv'
<1> USE DEF SplicesInv
<1>1. CASE RemoveMember
  <2> USE <1>1 DEF RemoveMember, caches, sweeping
  <2>1. SplicesTypeOK'
    BY Zenon, SplicesBounds DEF SplicesTypeOK
  <2>2. AnswersTrue' /\ NoIsRecent'
    BY Zenon DEF AnswersTrue, NoIsRecent
  <2>3. pos \in 0..CacheTtl /\ age \in [Asker -> 0..QueryTimeout]
    BY Zenon DEF SplicesTypeOK
  <2>4. since' + pos <= QueryTimeout + CacheTtl /\ \A l \in SpliceLeg : since' <= age[l]
    BY SMT, <2>3, SplicesAssumption, SplicesBounds DEF SplicesAssumption
  <2>5. YesIsRecent'
    BY Zenon, <2>4 DEF YesIsRecent
  <2> QED
    BY Zenon, <2>1, <2>2, <2>5
<1>2. CASE AddMember
  <2> USE <1>2 DEF AddMember, caches, sweeping
  <2>1. SplicesTypeOK'
    BY Zenon, SplicesBounds DEF SplicesTypeOK
  <2>2. AnswersTrue' /\ YesIsRecent'
    BY Zenon DEF AnswersTrue, YesIsRecent
  <2>3. recheckNeg \in 0..NegTtl /\ age \in [Asker -> 0..QueryTimeout]
    BY Zenon DEF SplicesTypeOK
  <2>4. since' + recheckNeg <= QueryTimeout + NegTtl /\ since' <= age[Recheck]
    BY SMT, <2>3, SplicesAssumption, SplicesBounds DEF SplicesAssumption
  <2>5. NoIsRecent'
    BY Zenon, <2>4 DEF NoIsRecent
  <2> QED
    BY Zenon, <2>1, <2>2, <2>5
<1>3. ASSUME NEW g \in Grant, RevokeGrant(g) PROVE SplicesInv'
  <2> USE <1>3 DEF RevokeGrant, caches, sweeping
  <2>1. SplicesTypeOK'
    BY Zenon DEF SplicesTypeOK
  <2>2. AnswersTrue'
    BY Zenon DEF AnswersTrue
  <2>3. YesIsRecent' /\ NoIsRecent'
    BY Zenon DEF YesIsRecent, NoIsRecent
  <2> QED
    BY Zenon, <2>1, <2>2, <2>3
<1>4. ASSUME NEW q \in Asker, Answer(q) PROVE SplicesInv'
  <2> USE <1>4 DEF cp, caches
  <2>1. DOMAIN reply = Asker
    BY Zenon DEF SplicesTypeOK
  <2>2. /\ sweep' = sweep /\ hits' = hits /\ asked' = asked
        /\ listed' \in {listed, asked \cap revoked}
    BY Zenon DEF Answer, sweeping
  <2>3. PICK r \in {"yes", "no"} : reply' = [reply EXCEPT ![q] = r]
    BY Zenon DEF Answer, YesNo
  <2>4. /\ reply'[q] = r /\ \A p \in Asker : p # q => reply'[p] = reply[p]
        /\ reply' \in [Asker -> {"idle", "sent", "yes", "no"}]
    BY Zenon, <2>1, <2>3 DEF SplicesTypeOK
  <2>5. UNCHANGED <<member, since, revoked, pos, neg, recheckNeg, known, clean,
                    leg, age, cut>>
    BY Zenon DEF Answer
  <2>6. SplicesTypeOK'
    BY Zenon, <2>2, <2>4, <2>5 DEF SplicesTypeOK
  <2>7. CASE q = Recheck
    <3>1. \A l \in SpliceLeg : reply'[l] = reply[l]
      BY Zenon, <2>4, <2>7, SplicesBounds
    <3>2. AnswersTrue' /\ YesIsRecent'
      BY Zenon, <2>2, <2>5, <3>1 DEF AnswersTrue, YesIsRecent
    <3>3. member /\ sweep = "members" => r = "yes"
      BY Zenon, <2>4, <2>7, <2>1, SplicesBounds DEF Answer, YesNo
    <3>4. NoIsRecent'
      BY Zenon, <2>2, <2>4, <2>5, <2>7, <3>3 DEF NoIsRecent
    <3> QED
      BY Zenon, <2>6, <3>2, <3>4
  <2>8. CASE q \in SpliceLeg
    <3>1. q # Recheck /\ reply'[Recheck] = reply[Recheck]
      BY Zenon, <2>4, <2>8, SplicesBounds
    <3>2. NoIsRecent'
      BY Zenon, <2>2, <2>5, <3>1 DEF NoIsRecent
    <3>3. leg[q] = "vetting" /\ r = "no" => GrantOf[q] \in revoked
      BY Zenon, <2>4, <2>8, <2>1, <3>1 DEF Answer, YesNo
    <3>4. AnswersTrue'
      BY Zenon, <2>2, <2>4, <2>5, <3>3, SplicesBounds DEF AnswersTrue
    <3>5. leg[q] = "asking" /\ r = "yes" => member
      BY Zenon, <2>4, <2>8, <2>1, <3>1 DEF Answer, YesNo
    <3>6. YesIsRecent'
      BY Zenon, <2>4, <2>5, <3>5, SplicesBounds DEF YesIsRecent
    <3> QED
      BY Zenon, <2>6, <3>2, <3>4, <3>6
  <2> QED
    BY Zenon, <2>7, <2>8 DEF Asker
<1> QED
  BY Zenon, <1>1, <1>2, <1>3, <1>4

\* A step of the leg l alone: no answer to it is on its way afterwards unless it is
\* past admission, and the caches hold no more than they may.
LEMMA LegStep ==
    ASSUME SplicesInv, NEW l \in SpliceLeg,
           leg' \in [SpliceLeg -> {"away", "asking", "vetting", "admitted", "live"}],
           \A k \in SpliceLeg : k # l => leg'[k] = leg[k],
           reply' \in [Asker -> {"idle", "sent", "yes", "no"}],
           age' \in [Asker -> 0..QueryTimeout],
           \A p \in Asker : p # l => reply'[p] = reply[p] /\ age'[p] = age[p],
           leg'[l] \in {"asking", "vetting"} => reply'[l] \in {"idle", "sent"},
           UNCHANGED <<cp, recheckNeg, sweeping>>, cut' \subseteq cut,
           pos' \in 0..CacheTtl, neg' \in 0..NegTtl,
           ~member /\ pos' > 0 => since + pos' <= QueryTimeout + CacheTtl,
           known' \subseteq Grant, known' \subseteq revoked,
           clean' \in [Grant -> 0..CleanTtl]
    PROVE  SplicesInv'
<1> USE DEF SplicesInv, cp, sweeping
<1>1. SplicesTypeOK'
  BY Zenon DEF SplicesTypeOK
<1>2. AnswersTrue'
  <2> SUFFICES ASSUME NEW k \in SpliceLeg, leg'[k] = "vetting", reply'[k] = "no"
               PROVE  GrantOf[k] \in revoked
    BY Zenon DEF AnswersTrue
  <2>1. k # l /\ k \in Asker
    BY Zenon, SplicesBounds
  <2> QED
    BY Zenon, <2>1 DEF AnswersTrue
<1>3. YesIsRecent'
  <2> SUFFICES ASSUME ~member, NEW k \in SpliceLeg, leg'[k] = "asking", reply'[k] = "yes"
               PROVE  since <= age'[k]
    BY Zenon DEF YesIsRecent
  <2>1. k # l /\ k \in Asker
    BY Zenon, SplicesBounds
  <2> QED
    BY Zenon, <2>1 DEF YesIsRecent
<1>4. NoIsRecent'
  BY Zenon, SplicesBounds DEF NoIsRecent
<1> QED
  BY Zenon, <1>1, <1>2, <1>3, <1>4

\* What a reply of the revocation list puts into the cache.
LEMMA LearnTypes ==
    ASSUME SplicesInv, NEW G, NEW R \in SUBSET Grant, R \subseteq revoked, Learns(G, R)
    PROVE  /\ known' \subseteq Grant /\ known' \subseteq revoked
           /\ clean' \in [Grant -> 0..CleanTtl]
BY Zenon, SplicesBounds DEF SplicesInv, SplicesTypeOK, AnswersTrue, Learns

\* A step of a leg: asking, being admitted or turned away, joining and leaving.
LEMMA LegsStep ==
    ASSUME SplicesInv, NEW l \in SpliceLeg,
           Ask(l) \/ Admission(l) \/ Register(l) \/ LegEnds(l)
    PROVE  SplicesInv'
<1>0. /\ SplicesTypeOK /\ l \in Asker
      /\ pos \in 0..CacheTtl /\ neg \in 0..NegTtl
      /\ known \subseteq Grant /\ known \subseteq revoked
      /\ clean \in [Grant -> 0..CleanTtl]
      /\ ~member /\ pos > 0 => since + pos <= QueryTimeout + CacheTtl
  BY Zenon, SplicesBounds DEF SplicesInv, SplicesTypeOK, AnswersTrue, YesIsRecent
<1>1. CASE Ask(l)
  <2> USE <1>1 DEF Ask, caches
  <2>1. reply'[l] = "sent"
    BY Zenon, <1>0 DEF SplicesTypeOK, Opened
  <2> QED
    BY Zenon, <1>0, <2>1, StageTypes, QuestionTypes, LegStep
<1>2. CASE ResolveYes(l)
  <2> USE <1>2 DEF ResolveYes
  <2>1. ~member => since <= age[l]
    BY Zenon DEF SplicesInv, YesIsRecent
  <2>2. since \in 0..Horizon /\ age[l] \in 0..QueryTimeout
    BY Zenon, <1>0 DEF SplicesTypeOK
  <2>3. ~member => since + CacheTtl <= QueryTimeout + CacheTtl
    BY SMT, <2>1, <2>2, SplicesAssumption DEF SplicesAssumption, Horizon
  <2> QED
    BY Zenon, <1>0, <2>3, SplicesBounds, LookUpTypes, LegStep
<1>3. CASE ResolveNo(l)
  <2> USE <1>3 DEF ResolveNo
  <2>1. reply'[l] \in {"idle", "sent"}
    BY Zenon, <1>0, QuestionTypes
  <2>2. ~(pos' > 0)
    BY SMT
  <2> QED
    BY Zenon, <1>0, <2>1, <2>2, SplicesBounds, StageTypes, QuestionTypes, LegStep
<1>4. CASE ResolveLost(l)
  <2> USE <1>4 DEF ResolveLost, caches
  <2>1. CASE LookUpGrant(l)
    BY Zenon, <1>0, <2>1, LookUpTypes, LegStep
  <2>2. CASE Goes(l, "away") /\ Closed(l)
    BY Zenon, <1>0, <2>2, StageTypes, QuestionTypes, LegStep
  <2> QED
    BY Zenon, <2>1, <2>2
<1>5. CASE VetYes(l)
  <2> USE <1>5 DEF VetYes
  <2>1. {} \in SUBSET Grant /\ {} \subseteq revoked
    BY Zenon
  <2>2. /\ known' \subseteq Grant /\ known' \subseteq revoked
        /\ clean' \in [Grant -> 0..CleanTtl]
    BY Zenon, <2>1, LearnTypes
  <2> QED
    BY Zenon, <1>0, <2>2, StageTypes, QuestionTypes, LegStep
<1>6. CASE VetNo(l)
  <2> USE <1>6 DEF VetNo
  <2>1. {GrantOf[l]} \in SUBSET Grant /\ {GrantOf[l]} \subseteq revoked
    BY Zenon, SplicesBounds DEF SplicesInv, AnswersTrue
  <2>2. /\ known' \subseteq Grant /\ known' \subseteq revoked
        /\ clean' \in [Grant -> 0..CleanTtl]
    BY Zenon, <2>1, LearnTypes
  <2> QED
    BY Zenon, <1>0, <2>2, StageTypes, QuestionTypes, LegStep
<1>7. CASE VetLost(l)
  BY Zenon, <1>0, <1>7, StageTypes, QuestionTypes, LegStep DEF VetLost, caches
<1>8. CASE Register(l) \/ LegEnds(l)
  <2>1. PICK stage \in {"away", "live"} : Goes(l, stage)
    BY Zenon, <1>8 DEF Register, LegEnds
  <2>2. /\ stage \in {"away", "asking", "vetting", "admitted", "live"}
        /\ stage \notin {"asking", "vetting"}
    BY <2>1
  <2>3. /\ reply' \in [Asker -> {"idle", "sent", "yes", "no"}]
        /\ age' \in [Asker -> 0..QueryTimeout]
        /\ \A p \in Asker : p # l => reply'[p] = reply[p] /\ age'[p] = age[p]
        /\ cut' \subseteq cut /\ UNCHANGED <<cp, caches, sweeping>>
    BY Zenon, <1>0, <1>8 DEF Register, LegEnds, SplicesTypeOK
  <2> QED
    BY Zenon, <1>0, <2>1, <2>2, <2>3, StageTypes, LegStep DEF caches
<1> QED
  BY Zenon, <1>1, <1>2, <1>3, <1>4, <1>5, <1>6, <1>7, <1>8 DEF Admission

\* A step of the re-check that has no answer on its way afterwards.
LEMMA RecheckStep ==
    ASSUME SplicesInv, UNCHANGED <<cp, pos, neg, leg>>,
           reply' \in [Asker -> {"idle", "sent", "yes", "no"}],
           age' \in [Asker -> 0..QueryTimeout],
           \A p \in Asker : p # Recheck => reply'[p] = reply[p] /\ age'[p] = age[p],
           reply'[Recheck] \in {"idle", "sent"},
           cut' \subseteq SpliceLeg, sweep' \in {"idle", "members", "grants"},
           hits' \subseteq revoked, asked' \subseteq Grant, listed' \subseteq revoked,
           known' \subseteq revoked, clean' \in [Grant -> 0..CleanTtl],
           recheckNeg' \in 0..NegTtl,
           member /\ recheckNeg' > 0 => since + recheckNeg' <= QueryTimeout + NegTtl
    PROVE  SplicesInv'
<1> USE DEF SplicesInv, cp
<1>1. revoked \subseteq Grant
  BY Zenon DEF SplicesTypeOK
<1>2. SplicesTypeOK'
  BY Zenon, <1>1 DEF SplicesTypeOK
<1>3. \A l \in SpliceLeg : reply'[l] = reply[l] /\ age'[l] = age[l]
  BY Zenon, SplicesBounds
<1>4. AnswersTrue' /\ YesIsRecent'
  BY Zenon, <1>3 DEF AnswersTrue, YesIsRecent
<1>5. reply'[Recheck] # "no"
  BY Zenon
<1>6. NoIsRecent'
  BY Zenon, <1>5 DEF NoIsRecent
<1> QED
  BY Zenon, <1>2, <1>4, <1>6

\* A step of the re-check sweep.
LEMMA SweepStep ==
    ASSUME SplicesInv, SweepStart \/ SweepMembers \/ SweepRevoked \/ SweepUnread
    PROVE  SplicesInv'
<1>0. /\ SplicesTypeOK /\ Live \in SUBSET SpliceLeg /\ {} \in SUBSET SpliceLeg
      /\ known \subseteq revoked /\ hits \subseteq revoked /\ listed \subseteq revoked
      /\ listed \in SUBSET Grant /\ asked \subseteq Grant /\ cut \subseteq SpliceLeg
      /\ clean \in [Grant -> 0..CleanTtl] /\ recheckNeg \in 0..NegTtl
      /\ member /\ recheckNeg > 0 => since + recheckNeg <= QueryTimeout + NegTtl
  BY Zenon DEF SplicesInv, SplicesTypeOK, AnswersTrue, NoIsRecent, Live
<1>1. ASSUME NEW C \in SUBSET SpliceLeg, SweepGrants(C),
             UNCHANGED <<cp, pos, neg, known, clean, leg>>, recheckNeg' \in 0..NegTtl,
             member /\ recheckNeg' > 0 => since + recheckNeg' <= QueryTimeout + NegTtl
      PROVE  SplicesInv'
  <2>1. /\ cut' \subseteq SpliceLeg /\ sweep' \in {"idle", "members", "grants"}
        /\ hits' \subseteq revoked /\ asked' \subseteq Grant /\ listed' \subseteq revoked
    BY Zenon, <1>0, <1>1, SweepTypes
  <2> QED
    BY Zenon, <1>0, <1>1, <2>1, SweepTypes, RecheckStep
<1>2. CASE SweepStart
  <2> USE <1>2 DEF SweepStart, caches
  <2>1. CASE SweepGrants(Live)
    BY Zenon, <1>0, <1>1, <2>1
  <2>2. CASE ~SweepGrants(Live)
    <3>1. /\ sweep' = "members" /\ Opened(Recheck)
          /\ UNCHANGED <<hits, asked, listed, cut, cp, caches, leg>>
      BY Zenon, <2>2
    <3> QED
      BY Zenon, <1>0, <3>1, SplicesBounds, QuestionTypes, RecheckStep
  <2> QED
    BY Zenon, <2>1, <2>2
<1>3. CASE SweepRefused
  <2> USE <1>3 DEF SweepRefused
  <2>1. member => since <= age[Recheck]
    BY Zenon DEF SplicesInv, NoIsRecent
  <2>2. since \in 0..Horizon /\ age[Recheck] \in 0..QueryTimeout
    BY Zenon, <1>0, SplicesBounds DEF SplicesTypeOK
  <2>3. member => since + NegTtl <= QueryTimeout + NegTtl
    BY SMT, <2>1, <2>2, SplicesAssumption DEF SplicesAssumption, Horizon
  <2> QED
    BY Zenon, <1>0, <1>1, <2>3, SplicesBounds
<1>4. CASE SweepMembers /\ ~SweepRefused
  BY Zenon, <1>0, <1>1, <1>4 DEF SweepMembers, caches
<1>5. CASE SweepRevoked
  <2> USE <1>5 DEF SweepRevoked
  <2>1. known' \subseteq revoked /\ clean' \in [Grant -> 0..CleanTtl]
    BY Zenon, <1>0, LearnTypes
  <2>2. cut' \subseteq SpliceLeg
    BY Zenon, <1>0 DEF LiveWith, Live
  <2>3. /\ Closed(Recheck) /\ sweep' \in {"idle", "members", "grants"}
        /\ hits' \subseteq revoked /\ asked' \subseteq Grant /\ listed' \subseteq revoked
    BY Zenon DEF SweepIdle
  <2> QED
    BY Zenon, <1>0, <2>1, <2>2, <2>3, SplicesBounds, QuestionTypes, RecheckStep
<1>6. CASE SweepUnread
  <2> USE <1>6 DEF SweepUnread, caches
  <2>1. /\ Closed(Recheck) /\ sweep' \in {"idle", "members", "grants"}
        /\ hits' \subseteq revoked /\ asked' \subseteq Grant /\ listed' \subseteq revoked
    BY Zenon DEF SweepIdle
  <2> QED
    BY Zenon, <1>0, <2>1, SplicesBounds, QuestionTypes, RecheckStep
<1> QED
  BY Zenon, <1>2, <1>3, <1>4, <1>5, <1>6

\* A tick: an entry loses what the clock gains, and so does an open question's rest.
LEMMA SplicesTick ==
    ASSUME SplicesInv, Tick
    PROVE  SplicesInv'
<1> USE DEF SplicesInv, sweeping
<1>1. /\ since \in 0..Horizon /\ pos \in 0..CacheTtl /\ neg \in 0..NegTtl
      /\ recheckNeg \in 0..NegTtl /\ clean \in [Grant -> 0..CleanTtl]
      /\ age \in [Asker -> 0..QueryTimeout]
      /\ reply \in [Asker -> {"idle", "sent", "yes", "no"}]
  BY Zenon DEF SplicesTypeOK
<1>2. /\ since' = IF since < Horizon THEN since + 1 ELSE since
      /\ pos' = Less(pos) /\ neg' = Less(neg) /\ recheckNeg' = Less(recheckNeg)
  BY Zenon DEF Tick
<1>3. /\ since' \in 0..Horizon /\ pos' \in 0..CacheTtl /\ neg' \in 0..NegTtl
      /\ recheckNeg' \in 0..NegTtl /\ since' <= since + 1
  BY SMT, <1>1, <1>2, SplicesAssumption DEF SplicesAssumption, Less, Horizon
<1>4. \A g \in Grant : Less(clean[g]) \in 0..CleanTtl
  BY SMT, <1>1, SplicesAssumption DEF SplicesAssumption, Less
<1>5. clean' \in [Grant -> 0..CleanTtl]
  BY Zenon, <1>4 DEF Tick
<1>6. \A q \in Asker : reply[q] # "idle" => age[q] < QueryTimeout
  BY Zenon DEF Tick
<1>7. \A q \in Asker : age'[q] = IF reply[q] = "idle" THEN 0 ELSE age[q] + 1
  BY Zenon DEF Tick
<1>8. \A q \in Asker :
          /\ age'[q] \in 0..QueryTimeout
          /\ reply[q] # "idle" => age'[q] = age[q] + 1
  <2> SUFFICES ASSUME NEW q \in Asker
               PROVE  /\ age'[q] \in 0..QueryTimeout
                      /\ reply[q] # "idle" => age'[q] = age[q] + 1
    BY Zenon
  <2>1. age[q] \in 0..QueryTimeout /\ QueryTimeout \in Nat
    BY Zenon, <1>1, SplicesAssumption DEF SplicesAssumption
  <2>2. CASE reply[q] = "idle"
    BY Zenon, <1>7, <2>2, SplicesBounds
  <2>3. CASE reply[q] # "idle"
    <3>1. age'[q] = age[q] + 1 /\ age[q] < QueryTimeout
      BY Zenon, <1>6, <1>7, <2>3
    <3>2. age[q] + 1 \in 0..QueryTimeout
      BY SMT, <2>1, <3>1
    <3> QED
      BY Zenon, <3>1, <3>2
  <2> QED
    BY Zenon, <2>2, <2>3
<1>9. age' \in [Asker -> 0..QueryTimeout]
  BY Zenon, <1>8 DEF Tick
<1>10. UNCHANGED <<member, revoked, known, sweep, hits, asked, listed, leg, reply, cut>>
  BY Zenon DEF Tick
<1>11. SplicesTypeOK'
  BY Zenon, <1>3, <1>5, <1>9, <1>10 DEF SplicesTypeOK
<1>12. AnswersTrue'
  BY Zenon, <1>10 DEF AnswersTrue
<1>13. \A q \in Asker : reply[q] # "idle" /\ since <= age[q] => since' <= age'[q]
  <2> SUFFICES ASSUME NEW q \in Asker, reply[q] # "idle", since <= age[q]
               PROVE  since' <= age'[q]
    BY Zenon
  <2>1. /\ age'[q] = age[q] + 1 /\ age[q] \in 0..QueryTimeout
        /\ since \in 0..Horizon /\ since' \in 0..Horizon /\ since' <= since + 1
    BY Zenon, <1>1, <1>3, <1>8
  <2> QED
    BY SMT, <2>1, SplicesAssumption DEF SplicesAssumption, Horizon
<1>14. YesIsRecent'
  <2>1. (pos > 0 => since + pos <= QueryTimeout + CacheTtl)
            => (pos' > 0 => since' + pos' <= QueryTimeout + CacheTtl)
    BY SMT, <1>1, <1>2, SplicesAssumption DEF SplicesAssumption, Less, Horizon
  <2> QED
    BY Zenon, <1>10, <1>13, <2>1, SplicesBounds DEF YesIsRecent
<1>15. NoIsRecent'
  <2>1. (recheckNeg > 0 => since + recheckNeg <= QueryTimeout + NegTtl)
            => (recheckNeg' > 0 => since' + recheckNeg' <= QueryTimeout + NegTtl)
    BY SMT, <1>1, <1>2, SplicesAssumption DEF SplicesAssumption, Less, Horizon
  <2> QED
    BY Zenon, <1>10, <1>13, <2>1, SplicesBounds DEF NoIsRecent
<1> QED
  BY Zenon, <1>11, <1>12, <1>14, <1>15

-----------------------------------------------------------------------------
\* SplicesInv is inductive.
LEMMA SplicesInvStep == SplicesInv /\ [SplicesNext]_spliceVars => SplicesInv'
<1> SUFFICES ASSUME SplicesInv, [SplicesNext]_spliceVars PROVE SplicesInv'
  BY Zenon
<1>1. CASE UNCHANGED spliceVars
  BY Zenon, <1>1 DEF spliceVars, cp, caches, sweeping, SplicesInv, SplicesTypeOK,
                     AnswersTrue, YesIsRecent, NoIsRecent
<1>2. CASE SplicesNext
  BY Zenon, <1>2, ControlPlaneStep, LegsStep, SweepStep, SplicesTick DEF SplicesNext
<1> QED
  BY Zenon, <1>1, <1>2

\* The invariant of the admissions and of the re-check, for every set of legs and
\* grants and every lifetime of the caches.
THEOREM SplicesInvariant == SplicesSpec => []SplicesInv
BY SplicesInitInv, SplicesInvStep, PTL DEF SplicesSpec

\* A step that takes a leg past resolve takes it on an answer or on the positive
\* entry, and neither is older than QueryTimeout and CACHE_TTL.
LEMMA PassedIsRecent ==
    ASSUME SplicesInv, [SplicesNext]_spliceVars, NEW l \in SpliceLeg,
           leg[l] = "asking", leg'[l] \in {"vetting", "admitted"}, ~member
    PROVE  since <= QueryTimeout + CacheTtl
<1>1. leg'[l] # leg[l]
  BY Zenon
<1>2. DOMAIN leg = SpliceLeg
  BY Zenon DEF SplicesInv, SplicesTypeOK
<1>3. /\ since \in 0..Horizon /\ pos \in 0..CacheTtl /\ age[l] \in 0..QueryTimeout
      /\ QueryTimeout \in Nat /\ CacheTtl \in Nat
  BY Zenon, SplicesBounds, SplicesAssumption
     DEF SplicesInv, SplicesTypeOK, SplicesAssumption
<1>4. ResolveYes(l) \/ (ResolveLost(l) /\ pos > 0)
  <2>1. ASSUME NEW k \in SpliceLeg, Ask(k) \/ Admission(k) \/ Register(k) \/ LegEnds(k)
        PROVE  ResolveYes(l) \/ (ResolveLost(l) /\ pos > 0)
    <3>1. PICK stage : leg' = [leg EXCEPT ![k] = stage]
      BY Zenon, <2>1 DEF Ask, Admission, Register, LegEnds, ResolveYes, ResolveNo,
                         ResolveLost, VetYes, VetNo, VetLost, LookUpGrant, Goes
    <3>2. k = l
      BY Zenon, <1>1, <1>2, <3>1
    <3>3. leg' # [leg EXCEPT ![l] = "away"]
      BY Zenon, <1>2
    <3> QED
      BY Zenon, <2>1, <3>2, <3>3
         DEF Ask, Admission, Register, LegEnds, ResolveNo, ResolveLost, VetYes, VetNo,
             VetLost, Goes
  <2>2. CASE UNCHANGED leg
    BY Zenon, <1>1, <2>2
  <2> QED
    BY Zenon, <2>1, <2>2
       DEF SplicesNext, spliceVars, RemoveMember, AddMember, RevokeGrant, Answer,
           SweepStart, SweepMembers, SweepRefused, SweepRevoked, SweepUnread, Tick
<1>5. CASE ResolveYes(l)
  <2>1. since <= age[l]
    BY Zenon, <1>5 DEF ResolveYes, SplicesInv, YesIsRecent
  <2> QED
    BY SMT, <1>3, <2>1 DEF Horizon
<1>6. CASE pos > 0
  <2>1. since + pos <= QueryTimeout + CacheTtl
    BY Zenon, <1>6 DEF SplicesInv, YesIsRecent
  <2> QED
    BY SMT, <1>3, <2>1, SplicesAssumption DEF Horizon, SplicesAssumption
<1> QED
  BY Zenon, <1>4, <1>5, <1>6

\* resolve: for every QueryTimeout and CACHE_TTL, a removed member passes only within
\* their sum of its removal, however its questions and their losses interleave.
THEOREM RemovedMemberLockedOut == SplicesSpec => StaleYesBounded
<1>1. SplicesInv /\ [SplicesNext]_spliceVars
          => [\A l \in SpliceLeg :
                (leg[l] = "asking" /\ leg'[l] \in {"vetting", "admitted"} /\ ~member)
                    => since <= QueryTimeout + CacheTtl]_spliceVars
  BY Zenon, PassedIsRecent
<1> QED
  BY <1>1, SplicesInvariant, PTL DEF SplicesSpec, StaleYesBounded

\* A step that signals a leg has a reason for it.
LEMMA CutHasReason ==
    ASSUME SplicesInv, [SplicesNext]_spliceVars, NEW l \in cut' \ cut
    PROVE  GrantOf[l] \in revoked \/ ~member \/ since <= QueryTimeout + NegTtl
<1>1. SweepStart \/ SweepMembers \/ SweepRevoked
  <2>1. \A k \in SpliceLeg :
            Ask(k) \/ Admission(k) \/ Register(k) \/ LegEnds(k) => cut' \subseteq cut
    BY Zenon DEF Ask, Admission, Register, LegEnds, ResolveYes, ResolveNo, ResolveLost,
                 VetYes, VetNo, VetLost
  <2> QED
    BY Zenon, <2>1 DEF SplicesNext, spliceVars, RemoveMember, AddMember, RevokeGrant,
                       Answer, SweepUnread, Tick
<1>2. /\ SplicesTypeOK /\ Live \in SUBSET SpliceLeg /\ {} \in SUBSET SpliceLeg
      /\ known \subseteq revoked /\ hits \subseteq revoked /\ listed \subseteq revoked
  BY Zenon DEF SplicesInv, SplicesTypeOK, AnswersTrue, Live
<1>3. /\ since \in 0..Horizon /\ recheckNeg \in 0..NegTtl /\ age[Recheck] \in 0..QueryTimeout
      /\ QueryTimeout \in Nat /\ NegTtl \in Nat /\ CacheTtl \in Nat
  BY Zenon, SplicesBounds, SplicesAssumption
     DEF SplicesInv, SplicesTypeOK, SplicesAssumption
<1>4. CASE SweepStart
  <2>1. SweepGrants(Live) /\ recheckNeg > 0
    BY Zenon, <1>4 DEF SweepStart
  <2>2. member => since + recheckNeg <= QueryTimeout + NegTtl
    BY Zenon, <2>1 DEF SplicesInv, NoIsRecent
  <2>3. member => since <= QueryTimeout + NegTtl
    BY SMT, <1>3, <2>2 DEF Horizon
  <2> QED
    BY Zenon, <2>3
<1>5. CASE SweepRefused
  <2>1. member => since <= age[Recheck]
    BY Zenon, <1>5 DEF SweepRefused, SplicesInv, NoIsRecent
  <2>2. member => since <= QueryTimeout + NegTtl
    BY SMT, <1>3, <2>1 DEF Horizon
  <2> QED
    BY Zenon, <2>2
<1>6. CASE SweepMembers /\ ~SweepRefused
  <2>1. SweepGrants({})
    BY Zenon, <1>6 DEF SweepMembers
  <2> QED
    BY Zenon, <1>2, <2>1, SweepTypes
<1>7. CASE SweepRevoked
  BY Zenon, <1>2, <1>7 DEF SweepRevoked, LiveWith
<1> QED
  BY Zenon, <1>1, <1>4, <1>5, <1>6, <1>7

\* sweep_live_splice_memberships: for every lifetime of the re-check's entry, a call
\* is cut for a revoked grant or a membership that is, or just was, withdrawn; never
\* because the control plane did not answer.
THEOREM OutageCutsNoCall == SplicesSpec => HealthyCallKept
<1>1. SplicesInv /\ [SplicesNext]_spliceVars
          => [\A l \in cut' \ cut :
                \/ GrantOf[l] \in revoked
                \/ ~member
                \/ since <= QueryTimeout + NegTtl]_spliceVars
  <2> SUFFICES ASSUME SplicesInv, [SplicesNext]_spliceVars, NEW l \in cut' \ cut
               PROVE  GrantOf[l] \in revoked \/ ~member \/ since <= QueryTimeout + NegTtl
    BY Zenon
  <2> QED
    BY Zenon, CutHasReason
<1> QED
  BY <1>1, SplicesInvariant, PTL DEF SplicesSpec, HealthyCallKept
=============================================================================
