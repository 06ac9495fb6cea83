--------------------------- MODULE ChannelPairer ---------------------------
(***************************************************************************)
(* The channel front door of the edge: members of one channel arrive over  *)
(* `:443` one by one, are parked until a different holder of the channel   *)
(* arrives, and are then acknowledged and spliced together                 *)
(* (src/crates/edge/src/channel_broker.rs).                                *)
(*                                                                         *)
(* A leg is one connection of one holder.  Behind every leg stand          *)
(*   - its client, which may half-close, exit or be reset at any moment;   *)
(*   - its park pump, the task that owns the real connection, keeps a      *)
(*     parked leg alive and watches for the client's death;                *)
(*   - the admitted member, owned by the pairer while parked, by the       *)
(*     completion task once paired, by an end-of-park task otherwise.      *)
(* The member and the pump are joined by an in-memory duplex: `buf` says   *)
(* that a token (`OK`, `EX` or `NO`) is written and not yet read, and      *)
(* `writable` that the member's write half is still open.                  *)
(*                                                                         *)
(* One channel is modelled: the pairer keeps one queue per channel and     *)
(* neither offer nor drain_expired reads another channel's queue.  The     *)
(* queue is the set of parked legs with the arrival order as a relation.   *)
(* A park's TTL is some finite time: its deadline may pass at any moment.  *)
(* A leg that has been torn down completely may join again.                *)
(***************************************************************************)
EXTENDS Naturals, FiniteSets

CONSTANTS
    Leg,             \* connections of the channel's members
    HolderOf,        \* the holder each leg's grant is bound to
    Phases,          \* the phases each leg's client may mark its join with
    Keepalive,       \* legs whose client negotiated the keepalive ALPN
    ParksPerMember   \* parks one holder may hold in the queue

Phase == {"rendezvous", "relay", "unmarked"}

ASSUME PairerAssumption ==
    /\ Keepalive \subseteq Leg
    /\ \A l \in Leg : Phases[l] \subseteq Phase
    /\ ParksPerMember \in Nat \ {0}

VARIABLES
    queue,     \* legs parked in the pairer
    ahead,     \* <<x, y>>: park x arrived before park y
    phase,     \* the phase a parked leg's join declared
    late,      \* parks whose deadline has passed
    dead,      \* parks whose corpse flag (ParkLiveness) is set
    pairs,     \* completion tasks: [a, b, kind, step]
    ending,    \* legs handed to notify_park_expired / notify_park_superseded
    client,    \* "none", "up", "half" (write side closed), "gone"
    pump,      \* "off", "parked", "session"
    upward,    \* client -> member: "open", "held" (EOF seen while parked), "shut"
    downward,  \* member -> client: "open", "shut"
    buf,       \* an unread token is in the duplex
    writable,  \* the member's write half of the duplex is open
    heard      \* what reached the client: "nothing" (NULs aside), a "token", or
               \* "torn": a keepalive NUL behind a token

pairing == <<queue, ahead, phase, late, pairs, ending>>
vars == <<pairing, dead, client, pump, upward, downward, buf, writable, heard>>

Pair == [a : Leg, b : Leg, kind : {"splice", "close"},
         step : {"ackA", "ackB", "splice", "close"}]

TypeOK ==
    /\ queue \subseteq Leg /\ ending \subseteq Leg
    /\ ahead \subseteq queue \X queue
    /\ late \subseteq queue /\ dead \subseteq queue
    /\ phase \in [Leg -> Phase]
    /\ pairs \subseteq Pair
    /\ client \in [Leg -> {"none", "up", "half", "gone"}]
    /\ pump \in [Leg -> {"off", "parked", "session"}]
    /\ upward \in [Leg -> {"open", "held", "shut"}]
    /\ downward \in [Leg -> {"open", "shut"}]
    /\ buf \in [Leg -> BOOLEAN]
    /\ writable \in [Leg -> BOOLEAN]
    /\ heard \in [Leg -> {"nothing", "token", "torn"}]

Init ==
    /\ queue = {} /\ ahead = {} /\ late = {} /\ dead = {} /\ pairs = {} /\ ending = {}
    /\ phase = [l \in Leg |-> "unmarked"]
    /\ client = [l \in Leg |-> "none"]
    /\ pump = [l \in Leg |-> "off"]
    /\ upward = [l \in Leg |-> "open"]
    /\ downward = [l \in Leg |-> "open"]
    /\ buf = [l \in Leg |-> FALSE]
    /\ writable = [l \in Leg |-> FALSE]
    /\ heard = [l \in Leg |-> "nothing"]

(***************************************************************************)
(* The pairer.                                                             *)
(***************************************************************************)

\* ParkPhase::compatible: equal phases, or either side unmarked.
Compatible(p, q) == p = q \/ p = "unmarked" \/ q = "unmarked"

\* completion_for.
Completion(p, q) == IF p = "rendezvous" /\ q = "rendezvous" THEN "close" ELSE "splice"

Paired == {p.a : p \in pairs} \cup {p.b : p \in pairs}

\* Some task or the queue still owns the leg's member, and with it the permit.
Held(l) == l \in queue \cup ending \cup Paired

Oldest(S) == CHOOSE x \in S : \A y \in S \ {x} : <<x, y>> \in ahead

\* The queue keeps only the parks of K, in their order.
Keep(K) ==
    /\ queue' = K
    /\ ahead' = ahead \cap (K \X K)
    /\ late' = late \cap K
    /\ dead' = dead \cap K
    /\ phase' = [l \in Leg |-> IF l \in K THEN phase[l] ELSE "unmarked"]

\* Mutant: only the front of the queue is considered, as before phases existed.
MutPartners(l, ph) ==
    {x \in queue \ dead : /\ x = Oldest(queue \ dead)
                          /\ HolderOf[x] # HolderOf[l] /\ Compatible(phase[x], ph)}

\* The live parks of another holder whose phase suits a join of l in phase ph.
Partners(l, ph) ==
    {x \in queue \ dead : HolderOf[x] # HolderOf[l] /\ Compatible(phase[x], ph)}

\* offer, a partner waits: the corpses passed on the way to the oldest partner
\* are dropped, the partner leaves the queue and a completion task starts.
OfferPairs(l, ph) ==
    /\ Partners(l, ph) # {}
    /\ LET x == Oldest(Partners(l, ph))
           met == {c \in dead : <<c, x>> \in ahead}
       IN  /\ Keep(queue \ ({x} \cup met))
           /\ pairs' = pairs \cup {[a |-> x, b |-> l, step |-> "ackA",
                                   kind |-> Completion(phase[x], ph)]}
           /\ writable' = [y \in Leg |-> y = l \/ (writable[y] /\ y \notin met)]
    /\ UNCHANGED ending

\* offer, nobody suits: every corpse was dropped on the way, the leg is queued
\* last, and past the holder's cap its oldest park is superseded.
OfferParks(l, ph) ==
    /\ Partners(l, ph) = {}
    /\ LET live  == queue \ dead
           own   == {x \in live : HolderOf[x] = HolderOf[l]}
           stale == IF Cardinality(own) + 1 > ParksPerMember
                    THEN {Oldest(own)} ELSE {}
           kept  == live \ stale
       IN  /\ queue' = kept \cup {l}
           /\ ahead' = (ahead \cap (kept \X kept)) \cup (kept \X {l})
           /\ late' = late \cap kept
           /\ dead' = {}
           /\ phase' = [y \in Leg |-> IF y = l THEN ph
                                      ELSE IF y \in kept THEN phase[y] ELSE "unmarked"]
           /\ ending' = ending \cup stale
    /\ writable' = [y \in Leg |-> y = l \/ (writable[y] /\ y \notin dead)]
    /\ UNCHANGED pairs

\* admit_and_pair_on_boxed_stream: the client is admitted in a phase, its pump
\* is started and the member is offered.
Join(l, ph) ==
    /\ pump[l] = "off" /\ ~Held(l)
    /\ ph \in Phases[l]
    /\ OfferPairs(l, ph) \/ OfferParks(l, ph)
    /\ client' = [client EXCEPT ![l] = "up"]
    /\ pump' = [pump EXCEPT ![l] = "parked"]
    /\ UNCHANGED <<upward, downward, buf, heard>>

\* A token written to the duplex; without a pump at its far end the write fails.
Sends(L) == buf' = [l \in Leg |-> buf[l] \/ (l \in L /\ pump[l] # "off")]

\* The member's write half is shut, or the member is dropped.
Shut(L) == writable' = [l \in Leg |-> l \notin L /\ writable[l]]

pumpState == <<client, pump, upward, downward, heard>>

\* The reaper's drain_expired: corpses are dropped without a word, expired parks
\* go to notify_park_expired.
Reap ==
    /\ dead \cup late # {}
    /\ Keep(queue \ (dead \cup late))
    /\ ending' = ending \cup (late \ dead)
    /\ Shut(dead)
    /\ UNCHANGED <<pairs, buf, pumpState>>

\* The deadline of a park passes.
Expire(l) ==
    /\ l \in queue \ late
    /\ late' = late \cup {l}
    /\ UNCHANGED <<queue, ahead, phase, pairs, ending, dead, buf, writable, pumpState>>

\* end_park: `EX`, then a graceful close.
EndPark(l) ==
    /\ l \in ending
    /\ ending' = ending \ {l}
    /\ Sends({l})
    /\ Shut({l})
    /\ UNCHANGED <<queue, ahead, phase, late, pairs, dead, pumpState>>

(***************************************************************************)
(* finish_stream_pair_inner, the completion task of a pair.                *)
(***************************************************************************)

Step(p, s) == pairs' = (pairs \ {p}) \cup {[p EXCEPT !.step = s]}
Finish(p)  == pairs' = pairs \ {p} /\ Shut({p.a, p.b})

offTask == <<queue, ahead, phase, late, ending, dead, pumpState>>

\* authorize_channel_pair refuses (a grant has expired meanwhile, the directions
\* do not fit): `NO pairing` to both.
RefusePair(p) ==
    /\ p.step = "ackA"
    /\ Sends({p.a, p.b})
    /\ Finish(p)
    /\ UNCHANGED offTask

\* The acks, side A first; a side whose pump is gone fails the handoff and both
\* members are dropped.
Ack(p) ==
    LET l == IF p.step = "ackA" THEN p.a ELSE p.b
    IN  /\ p.step \in {"ackA", "ackB"}
        /\ \/ /\ pump[l] # "off"
              /\ Sends({l})
              /\ Step(p, IF p.step = "ackA" THEN "ackB" ELSE p.kind)
              /\ UNCHANGED writable
           \/ /\ pump[l] = "off"
              /\ Finish(p)
              /\ UNCHANGED buf
        /\ UNCHANGED offTask

\* RendezvousClose: both streams are closed gracefully after the acks.
CloseRendezvous(p) ==
    /\ p.step = "close"
    /\ Finish(p)
    /\ UNCHANGED <<offTask, buf>>

\* The member's read half of l's duplex is at EOF.
AtEof(l) == pump[l] = "off" \/ upward[l] = "shut"

\* pump_dir of the splice, one direction: EOF from x shuts the write half to y.
SpliceHalf(p, x, y) ==
    /\ p.step = "splice" /\ {x, y} = {p.a, p.b} /\ x # y
    /\ AtEof(x) /\ writable[y]
    /\ Shut({y})
    /\ UNCHANGED <<offTask, pairs, buf>>

\* The splice is over: both directions have ended, a write to a leg that is gone
\* failed, or the membership re-check cut it.
SpliceEnds(p) ==
    /\ p.step = "splice" /\ ~writable[p.a] /\ ~writable[p.b]
    /\ Finish(p)
    /\ UNCHANGED <<offTask, buf>>

SpliceFails(p) ==
    /\ p.step = "splice" /\ \E l \in {p.a, p.b} : pump[l] = "off"
    /\ Finish(p)
    /\ UNCHANGED <<offTask, buf>>

SpliceCut(p) ==
    /\ p.step = "splice"
    /\ Finish(p)
    /\ UNCHANGED <<offTask, buf>>

(***************************************************************************)
(* The clients.  A plain client may half-close right after its join; a     *)
(* keepalive client keeps a parked leg fully open.                         *)
(***************************************************************************)

clientSteps == <<pairing, dead, pump, upward, downward, buf, writable, heard>>

HalfClose(l) ==
    /\ client[l] = "up" /\ (l \notin Keepalive \/ heard[l] # "nothing")
    /\ client' = [client EXCEPT ![l] = "half"]
    /\ UNCHANGED clientSteps

\* The client closes its connection, crashes or loses its network.
Leave(l) ==
    /\ client[l] \in {"up", "half"}
    /\ client' = [client EXCEPT ![l] = "gone"]
    /\ UNCHANGED clientSteps

(***************************************************************************)
(* spawn_park_keepalive_pump.                                              *)
(***************************************************************************)

\* The pump returns: the real connection is closed, the duplex loses its far end.
PumpStops(l) ==
    /\ pump' = [pump EXCEPT ![l] = "off"]
    /\ client' = [client EXCEPT ![l] = "none"]
    /\ upward' = [upward EXCEPT ![l] = "open"]
    /\ downward' = [downward EXCEPT ![l] = "open"]
    /\ buf' = [buf EXCEPT ![l] = FALSE]
    /\ heard' = [heard EXCEPT ![l] = "nothing"]

\* The corpse flag; once the park has left the queue nobody reads it.
Flags(l) == dead' = dead \cup ({l} \cap queue)

\* client_to_splice is done with a half-close; the last direction ends the pump.
UpwardEnds(l) ==
    /\ \/ downward[l] = "shut" /\ PumpStops(l)
       \/ /\ downward[l] = "open"
          /\ upward' = [upward EXCEPT ![l] = "shut"]
          /\ UNCHANGED <<pump, client, downward, buf, heard>>
    /\ UNCHANGED dead

\* Mutant: any EOF while parked is taken for a death.
MutPumpEof(l) ==
    /\ pump[l] # "off" /\ upward[l] = "open" /\ client[l] \in {"half", "gone"}
    /\ \/ pump[l] = "parked" /\ Flags(l) /\ PumpStops(l)
       \/ pump[l] = "session" /\ UpwardEnds(l)
    /\ UNCHANGED <<pairing, writable>>

\* A read of the client returned EOF: death on a parked keepalive leg, otherwise a
\* half-close, which is not passed on before the park has ended.
PumpEof(l) ==
    /\ pump[l] # "off" /\ upward[l] = "open" /\ client[l] \in {"half", "gone"}
    /\ \/ pump[l] = "parked" /\ l \in Keepalive /\ Flags(l) /\ PumpStops(l)
       \/ /\ pump[l] = "parked" /\ l \notin Keepalive
          /\ upward' = [upward EXCEPT ![l] = "held"]
          /\ UNCHANGED <<dead, pump, client, downward, buf, heard>>
       \/ pump[l] = "session" /\ UpwardEnds(l)
    /\ UNCHANGED <<pairing, writable>>

\* The half-close seen while parked is passed on once the park has ended.
PumpReleases(l) ==
    /\ pump[l] = "session" /\ upward[l] = "held"
    /\ UpwardEnds(l)
    /\ UNCHANGED <<pairing, writable>>

\* A read of the client failed: a reset, where a clean exit would be an EOF.
PumpReset(l) ==
    /\ pump[l] # "off" /\ upward[l] = "open" /\ client[l] = "gone"
    /\ IF pump[l] = "parked" THEN Flags(l) ELSE UNCHANGED dead
    /\ PumpStops(l)
    /\ UNCHANGED <<pairing, writable>>

\* A write to a client that has left may still be buffered by the kernel.
WriteMayFail(l) == client[l] = "gone"

\* Data of the client found no member to take it any more.
PumpAborts(l) ==
    /\ pump[l] # "off" /\ upward[l] = "open" /\ client[l] = "up" /\ ~Held(l)
    /\ PumpStops(l)
    /\ UNCHANGED <<pairing, dead, writable>>

\* Mutant: the token does not end the parked phase.
MutPumpWrite(l) ==
    /\ pump[l] # "off" /\ downward[l] = "open" /\ buf[l]
    /\ \/ /\ heard' = [heard EXCEPT ![l] = "token"]
          /\ buf' = [buf EXCEPT ![l] = FALSE]
          /\ UNCHANGED <<client, pump, upward, downward>>
       \/ WriteMayFail(l) /\ PumpStops(l)
    /\ UNCHANGED <<pairing, dead, writable>>

\* The first token ends the parked phase for good and is written to the client.
PumpWrite(l) ==
    /\ pump[l] # "off" /\ downward[l] = "open" /\ buf[l]
    /\ \/ /\ pump' = [pump EXCEPT ![l] = "session"]
          /\ heard' = [heard EXCEPT ![l] = "token"]
          /\ buf' = [buf EXCEPT ![l] = FALSE]
          /\ UNCHANGED <<client, upward, downward>>
       \/ WriteMayFail(l) /\ PumpStops(l)
    /\ UNCHANGED <<pairing, dead, writable>>

\* The duplex is at EOF: a parked leg is over, a session's leg is half-closed.
PumpEnd(l) ==
    /\ pump[l] # "off" /\ downward[l] = "open" /\ ~buf[l] /\ ~writable[l]
    /\ \/ (pump[l] = "parked" \/ upward[l] = "shut") /\ PumpStops(l)
       \/ /\ pump[l] = "session" /\ upward[l] # "shut"
          /\ downward' = [downward EXCEPT ![l] = "shut"]
          /\ UNCHANGED <<client, pump, upward, buf, heard>>
    /\ UNCHANGED <<pairing, dead, writable>>

\* The keepalive tick of a parked leg; a failed write is a corpse as well.
PumpNul(l) ==
    /\ pump[l] = "parked" /\ l \in Keepalive
    /\ \/ /\ heard' = [heard EXCEPT ![l] = IF @ = "nothing" THEN @ ELSE "torn"]
          /\ UNCHANGED <<dead, client, pump, upward, downward, buf>>
       \/ WriteMayFail(l) /\ Flags(l) /\ PumpStops(l)
    /\ UNCHANGED <<pairing, writable>>

\* Mutant: the linger is armed by the client's half-close only.
MutPumpLingers(l) ==
    /\ pump[l] # "off" /\ upward[l] = "shut"
    /\ PumpStops(l)
    /\ UNCHANGED <<pairing, dead, writable>>

\* PARK_HALF_CLOSE_LINGER of silence on a half-closed leg.
PumpLingers(l) ==
    /\ pump[l] # "off" /\ (upward[l] = "shut" \/ downward[l] = "shut")
    /\ PumpStops(l)
    /\ UNCHANGED <<pairing, dead, writable>>

(***************************************************************************)
(* The specification.                                                      *)
(***************************************************************************)

PumpStep(l) ==
    PumpEof(l) \/ PumpReleases(l) \/ PumpReset(l) \/ PumpWrite(l) \/ PumpEnd(l)
        \/ PumpLingers(l)

\* The steps of a completion task that do not wait for its clients.
TaskStep(p) ==
    \/ RefusePair(p) \/ Ack(p) \/ CloseRendezvous(p) \/ SpliceEnds(p)
    \/ SpliceHalf(p, p.a, p.b) \/ SpliceHalf(p, p.b, p.a)

Next ==
    \/ \E l \in Leg : \/ \E ph \in Phase : Join(l, ph)
                      \/ Expire(l) \/ EndPark(l) \/ HalfClose(l) \/ Leave(l)
                      \/ PumpStep(l) \/ PumpNul(l) \/ PumpAborts(l)
    \/ Reap
    \/ \E p \in pairs : TaskStep(p) \/ SpliceFails(p) \/ SpliceCut(p)

Spec == Init /\ [][Next]_vars

\* Fairness: spawned tasks (pumps, completions, end-of-park notifications) run,
\* the reaper's interval fires and the clock advances.  Nothing is assumed of the
\* clients.
FairSpec ==
    /\ Spec
    /\ WF_vars(Reap)
    /\ \A l \in Leg : WF_vars(Expire(l)) /\ WF_vars(EndPark(l)) /\ WF_vars(PumpStep(l))
    /\ \A l \in Leg : WF_vars(\E p \in pairs : l = p.a /\ TaskStep(p))

(***************************************************************************)
(* Properties.                                                             *)
(***************************************************************************)

\* offer pairs every arrival with a live, phase-compatible park of another
\* holder, so two such parks never wait side by side, whatever order joins,
\* deaths, reaps and supersedes came in.
NoStrandedPair ==
    \A x, y \in queue :
        (x \notin dead /\ y \notin dead /\ HolderOf[x] # HolderOf[y])
            => ~Compatible(phase[x], phase[y])

\* A client that is alive, half-closed ones included, never has its park taken
\* for a corpse: the pump does not hang up on it while it is queued, and it only
\* leaves the queue paired or with an end-of-park notification
\* (the #499 false-positive regression).
LiveParkNeverLost ==
    [][\A l \in queue :
          client[l] \in {"up", "half"} =>
              /\ pump'[l] # "off"
              /\ l \in queue' \cup ending' \cup Paired']_vars

\* No keepalive NUL reaches a client after the ack, `EX` or `NO` has: the pump
\* ends the parked phase with the first token (spawn_park_keepalive_pump).
SessionStartsClean == \A l \in Leg : heard[l] # "torn"

\* Every leg keeps returning to one of two conditions: fully torn down, its permit
\* with it, or inside a running splice.  No client is parked, acknowledged by
\* half a handoff or half-closed for ever.
NoLimbo ==
    \A l \in Leg :
        []<>(\/ client[l] = "none" /\ ~Held(l)
             \/ \E p \in pairs : p.step = "splice" /\ l \in {p.a, p.b})
=============================================================================
