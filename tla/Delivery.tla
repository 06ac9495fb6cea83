------------------------------ MODULE Delivery ------------------------------
(***************************************************************************)
(* Protocol v2 of an A2A session: noise_pump_v2 in                         *)
(* crates/common/src/delivery.rs, run by both ends over a path a relay may *)
(* cut or black-hole. Each pump is one task of three futures: outbound     *)
(* owns the transport's write side, inbound its read side, the watchdog    *)
(* bounds the wait for the FIN_ACK; they meet only in shared flags and in  *)
(* the to_outbound queue. A write is two steps, since the peer can read a  *)
(* record before the writer's flush returns and its counters are updated.  *)
(* Bytes are counted in records, time in ticks of the PROGRESS interval.   *)
(***************************************************************************)
EXTENDS Integers, Sequences

CONSTANTS
    Side,        \* the two ends
    MaxSend,     \* bound: records of local input, per side
    Capacity,    \* records the path buffers per direction
    Idle,        \* fin_ack_idle
    Patience     \* ticks one local delivery may take on a healthy session

Every == IF Idle \div 4 > 1 THEN Idle \div 4 ELSE 1   \* progress_every

ASSUME DeliveryAssumption ==
    /\ \E s, p \in Side : s # p /\ Side = {s, p}
    /\ MaxSend \in [Side -> Nat]
    /\ Capacity \in Nat \ {0}
    /\ Idle \in Nat \ {0}
    /\ Patience \in Nat /\ Patience + Every < Idle

VARIABLES
    sent,         \* sent, sent_total: records flushed to the transport
    finSent,      \* fin_sent
    localOpen,    \* local_open: the local input has not ended
    finAckOut,    \* fin_ack_out
    reported,     \* reported: the last PROGRESS count
    due,          \* ticks until the next PROGRESS tick
    writing,      \* the record in write_record, "put" or waiting for its flush
    toOutbound,   \* to_outbound
    received,     \* received, received_total
    theirFin,     \* their_fin, peer_fin
    confirmed,    \* our_fin_confirmed, confirmed
    delivering,   \* what inbound awaits of its local side
    quiet,        \* ticks since max(fin_out_at, last_record_at)
    stall,        \* ticks the delivery in hand has taken
    outcome,      \* what the pump returned
    wire,         \* records of each side on the path
    path          \* "up", "slow" (up, but not keeping up with the clock),
                  \* "cut" (the reader sees an end) or "hole" (silence)

outVars == <<sent, finSent, localOpen, finAckOut, reported, due, writing>>
inVars == <<received, theirFin, confirmed, delivering, stall>>
vars == <<outVars, inVars, toOutbound, quiet, outcome, wire, path>>

Peer(s) == CHOOSE p \in Side : p # s

(* A DATA record's n stands for its payload, the place of its bytes in the *)
(* stream; no end looks at it.                                             *)
Data(n) == [tag |-> "DATA", n |-> n, normal |-> TRUE]
Fin(n) == [tag |-> "FIN", n |-> n, normal |-> TRUE]
AbortFin(n) == [tag |-> "FIN", n |-> n, normal |-> FALSE]
FinAck(n) == [tag |-> "FIN_ACK", n |-> n, normal |-> TRUE]
Progress(n) == [tag |-> "PROGRESS", n |-> n, normal |-> TRUE]
Record == [tag : {"DATA", "FIN", "FIN_ACK", "PROGRESS"}, n : Nat, normal : BOOLEAN]

(* writing: no record, or one that is about to go out or is being flushed. *)
Nothing == [phase |-> "none", rec |-> Data(0)]
Put(r) == [phase |-> "put", rec |-> r]
Flush(r) == [phase |-> "flush", rec |-> r]

Abort == [tag |-> "ABORT", n |-> 0]
AckCmd(n) == [tag |-> "ACK", n |-> n]

Errors == {"TransportEnded", "Truncated", "Unconfirmed", "AckTimeout",
           "PeerEnded", "LocalEnded", "Protocol"}

Running(s) == outcome[s] = "open"
Carries == path \in {"up", "slow"}
OutboundRuns(s) == Running(s) /\ (localOpen[s] \/ ~finAckOut[s])
Selecting(s) == OutboundRuns(s) /\ writing[s] = Nothing
InboundDone(s) == theirFin[s] /\ confirmed[s]
Waiting(s) == Running(s) /\ finSent[s] /\ ~localOpen[s] /\ ~confirmed[s]

Init ==
    /\ sent = [s \in Side |-> 0]
    /\ finSent = [s \in Side |-> FALSE]
    /\ localOpen = [s \in Side |-> TRUE]
    /\ finAckOut = [s \in Side |-> FALSE]
    /\ reported = [s \in Side |-> 0]
    /\ due = [s \in Side |-> Every]
    /\ writing = [s \in Side |-> Nothing]
    /\ toOutbound = [s \in Side |-> <<>>]
    /\ received = [s \in Side |-> 0]
    /\ theirFin = [s \in Side |-> FALSE]
    /\ confirmed = [s \in Side |-> FALSE]
    /\ delivering = [s \in Side |-> "no"]
    /\ quiet = [s \in Side |-> 0]
    /\ stall = [s \in Side |-> 0]
    /\ outcome = [s \in Side |-> "open"]
    /\ wire = [s \in Side |-> <<>>]
    /\ path = "up"

(* The pump returns o: the first future to fail drops the other two with   *)
(* their queue and clocks, and nobody reads the peer's records any more.   *)
Ends(s, o) ==
    /\ outcome' = [outcome EXCEPT ![s] = o]
    /\ toOutbound' = [toOutbound EXCEPT ![s] = <<>>]
    /\ delivering' = [delivering EXCEPT ![s] = "no"]
    /\ due' = [due EXCEPT ![s] = Every]
    /\ quiet' = [quiet EXCEPT ![s] = 0]
    /\ stall' = [stall EXCEPT ![s] = 0]
    /\ UNCHANGED <<sent, finSent, localOpen, finAckOut, reported, writing,
                   received, theirFin, confirmed, path>>

Unread(s, w) == [w EXCEPT ![Peer(s)] = <<>>]

(* A record reaches the path, or is swallowed by one that no longer leads  *)
(* anywhere.                                                               *)
With(s, r) ==
    IF Carries /\ Running(Peer(s)) THEN [wire EXCEPT ![s] = Append(@, r)] ELSE wire
Room(s) == Carries /\ Running(Peer(s)) => Len(wire[s]) < Capacity

(* write_record and the write of a DATA record: the record goes out at     *)
(* once, or waits for room on the path.                                    *)
Writes(s, r) ==
    IF Room(s)
    THEN wire' = With(s, r) /\ writing' = [writing EXCEPT ![s] = Flush(r)]
    ELSE writing' = [writing EXCEPT ![s] = Put(r)] /\ UNCHANGED wire

(* An abort ends the session; its FIN is best effort (ABORT_GRACE).        *)
EndsWithFin(s) ==
    /\ Ends(s, "LocalEnded")
    /\ \/ Room(s) /\ wire' = Unread(s, With(s, AbortFin(sent[s])))
       \/ wire' = Unread(s, wire)

-----------------------------------------------------------------------------
(* outbound, one turn of its biased select.                                *)

(* The FIN_ACK inbound asked for.                                          *)
TakeFinAck(s) ==
    /\ Selecting(s)
    /\ toOutbound[s] # <<>> /\ Head(toOutbound[s]).tag = "ACK"
    /\ toOutbound' = [toOutbound EXCEPT ![s] = Tail(@)]
    /\ Writes(s, FinAck(Head(toOutbound[s]).n))
    /\ UNCHANGED <<sent, finSent, localOpen, finAckOut, reported, due, inVars,
                   quiet, outcome, path>>

(* The abort inbound asked for.                                            *)
TakeAbort(s) ==
    /\ Selecting(s)
    /\ toOutbound[s] # <<>> /\ Head(toOutbound[s]).tag = "ABORT"
    /\ EndsWithFin(s)

(* Mutant: no PROGRESS record is ever written.                             *)
MutProgressTick(s) ==
    /\ Selecting(s) /\ toOutbound[s] = <<>>
    /\ due[s] = 0 /\ ~finAckOut[s]
    /\ due' = [due EXCEPT ![s] = Every]
    /\ UNCHANGED <<sent, finSent, localOpen, finAckOut, reported, writing, inVars,
                   toOutbound, quiet, outcome, wire, path>>

(* A tick of the progress interval: only growth is reported.               *)
ProgressTick(s) ==
    /\ Selecting(s) /\ toOutbound[s] = <<>>
    /\ due[s] = 0 /\ ~finAckOut[s]
    /\ due' = [due EXCEPT ![s] = Every]
    /\ IF received[s] > reported[s] THEN Writes(s, Progress(received[s])) ELSE UNCHANGED <<writing, wire>>
    /\ UNCHANGED <<sent, finSent, localOpen, finAckOut, reported, inVars,
                   toOutbound, quiet, outcome, path>>

SelectsLocal(s) ==
    /\ Selecting(s) /\ localOpen[s]
    /\ toOutbound[s] = <<>>
    /\ due[s] = 0 => finAckOut[s]

ReadLocal(s) ==
    /\ SelectsLocal(s)
    /\ sent[s] < MaxSend[s]
    /\ Writes(s, Data(sent[s]))
    /\ UNCHANGED <<sent, finSent, localOpen, finAckOut, reported, due, inVars,
                   toOutbound, quiet, outcome, path>>

(* End of input, reason Normal: flagged before the write, so that the      *)
(* FIN_ACK finds the flag and the final count.                             *)
LocalEnds(s) ==
    /\ SelectsLocal(s)
    /\ finSent' = [finSent EXCEPT ![s] = TRUE]
    /\ Writes(s, Fin(sent[s]))
    /\ UNCHANGED <<sent, localOpen, finAckOut, reported, due, inVars,
                   toOutbound, quiet, outcome, path>>

(* Any other end of the local side, or a failed read of it.                *)
LocalAborts(s) ==
    /\ SelectsLocal(s)
    /\ EndsWithFin(s)

(* The path took the record that waited for room.                          *)
WritePut(s) ==
    /\ OutboundRuns(s) /\ writing[s].phase = "put" /\ Room(s)
    /\ Writes(s, writing[s].rec)
    /\ UNCHANGED <<sent, finSent, localOpen, finAckOut, reported, due, inVars,
                   toOutbound, quiet, outcome, path>>

(* The flush returned: the state behind the write.                         *)
WriteDone(s) ==
    LET r == writing[s].rec IN
    /\ OutboundRuns(s) /\ writing[s].phase = "flush"
    /\ writing' = [writing EXCEPT ![s] = Nothing]
    /\ sent' = [sent EXCEPT ![s] = IF r.tag = "DATA" THEN @ + 1 ELSE @]
    /\ localOpen' = [localOpen EXCEPT ![s] = @ /\ r.tag # "FIN"]
    /\ quiet' = [quiet EXCEPT ![s] = IF r.tag = "FIN" THEN 0 ELSE @]
    /\ finAckOut' = [finAckOut EXCEPT ![s] = @ \/ r.tag = "FIN_ACK"]
    /\ reported' = [reported EXCEPT ![s] = IF r.tag = "PROGRESS" THEN r.n ELSE @]
    /\ UNCHANGED <<finSent, due, inVars, toOutbound, outcome, wire, path>>

WriteFails(s) ==
    /\ OutboundRuns(s) /\ writing[s] # Nothing
    /\ path = "cut" \/ (writing[s].phase = "put" /\ ~Running(Peer(s)))
    /\ Ends(s, "TransportEnded") /\ wire' = Unread(s, wire)

-----------------------------------------------------------------------------
(* inbound.                                                                *)

Reading(s) == Running(s) /\ delivering[s] = "no" /\ ~InboundDone(s)
Readable(s) == Reading(s) /\ wire[Peer(s)] # <<>> /\ path # "hole"
EndVisible(s) ==
    /\ Reading(s) /\ wire[Peer(s)] = <<>>
    /\ path = "cut" \/ (Carries /\ ~Running(Peer(s)))

(* Mutant: the PROGRESS count is checked like the FIN_ACK's.               *)
MutVerdict(s, r) ==
    CASE r.tag = "DATA" -> IF theirFin[s] THEN "Protocol" ELSE "open"
      [] r.tag = "FIN" -> IF ~r.normal THEN "PeerEnded"
                          ELSE IF theirFin[s] THEN "Protocol"
                          ELSE IF r.n # received[s] THEN "Truncated" ELSE "open"
      [] r.tag = "FIN_ACK" -> IF ~finSent[s] \/ confirmed[s] THEN "Protocol"
                              ELSE IF r.n # sent[s] THEN "Unconfirmed" ELSE "open"
      [] r.tag = "PROGRESS" -> IF r.n > sent[s] THEN "Protocol" ELSE "open"

(* What one record of the peer makes of this side: the error it is, or     *)
(* "open".                                                                 *)
Verdict(s, r) ==
    CASE r.tag = "DATA" -> IF theirFin[s] THEN "Protocol" ELSE "open"
      [] r.tag = "FIN" -> IF ~r.normal THEN "PeerEnded"
                          ELSE IF theirFin[s] THEN "Protocol"
                          ELSE IF r.n # received[s] THEN "Truncated" ELSE "open"
      [] r.tag = "FIN_ACK" -> IF ~finSent[s] \/ confirmed[s] THEN "Protocol"
                              ELSE IF r.n # sent[s] THEN "Unconfirmed" ELSE "open"
      [] r.tag = "PROGRESS" -> "open"

Accept(s, r) ==
    /\ wire' = [wire EXCEPT ![Peer(s)] = Tail(@)]
    /\ quiet' = [quiet EXCEPT ![s] = 0]
    /\ confirmed' = [confirmed EXCEPT ![s] = @ \/ r.tag = "FIN_ACK"]
    /\ delivering' = [delivering EXCEPT ![s] =
                        IF r.tag = "DATA" THEN "data" ELSE IF r.tag = "FIN" THEN "end" ELSE "no"]
    /\ UNCHANGED <<outVars, received, theirFin, stall, toOutbound, outcome, path>>

ReadRecord(s) ==
    LET r == Head(wire[Peer(s)])
        v == Verdict(s, r)
    IN
    /\ Readable(s)
    /\ IF v = "open" THEN Accept(s, r) ELSE Ends(s, v) /\ wire' = Unread(s, wire)

(* The local side took the record, or its write side closed behind the     *)
(* peer's end; only then is a FIN_ACK asked for.                           *)
Delivered(s) ==
    /\ Running(s) /\ delivering[s] \in {"data", "end"}
    /\ delivering' = [delivering EXCEPT ![s] = "no"]
    /\ stall' = [stall EXCEPT ![s] = 0]
    /\ quiet' = [quiet EXCEPT ![s] = 0]
    /\ received' = [received EXCEPT ![s] = IF delivering[s] = "data" THEN @ + 1 ELSE @]
    /\ theirFin' = [theirFin EXCEPT ![s] = @ \/ delivering[s] = "end"]
    /\ toOutbound' = IF delivering[s] = "end"
                     THEN [toOutbound EXCEPT ![s] = Append(@, AckCmd(received[s]))]
                     ELSE toOutbound
    /\ UNCHANGED <<outVars, confirmed, outcome, wire, path>>

(* The local side failed: outbound is told, inbound sleeps ABORT_GRACE.    *)
DeliverFails(s) ==
    /\ Running(s) /\ delivering[s] \in {"data", "end"}
    /\ delivering' = [delivering EXCEPT ![s] = "aborting"]
    /\ stall' = [stall EXCEPT ![s] = 0]
    /\ quiet' = [quiet EXCEPT ![s] = 0]
    /\ toOutbound' = [toOutbound EXCEPT ![s] = Append(@, Abort)]
    /\ UNCHANGED <<outVars, received, theirFin, confirmed, outcome, wire, path>>

AbortGrace(s) ==
    /\ Running(s) /\ delivering[s] = "aborting"
    /\ Ends(s, "LocalEnded") /\ wire' = Unread(s, wire)

(* The transport's end, behind whatever of the peer's records survived.    *)
ReadEnds(s) ==
    /\ EndVisible(s)
    /\ Ends(s, "TransportEnded") /\ wire' = Unread(s, wire)

-----------------------------------------------------------------------------
(* The watchdog, and the end of try_join!.                                 *)

(* Mutant: the deadline is moved on without a look at who is slow.         *)
MutWatchdog(s) ==
    /\ Waiting(s) /\ quiet[s] = Idle
    /\ quiet' = [quiet EXCEPT ![s] = 0]
    /\ UNCHANGED <<outVars, inVars, toOutbound, outcome, wire, path>>

Watchdog(s) ==
    /\ Waiting(s) /\ quiet[s] = Idle
    /\ IF delivering[s] \in {"data", "end"}
       THEN /\ quiet' = [quiet EXCEPT ![s] = 0]
            /\ UNCHANGED <<outVars, inVars, toOutbound, outcome, wire, path>>
       ELSE Ends(s, "AckTimeout") /\ wire' = Unread(s, wire)

(* Mutant: the pump returns once its own direction is confirmed.           *)
MutJoin(s) ==
    /\ Running(s) /\ confirmed[s] /\ ~localOpen[s]
    /\ Ends(s, "ok") /\ wire' = Unread(s, wire)

(* Mutant: the pump returns without its FIN_ACK being out.                 *)
MutJoinUnacked(s) ==
    /\ Running(s) /\ InboundDone(s) /\ ~localOpen[s]
    /\ Ends(s, "ok") /\ wire' = Unread(s, wire)

Join(s) ==
    /\ Running(s) /\ InboundDone(s) /\ ~localOpen[s] /\ finAckOut[s]
    /\ Ends(s, "ok") /\ wire' = Unread(s, wire)

-----------------------------------------------------------------------------
(* The path (a relay that terminates TLS) and time.                        *)

(* The relay drops the session: each reader gets some prefix of what was   *)
(* in flight, then a clean end.                                            *)
Cut ==
    /\ Carries /\ \E s \in Side : Running(s)
    /\ path' = "cut"
    /\ \E k \in [Side -> 0..Capacity] :
        /\ \A s \in Side : k[s] <= Len(wire[s])
        /\ wire' = [s \in Side |-> SubSeq(wire[s], 1, k[s])]
    /\ UNCHANGED <<outVars, inVars, toOutbound, quiet, outcome>>

BlackHole ==
    /\ Carries /\ \E s \in Side : Running(s)
    /\ path' = "hole"
    /\ wire' = [s \in Side |-> <<>>]
    /\ UNCHANGED <<outVars, inVars, toOutbound, quiet, outcome>>

(* A side has something to do that only its own scheduler or the path      *)
(* delays.                                                                 *)
Ready(s) ==
    \/ OutboundRuns(s) /\ writing[s] # Nothing /\ Room(s)
    \/ Selecting(s) /\ (toOutbound[s] # <<>> \/ (due[s] = 0 /\ ~finAckOut[s]))
    \/ Readable(s) \/ EndVisible(s)
    \/ Running(s) /\ delivering[s] # "no" /\ stall[s] = Patience

ProgressRuns(s) == OutboundRuns(s) /\ ~finAckOut[s]
Hands(s) == Running(s) /\ delivering[s] # "no"

(* Time passes on a session that keeps up.                                 *)
Tick ==
    /\ \E s \in Side : Running(s)
    /\ path = "up" /\ \A s \in Side : ~Ready(s)
    /\ due' = [s \in Side |-> IF ProgressRuns(s) /\ due[s] > 0 THEN due[s] - 1 ELSE due[s]]
    /\ quiet' = [s \in Side |-> IF Waiting(s) /\ quiet[s] < Idle THEN quiet[s] + 1 ELSE quiet[s]]
    /\ stall' = [s \in Side |-> IF Hands(s) THEN stall[s] + 1 ELSE stall[s]]
    /\ UNCHANGED <<sent, finSent, localOpen, finAckOut, reported, writing, received, theirFin,
                   confirmed, delivering, toOutbound, outcome, wire, path>>

(* A delay of any length, at any point: every clock may have run out.      *)
Delay ==
    /\ \E s \in Side : Running(s)
    /\ path' = IF path = "up" THEN "slow" ELSE path
    /\ due' = [s \in Side |-> IF ProgressRuns(s) THEN 0 ELSE due[s]]
    /\ quiet' = [s \in Side |-> IF Waiting(s) THEN Idle ELSE quiet[s]]
    /\ UNCHANGED <<sent, finSent, localOpen, finAckOut, reported, writing, inVars,
                   toOutbound, outcome, wire>>

OutboundStep(s) == TakeFinAck(s) \/ TakeAbort(s) \/ ProgressTick(s) \/ WritePut(s) \/ WriteDone(s)
LocalInput(s) == ReadLocal(s) \/ LocalEnds(s) \/ LocalAborts(s)
LocalSide(s) == Delivered(s) \/ DeliverFails(s)
InboundStep(s) == ReadRecord(s) \/ ReadEnds(s) \/ AbortGrace(s)

Next ==
    \/ \E s \in Side :
        \/ OutboundStep(s) \/ LocalInput(s) \/ LocalSide(s) \/ InboundStep(s)
        \/ WriteFails(s) \/ Watchdog(s) \/ Join(s)
    \/ Cut \/ BlackHole \/ Tick \/ Delay

Spec == Init /\ [][Next]_vars

(* The clock runs, with the path keeping up or not, and the pump's own     *)
(* futures are polled. Nothing is assumed of the local sides.              *)
FairSpec ==
    /\ Spec
    /\ WF_vars(Tick \/ Delay)
    /\ \A s \in Side :
        /\ WF_vars(OutboundStep(s) \/ WriteFails(s))
        /\ WF_vars(InboundStep(s))
        /\ WF_vars(Watchdog(s))
        /\ WF_vars(Join(s))

-----------------------------------------------------------------------------
TypeOK ==
    /\ sent \in [Side -> Nat] /\ received \in [Side -> Nat] /\ reported \in [Side -> Nat]
    /\ finSent \in [Side -> BOOLEAN] /\ localOpen \in [Side -> BOOLEAN]
    /\ finAckOut \in [Side -> BOOLEAN] /\ theirFin \in [Side -> BOOLEAN]
    /\ confirmed \in [Side -> BOOLEAN]
    /\ due \in [Side -> 0..Every]
    /\ writing \in [Side -> [phase : {"none", "put", "flush"}, rec : Record]]
    /\ toOutbound \in [Side -> Seq([tag : {"ACK", "ABORT"}, n : Nat])]
    /\ delivering \in [Side -> {"no", "data", "end", "aborting"}]
    /\ quiet \in [Side -> 0..Idle] /\ stall \in [Side -> 0..Patience]
    /\ outcome \in [Side -> {"open", "ok"} \cup Errors]
    /\ wire \in [Side -> Seq(Record)]
    /\ path \in {"up", "slow", "cut", "hole"}

(* Records of s a peer may have read: a flush may still be outstanding.    *)
Offered(s) ==
    sent[s] + (IF writing[s].phase = "flush" /\ writing[s].rec.tag = "DATA" THEN 1 ELSE 0)

Promise == INSTANCE DeliveryPromise WITH
    offered <- [s \in Side |-> Offered(s)],
    finished <- finSent,
    delivered <- received,
    complete <- theirFin,
    verdict <- [s \in Side |-> IF outcome[s] \in {"open", "ok"} THEN outcome[s] ELSE "failed"]

(* The pump keeps its contract (delivery.rs:435-450): a side returns Ok    *)
(* only when both directions are delivered and closed, whatever is cut,    *)
(* aborted or timed out, and even though the peer reads records before the *)
(* writer has counted them.                                                *)
ImplementsPromise == Promise!Spec

(* A peer that speaks the protocol is never accused of breaking it: no     *)
(* abort, cut or late flush turns into Truncated, Unconfirmed or Protocol  *)
(* (inbound, delivery.rs:631-758). Those verdicts are left for a peer that *)
(* really lost or invented bytes.                                          *)
HonestPeerNeverBlamed ==
    \A s \in Side : outcome[s] \notin {"Truncated", "Unconfirmed", "Protocol"}

(* A slow consumer keeps the sender waiting, it does not fail the session  *)
(* (delivery.rs:34-42): as long as nothing ready waits out a tick and each *)
(* local delivery takes at most Patience, PROGRESS arrives in time and the *)
(* watchdog never gives up on a healthy path.                              *)
NoFalseTimeout ==
    \A s \in Side : outcome[s] = "AckTimeout" => path # "up"

Consumes(s) == WF_vars(LocalSide(s))

(* The wait for the FIN_ACK is bounded (delivery.rs:763-794): a side whose *)
(* own local side takes data stops waiting, by a confirmation or by an     *)
(* error, even if the path is a black hole or the peer's consumer is stuck.*)
AckWaitEnds == \A s \in Side : Consumes(s) => (Waiting(s) ~> ~Waiting(s))

Disturbed == path # "up" \/ \E s \in Side : outcome[s] = "LocalEnded"

(* Once both inputs have ended, an undisturbed session ends Ok on both     *)
(* sides: neither end's return cuts the other off before it has read the   *)
(* FIN and the FIN_ACK meant for it (delivery.rs:796-800).                 *)
CleanSessionSucceeds ==
    (\A s \in Side : Consumes(s))
        => ((\A s \in Side : finSent[s]) ~> ((\A s \in Side : outcome[s] = "ok") \/ Disturbed))
=============================================================================
