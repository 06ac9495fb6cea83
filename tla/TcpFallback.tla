---------------------------- MODULE TcpFallback -----------------------------
(***************************************************************************)
(* The TCP-fallback pool: parked Agent connections (slots), the Clients    *)
(* that are handed to them, and the bounded wait for a slot.               *)
(* crates/edge/src/state.rs (park, deliver, reap, wait) and serve.rs       *)
(* (park_and_ping and the 'K' arm that runs it).                           *)
(*                                                                         *)
(* A slot is one Agent TCP connection: it parks once, holds a oneshot      *)
(* receiver, is pinged while it waits, and ends.  Its task, every Client's *)
(* task, the reaper and a teardown interleave; only the queue itself is    *)
(* behind a mutex, which is let go before the gauge is adjusted and before *)
(* a popped sender is used.  tokio's Notify is external: notify_one wakes  *)
(* the longest waiter or else stores one permit, never two.                *)
(***************************************************************************)
EXTENDS Integers, Sequences, FiniteSets

CONSTANTS
    PoolToken,    \* routing tokens with a pool
    Slot,         \* Agent TCP connections, each parks at most once
    Client,       \* Client streams
    SlotToken,    \* [Slot -> PoolToken]
    ClientToken,  \* [Client -> PoolToken]
    NoClient,     \* empty oneshot
    NoSlot        \* no sender in hand

ASSUME FallbackAssumption ==
    /\ SlotToken \in [Slot -> PoolToken]
    /\ ClientToken \in [Client -> PoolToken]
    /\ NoClient \notin Client
    /\ NoSlot \notin Slot
    /\ IsFiniteSet(Slot) /\ IsFiniteSet(Client)   \* streams ever accepted

VARIABLES
    queue,       \* tcp_agents: FIFO of senders per token
    slot,        \* where each slot's task is
    inbox,       \* the Client sent into the slot's oneshot
    client,      \* where each Client's stream is
    popped,      \* the sender a Client's delivery has popped and not used yet
    waiters,     \* tcp_agent_parked: tasks blocked in notified(), in order
    permit,      \* tcp_agent_parked: the stored permit
    parkedGauge, \* tcp_parked_gauge
    reaped       \* parks the reaper has dropped and not taken off the gauge

fallbackVars ==
    <<queue, slot, inbox, client, popped, waiters, permit, parkedGauge, reaped>>
notif == <<waiters, permit>>
gauge == <<parkedGauge, reaped>>

SlotState == {"idle", "pushed", "parked", "pinging", "verify", "giveUp", "relay", "down"}
ClientState == {"new", "drain", "check", "sleep", "woken", "drainAfterWait",
                "sent", "failover", "relay", "timedOut", "dropped", "lost"}

(* The receiver half of the slot's oneshot still exists.                   *)
ReceiverOpen(s) ==
    slot[s] \in {"pushed", "parked", "pinging", "giveUp"} /\ inbox[s] = NoClient

(* Its sender still exists: queued, or in the hands of a delivery.         *)
Queued(s) == \E i \in 1..Len(queue[SlotToken[s]]) : queue[SlotToken[s]][i] = s
HasSender(s) == Queued(s) \/ \E c \in Client : popped[c] = s
HasTcpAgent(t) == queue[t] # <<>>

(* The sender deliver_to_tcp_agent pops, and the queue it leaves.          *)
FrontOf(t) == Head(queue[t])

(* Mutant: the whole queue is removed with it.                             *)
MutPopAll(t) == <<>>
PopFront(t) == Tail(queue[t])

(* What retain leaves of q: the entries in S, in the order they had.       *)
Retained(q, S) ==
    LET keep[i \in 0..Len(q)] ==
            IF i = 0 THEN <<>>
            ELSE IF q[i] \in S THEN Append(keep[i - 1], q[i]) ELSE keep[i - 1]
    IN  keep[Len(q)]

SaturatingDec == IF parkedGauge > 0 THEN parkedGauge - 1 ELSE 0

(* Notify::notify_one.                                                     *)
NotifyOne ==
    IF waiters # <<>>
    THEN /\ waiters' = Tail(waiters)
         /\ client' = [client EXCEPT ![Head(waiters)] = "woken"]
         /\ UNCHANGED permit
    ELSE /\ permit' = TRUE
         /\ UNCHANGED <<waiters, client>>

FallbackInit ==
    /\ queue = [t \in PoolToken |-> <<>>]
    /\ slot = [s \in Slot |-> "idle"]
    /\ inbox = [s \in Slot |-> NoClient]
    /\ client = [c \in Client |-> "new"]
    /\ popped = [c \in Client |-> NoSlot]
    /\ waiters = <<>>
    /\ permit = FALSE
    /\ parkedGauge = 0
    /\ reaped = 0

-----------------------------------------------------------------------------
(* park_tcp_agent, with registration_lock held throughout: the sender is   *)
(* queued ...                                                              *)
Registering == \E s \in Slot : slot[s] = "pushed"
Park(s) ==
    /\ slot[s] = "idle"
    /\ ~Registering
    /\ slot' = [slot EXCEPT ![s] = "pushed"]
    /\ queue' = [queue EXCEPT ![SlotToken[s]] = Append(@, s)]
    /\ UNCHANGED <<inbox, client, popped, notif, parkedGauge, reaped>>

(* ... and then counted, and one waiter notified.                          *)
CountPark(s) ==
    /\ slot[s] = "pushed"
    /\ slot' = [slot EXCEPT ![s] = "parked"]
    /\ parkedGauge' = parkedGauge + 1
    /\ NotifyOne
    /\ UNCHANGED <<queue, inbox, popped, reaped>>

(* park_and_ping, the interval elapses: the select is biased, so a probe   *)
(* starts only while no Client has arrived and the sender still exists.    *)
StartPing(s) ==
    /\ slot[s] = "parked"
    /\ inbox[s] = NoClient
    /\ HasSender(s)
    /\ slot' = [slot EXCEPT ![s] = "pinging"]
    /\ UNCHANGED <<queue, inbox, client, popped, notif, gauge>>

(* The slot has its Client: verify it with one last round trip.            *)
TakeClient(s) ==
    /\ slot[s] = "parked"
    /\ inbox[s] # NoClient
    /\ slot' = [slot EXCEPT ![s] = "verify"]
    /\ UNCHANGED <<queue, inbox, client, popped, notif, gauge>>

(* The sender was dropped (teardown): the parked task ends.                *)
Superseded(s) ==
    /\ slot[s] = "parked"
    /\ inbox[s] = NoClient
    /\ ~HasSender(s)
    /\ slot' = [slot EXCEPT ![s] = "down"]
    /\ UNCHANGED <<queue, inbox, client, popped, notif, gauge>>

(* The PONG arrives.  A Client that came mid-probe is handed over at once. *)
PingOk(s) ==
    /\ slot[s] = "pinging"
    /\ IF inbox[s] # NoClient
       THEN /\ slot' = [slot EXCEPT ![s] = "relay"]
            /\ client' = [client EXCEPT ![inbox[s]] = "relay"]
       ELSE /\ slot' = [slot EXCEPT ![s] = IF HasSender(s) THEN "parked" ELSE "down"]
            /\ UNCHANGED client
    /\ UNCHANGED <<queue, inbox, popped, notif, gauge>>

(* The probe fails: try_recv rescues a Client already in the slot; with an *)
(* empty slot the task returns, and its receiver is dropped on the way out *)
(* (GiveUp), a separate step.                                              *)
PingFails(s) ==
    /\ slot[s] = "pinging"
    /\ IF inbox[s] # NoClient
       THEN /\ slot' = [slot EXCEPT ![s] = "down"]
            /\ client' = [client EXCEPT ![inbox[s]] = "failover"]
            /\ inbox' = [inbox EXCEPT ![s] = NoClient]
       ELSE /\ slot' = [slot EXCEPT ![s] = "giveUp"]
            /\ UNCHANGED <<client, inbox>>
    /\ UNCHANGED <<queue, popped, notif, gauge>>

GiveUp(s) ==
    /\ slot[s] = "giveUp"
    /\ slot' = [slot EXCEPT ![s] = "down"]
    /\ inbox' = [inbox EXCEPT ![s] = NoClient]
    /\ client' = IF inbox[s] = NoClient THEN client
                 ELSE [client EXCEPT ![inbox[s]] = "lost"]
    /\ UNCHANGED <<queue, popped, notif, gauge>>

VerifyOk(s) ==
    /\ slot[s] = "verify"
    /\ slot' = [slot EXCEPT ![s] = "relay"]
    /\ client' = [client EXCEPT ![inbox[s]] = "relay"]
    /\ UNCHANGED <<queue, inbox, popped, notif, gauge>>

(* Mutants: the stream is copied, not moved, to the next slot; the stream  *)
(* is dropped with the slot.                                               *)
MutVerifyFailsKeeps(s) ==
    /\ slot[s] = "verify"
    /\ slot' = [slot EXCEPT ![s] = "down"]
    /\ client' = [client EXCEPT ![inbox[s]] = "failover"]
    /\ UNCHANGED <<queue, inbox, popped, notif, gauge>>
MutVerifyFailsForgets(s) ==
    /\ slot[s] = "verify"
    /\ slot' = [slot EXCEPT ![s] = "down"]
    /\ UNCHANGED <<queue, inbox, client, popped, notif, gauge>>

(* AgentDead: the Client's stream goes to the next parked slot.            *)
VerifyFails(s) ==
    /\ slot[s] = "verify"
    /\ slot' = [slot EXCEPT ![s] = "down"]
    /\ client' = [client EXCEPT ![inbox[s]] = "failover"]
    /\ inbox' = [inbox EXCEPT ![s] = NoClient]
    /\ UNCHANGED <<queue, popped, notif, gauge>>

-----------------------------------------------------------------------------
Arrive(c) ==
    /\ client[c] = "new"
    /\ client' = [client EXCEPT ![c] = "drain"]
    /\ UNCHANGED <<queue, slot, inbox, popped, notif, gauge>>

(* deliver_to_tcp_agent_draining, one turn of the loop: pop the front      *)
(* sender under the mutex ...                                              *)
Draining(c) == client[c] \in {"drain", "drainAfterWait", "failover"} /\ popped[c] = NoSlot
Pop(c) ==
    LET t == ClientToken[c] IN
    /\ Draining(c)
    /\ HasTcpAgent(t)
    /\ queue' = [queue EXCEPT ![t] = PopFront(t)]
    /\ popped' = [popped EXCEPT ![c] = FrontOf(t)]
    /\ UNCHANGED <<slot, inbox, client, notif, gauge>>

(* ... take it off the gauge and send; a dead one is consumed and the loop *)
(* goes on.                                                                *)
Send(c) ==
    /\ popped[c] # NoSlot
    /\ popped' = [popped EXCEPT ![c] = NoSlot]
    /\ parkedGauge' = SaturatingDec
    /\ IF ReceiverOpen(popped[c])
       THEN /\ inbox' = [inbox EXCEPT ![popped[c]] = c]
            /\ client' = [client EXCEPT ![c] = "sent"]
       ELSE UNCHANGED <<inbox, client>>
    /\ UNCHANGED <<queue, slot, notif, reaped>>

(* ... or find the pool empty.  What the caller does with the stream it    *)
(* gets back: first try, then the bounded wait; after the wait (Raced) or  *)
(* after a failover it is dropped.                                         *)
AfterFailedDrain(from) == IF from = "drain" THEN "check" ELSE "dropped"
PoolEmpty(c) ==
    /\ Draining(c)
    /\ ~HasTcpAgent(ClientToken[c])
    /\ client' = [client EXCEPT ![c] = AfterFailedDrain(@)]
    /\ UNCHANGED <<queue, slot, inbox, popped, notif, gauge>>

(* wait_for_tcp_agent: the check at the top of the loop, reached first, on *)
(* a wake-up and on the timeout.                                           *)
WaitCheck(c) ==
    /\ client[c] \in {"check", "woken"}
    /\ client' = [client EXCEPT ![c] =
                    IF HasTcpAgent(ClientToken[c]) THEN "drainAfterWait" ELSE "sleep"]
    /\ UNCHANGED <<queue, slot, inbox, popped, notif, gauge>>

(* ... notified(): takes a stored permit or joins the waiters.             *)
Notified(c) ==
    /\ client[c] = "sleep"
    /\ \A i \in 1..Len(waiters) : waiters[i] # c
    /\ IF permit
       THEN /\ permit' = FALSE
            /\ client' = [client EXCEPT ![c] = "woken"]
            /\ UNCHANGED waiters
       ELSE /\ waiters' = Append(waiters, c)
            /\ UNCHANGED <<permit, client>>
    /\ UNCHANGED <<queue, slot, inbox, popped, gauge>>

(* ... the deadline passes: notified() is dropped, has_tcp_agent is asked  *)
(* once more, and remaining is zero.                                       *)
WaitTimeout(c) ==
    /\ client[c] = "sleep"
    /\ waiters' = Retained(waiters, Client \ {c})
    /\ client' = [client EXCEPT ![c] =
                    IF HasTcpAgent(ClientToken[c]) THEN "drainAfterWait" ELSE "timedOut"]
    /\ UNCHANGED <<queue, slot, inbox, popped, permit, gauge>>

-----------------------------------------------------------------------------
(* reap_dead_tcp_parks: the queues are swept under their mutex ...         *)
ReapDead ==
    LET live == {s \in Slot : ReceiverOpen(s)}
        gone == {s \in Slot : Queued(s) /\ s \notin live}
    IN  /\ reaped = 0
        /\ gone # {}
        /\ queue' = [t \in PoolToken |-> Retained(queue[t], live)]
        /\ reaped' = Cardinality(gone)
        /\ UNCHANGED <<slot, inbox, client, popped, notif, parkedGauge>>

(* ... and the gauge is decremented afterwards, once per park.             *)
CountReaped ==
    /\ reaped > 0
    /\ reaped' = reaped - 1
    /\ parkedGauge' = SaturatingDec
    /\ UNCHANGED <<queue, slot, inbox, client, popped, notif>>

(* remove_locked (revocation) and enforce_tunnel_locked drop a token's     *)
(* whole pool, with registration_lock held, and neither touches            *)
(* tcp_parked_gauge.                                                       *)
DropPool(t) ==
    /\ HasTcpAgent(t)
    /\ ~Registering
    /\ queue' = [queue EXCEPT ![t] = <<>>]
    /\ UNCHANGED <<slot, inbox, client, popped, notif, gauge>>

(* What the tasks of a slot and of a Client do when they are polled.       *)
SlotTask(s) ==
    \/ CountPark(s) \/ TakeClient(s) \/ PingOk(s) \/ PingFails(s) \/ GiveUp(s)
    \/ VerifyOk(s) \/ VerifyFails(s)
ClientTask(c) ==
    \/ Pop(c) \/ Send(c) \/ PoolEmpty(c)
    \/ WaitCheck(c) \/ Notified(c) \/ WaitTimeout(c)

FallbackNext ==
    \/ \E s \in Slot : Park(s) \/ StartPing(s) \/ Superseded(s) \/ SlotTask(s)
    \/ \E c \in Client : Arrive(c) \/ ClientTask(c)
    \/ ReapDead \/ CountReaped
    \/ \E t \in PoolToken : DropPool(t)

FallbackSpec == FallbackInit /\ [][FallbackNext]_fallbackVars

(* tokio keeps polling a ready task, and ping round trips and waits have   *)
(* timeouts: no task can be put off for ever.                              *)
FallbackFairness ==
    /\ \A s \in Slot : WF_fallbackVars(SlotTask(s))
    /\ \A c \in Client : WF_fallbackVars(ClientTask(c))

FallbackFairSpec == FallbackSpec /\ FallbackFairness

-----------------------------------------------------------------------------
(* Type correctness.                                                       *)
FallbackTypeOK ==
    /\ queue \in [PoolToken -> Seq(Slot)]
    /\ slot \in [Slot -> SlotState]
    /\ inbox \in [Slot -> Client \cup {NoClient}]
    /\ client \in [Client -> ClientState]
    /\ popped \in [Client -> Slot \cup {NoSlot}]
    /\ waiters \in Seq(Client)
    /\ permit \in BOOLEAN
    /\ parkedGauge \in Nat
    /\ reaped \in Nat

(* A Client's stream is owned exactly once: it sits in a slot's oneshot    *)
(* exactly while it is sent or relayed, in one slot only, of its token.    *)
StreamOwnedOnce ==
    /\ \A c \in Client :
          (client[c] \in {"sent", "relay"}) <=> (\E s \in Slot : inbox[s] = c)
    /\ \A s, u \in Slot : s # u /\ inbox[s] = inbox[u] => inbox[s] = NoClient
    /\ \A s \in Slot : inbox[s] # NoClient => ClientToken[inbox[s]] = SlotToken[s]

(* #510: a gauge can never owe parks, though queue and gauge are updated   *)
(* apart and decrements saturate.  Once the updates under way are through, *)
(* it reads no less than the number of queued senders.                     *)
GaugeNeverUnder ==
    parkedGauge + Cardinality({s \in Slot : slot[s] = "pushed"})
       >= Cardinality({s \in Slot : Queued(s)})
            + Cardinality({c \in Client : popped[c] # NoSlot}) + reaped

(* #505/#522: delivery and the reaper drop corpses only.  A live park      *)
(* loses its sender by receiving a Client, or with its token's whole pool  *)
(* in a step that neither delivers nor reaps.                              *)
LiveParkKept ==
    [][\A s \in Slot :
          HasSender(s) /\ ReceiverOpen(s) /\ ~HasSender(s)' =>
             \/ inbox'[s] # NoClient
             \/ queue'[SlotToken[s]] = <<>> /\ UNCHANGED <<popped, gauge>>]_fallbackVars

(* Every Client that arrives is answered: relayed, or its stream is        *)
(* closed; no wait, drain or failover hangs.                               *)
Settled(c) == client[c] \in {"relay", "timedOut", "dropped", "lost"}
ClientsSettle == \A c \in Client : client[c] = "drain" ~> Settled(c)

-----------------------------------------------------------------------------
(* "tcp_parked_gauge is how many are waiting right now" (state.rs, doc of  *)
(* the tcp_parks group), once the updates under way are through.           *)
GaugeCountsWaiting ==
    parkedGauge + Cardinality({s \in Slot : slot[s] = "pushed"})
       = Cardinality({s \in Slot : Queued(s)})
            + Cardinality({c \in Client : popped[c] # NoSlot}) + reaped

(* wait_for_tcp_agent: "returning true as soon as one does"; a park that   *)
(* lands around the check "is never missed".  No Client sleeps beside a    *)
(* park of its token unless a park is still to be announced or some task   *)
(* has been woken to look.                                                 *)
NoSleepBesidePark ==
    \A i \in 1..Len(waiters) :
       LET t == ClientToken[waiters[i]] IN
       HasTcpAgent(t) =>
          \/ Registering
          \/ \E c \in Client : client[c] \in {"woken", "drainAfterWait", "drain", "failover"}
                               /\ ClientToken[c] = t

(* #528 finding 7: a failing cadence ping rescues a Client delivered into  *)
(* the slot; "only a genuinely empty/closed slot is the terminal NoClient".*)
NoClientLost == \A c \in Client : client[c] # "lost"

=============================================================================
