-------------------------- MODULE RevocationSignal --------------------------
(***************************************************************************)
(* How a live relay learns that its token was revoked (#554):              *)
(* revoke_token and revoked_signal in crates/edge/src/state.rs, raced by   *)
(* until_revoked and route_and_relay in serve.rs.                          *)
(*                                                                         *)
(* revoke_token holds registration_lock, but a relay takes no lock: it     *)
(* reads the agents map, opens a stream, subscribes to the watch channel   *)
(* and reads the revoked set, each a step of its own, while the revoker is *)
(* between inserting, tearing down and ticking.                            *)
(***************************************************************************)
EXTENDS Integers

CONSTANTS
    Token,
    Relay,        \* relay tasks
    RelayToken,   \* [Relay -> Token]
    NoToken,      \* the revoker is idle
    MaxTick       \* bound: revocations issued

ASSUME SignalAssumption ==
    /\ RelayToken \in [Relay -> Token]
    /\ NoToken \notin Token
    /\ MaxTick \in Nat

VARIABLES
    registered,   \* agents: tokens with a registration
    revoked,      \* revoked
    tick,         \* revocation_tick's value
    revoking,     \* the token whose revoke_token call holds the lock
    step,         \* how far that call is
    relay,        \* where each relay task is
    seenTick      \* the tick each receiver has marked as seen

signalVars == <<registered, revoked, tick, revoking, step, relay, seenTick>>
revoker == <<registered, revoked, tick, revoking, step>>

RelayState == {"idle", "routed", "check", "wait", "cut", "ended"}

SignalInit ==
    /\ registered = {}
    /\ revoked = {}
    /\ tick = 0
    /\ revoking = NoToken
    /\ step = "idle"
    /\ relay = [r \in Relay |-> "idle"]
    /\ seenTick = [r \in Relay |-> 0]

-----------------------------------------------------------------------------
(* Mutant: the revoked check is dropped.                                   *)
MutRegister(t) ==
    /\ step = "idle"
    /\ registered' = registered \cup {t}
    /\ UNCHANGED <<revoked, tick, revoking, step, relay, seenTick>>

(* A registration, under the lock and refused for a revoked token.         *)
Register(t) ==
    /\ step = "idle"
    /\ t \notin revoked
    /\ registered' = registered \cup {t}
    /\ UNCHANGED <<revoked, tick, revoking, step, relay, seenTick>>

(* revoke_token: insert into the revoked set ...                           *)
RevokeInsert(t) ==
    /\ step = "idle"
    /\ tick < MaxTick
    /\ revoking' = t
    /\ step' = "teardown"
    /\ revoked' = revoked \cup {t}
    /\ UNCHANGED <<registered, tick, relay, seenTick>>

(* ... remove_locked ...                                                   *)
RevokeTeardown ==
    /\ step = "teardown"
    /\ registered' = registered \ {revoking}
    /\ step' = "tick"
    /\ UNCHANGED <<revoked, tick, revoking, relay, seenTick>>

(* Mutant: the channel's value does not move.                              *)
MutRevokeTickSilent ==
    /\ step = "tick"
    /\ step' = "idle"
    /\ revoking' = NoToken
    /\ UNCHANGED <<registered, revoked, tick, relay, seenTick>>

(* ... and wake every live relay.                                          *)
RevokeTick ==
    /\ step = "tick"
    /\ tick' = tick + 1
    /\ step' = "idle"
    /\ revoking' = NoToken
    /\ UNCHANGED <<registered, revoked, relay, seenTick>>

-----------------------------------------------------------------------------
(* open_agent_stream finds a registration and opens a stream on it.        *)
Route(r) ==
    /\ relay[r] = "idle"
    /\ RelayToken[r] \in registered
    /\ relay' = [relay EXCEPT ![r] = "routed"]
    /\ UNCHANGED <<revoker, seenTick>>

(* revoked_signal: subscribe first (the current value counts as seen) ...  *)
Subscribe(r) ==
    /\ relay[r] = "routed"
    /\ relay' = [relay EXCEPT ![r] = "check"]
    /\ seenTick' = [seenTick EXCEPT ![r] = tick]
    /\ UNCHANGED revoker

(* Mutant: waits for the next tick without asking.                         *)
MutCheckRevoked(r) ==
    /\ relay[r] = "check"
    /\ relay' = [relay EXCEPT ![r] = "wait"]
    /\ UNCHANGED <<revoker, seenTick>>

(* ... then ask is_revoked ...                                             *)
CheckRevoked(r) ==
    /\ relay[r] = "check"
    /\ relay' = [relay EXCEPT ![r] =
                    IF RelayToken[r] \in revoked THEN "cut" ELSE "wait"]
    /\ UNCHANGED <<revoker, seenTick>>

(* ... and sleep in changed() until the value moves.                       *)
Changed(r) ==
    /\ relay[r] = "wait"
    /\ tick # seenTick[r]
    /\ relay' = [relay EXCEPT ![r] = "check"]
    /\ seenTick' = [seenTick EXCEPT ![r] = tick]
    /\ UNCHANGED revoker

(* The copy ends by itself: until_revoked's other branch.                  *)
RelayEnds(r) ==
    /\ relay[r] \in {"check", "wait"}
    /\ relay' = [relay EXCEPT ![r] = "ended"]
    /\ UNCHANGED <<revoker, seenTick>>

SignalNext ==
    \/ \E t \in Token : Register(t) \/ RevokeInsert(t)
    \/ RevokeTeardown
    \/ RevokeTick
    \/ \E r \in Relay :
          Route(r) \/ Subscribe(r) \/ CheckRevoked(r) \/ Changed(r) \/ RelayEnds(r)

SignalSpec == SignalInit /\ [][SignalNext]_signalVars

(* revoke_token never waits for a relay, and tokio polls a woken task.     *)
SignalFairSpec ==
    /\ SignalSpec
    /\ WF_signalVars(RevokeTeardown)
    /\ WF_signalVars(RevokeTick)
    /\ \A r \in Relay : WF_signalVars(Subscribe(r) \/ CheckRevoked(r) \/ Changed(r))

-----------------------------------------------------------------------------
(* Type correctness.                                                       *)
SignalTypeOK ==
    /\ registered \subseteq Token
    /\ revoked \subseteq Token
    /\ tick \in 0..MaxTick
    /\ revoking \in Token \cup {NoToken}
    /\ step \in {"idle", "teardown", "tick"}
    /\ step # "idle" <=> revoking \in Token
    /\ relay \in [Relay -> RelayState]
    /\ seenTick \in [Relay -> 0..MaxTick]

Live(r) == relay[r] \in {"routed", "check", "wait"}

(* #554: a relay asleep on a tick it has already seen sleeps for a token   *)
(* that is not revoked, or whose revocation has yet to tick: the wake-up   *)
(* cannot be lost between is_revoked and changed().                        *)
NoMissedRevocation ==
    \A r \in Relay :
       relay[r] = "wait" /\ seenTick[r] = tick =>
          RelayToken[r] \notin revoked \/ revoking = RelayToken[r]

(* The tick is shared by all tokens; a relay is only cut for its own.      *)
CutOnlyRevoked == \A r \in Relay : relay[r] = "cut" => RelayToken[r] \in revoked

(* #554: every relay of a revoked token stops, however far it had come     *)
(* when the revocation struck.                                             *)
RevokedRelaysStop ==
    \A r \in Relay : RelayToken[r] \in revoked /\ Live(r) ~> ~Live(r)

(* A relay that starts once revoke_token has returned finds no route.      *)
NoRouteAfterRevoke ==
    [][\A r \in Relay :
          relay[r] = "idle" /\ relay'[r] = "routed" /\ RelayToken[r] \in revoked =>
             revoking = RelayToken[r]]_signalVars

=============================================================================
