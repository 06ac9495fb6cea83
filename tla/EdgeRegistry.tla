---------------------------- MODULE EdgeRegistry ----------------------------
(***************************************************************************)
(* The Edge's routing state: crates/edge/src/state.rs, EdgeState.          *)
(*                                                                         *)
(* A routing token is served by QUIC registrations (the agents map) and by *)
(* parked TCP-fallback connections (the tcp_agents map).  Public hostnames *)
(* are bound to tokens, an Agent may advertise a direct endpoint, and the  *)
(* control plane may revoke a token for good.  Every action below is one   *)
(* registration_lock critical section of the code; the pool operations     *)
(* that take only the tcp_agents mutex (delivery, reaping) are actions of  *)
(* their own and interleave freely with the others.                        *)
(*                                                                         *)
(* Who may register is decided in AgentKeys, which implements this module: *)
(* here Register and SwitchToEnforce leave that choice open.  The grants,  *)
(* tiers and access windows that a teardown also clears are FrontDoor's,   *)
(* the agent-key pins AgentKeys'.                                          *)
(***************************************************************************)
EXTENDS Integers, FiniteSets

CONSTANTS
    Token,      \* routing tokens
    Host,       \* normalised public hostnames
    NoToken,    \* "no entry" in the hosts map
    MaxReg,     \* bound: registrations ever made
    MaxParks,   \* bound: parked TCP-fallback connections per token
    MaxDirect   \* DIRECT_ENDPOINTS_MAX

ASSUME RegistryAssumption ==
    /\ IsFiniteSet(Token)   \* 32-byte strings
    /\ NoToken \notin Token
    /\ MaxReg \in Nat
    /\ MaxParks \in Nat
    /\ MaxDirect \in Nat \ {0}

VARIABLES
    serving,        \* run_edge has opened the listeners
    revoked,        \* revoked: tokens that must stay down
    agents,         \* agents: registration ids per token, oldest = smallest
    nextReg,        \* next_reg: the last id handed out
    candidates,     \* candidates: tokens with a reflexive candidate
    direct,         \* direct: tokens with an advertised endpoint
    parks,          \* tcp_agents: live and dead oneshot senders per token
    hosts,          \* hosts: hostname -> token
    hostsByToken,   \* hosts_by_token: the reverse index
    connected,      \* connected_since: tokens with a running streak
    activeGauge,    \* active_tunnels_gauge
    totalGauge      \* total_registrations_gauge

regVars == <<serving, revoked, agents, nextReg, candidates, direct, parks,
             hosts, hostsByToken, connected, activeGauge, totalGauge>>
gauges  == <<activeGauge, totalGauge>>
routing == <<hosts, hostsByToken>>

-----------------------------------------------------------------------------
NoParks == [live |-> 0, dead |-> 0]

(* Mutant: a queue of one counts as empty.                                 *)
MutHasTcpAgent(t) == parks[t].live + parks[t].dead > 1

(* has_tcp_agent asks the queue whether it is non-empty, not whether a     *)
(* sender in it still has a receiver.                                      *)
HasTcpAgent(t) == parks[t] # NoParks

Registered(t) == agents[t] # {}

(* Neither transport serves the token.                                     *)
Unserved(t) == ~Registered(t) /\ ~HasTcpAgent(t)

(* Mutant: the re-check under the lock is dropped.                         *)
MutAdmits(t) == serving

(* The check every registering operation makes under registration_lock.    *)
Admits(t) == serving /\ t \notin revoked

(* next_reg.fetch_add.                                                     *)
NextId == nextReg + 1

(* Mutant: decrement whether or not the id was still there.                *)
MutRemovedCount(t, id) == 1

(* How many entries the removal of one id takes away.                      *)
RemovedCount(t, id) == IF id \in agents[t] THEN 1 ELSE 0

DirectFull == Cardinality(direct) >= MaxDirect

(* Mutant: the reverse index is left behind.                               *)
MutClearHostsFor(t) ==
    /\ hosts' = [h \in Host |->
                    IF h \in hostsByToken[t] THEN NoToken ELSE hosts[h]]
    /\ UNCHANGED hostsByToken

(* clear_hosts_for: what the two hostname maps become.                     *)
ClearHostsFor(t) ==
    /\ hosts' = [h \in Host |->
                    IF h \in hostsByToken[t] THEN NoToken ELSE hosts[h]]
    /\ hostsByToken' = [hostsByToken EXCEPT ![t] = {}]

RegInit ==
    /\ serving = FALSE
    /\ revoked = {}
    /\ agents = [t \in Token |-> {}]
    /\ nextReg = 0
    /\ candidates = {}
    /\ direct = {}
    /\ parks = [t \in Token |-> NoParks]
    /\ hosts = [h \in Host |-> NoToken]
    /\ hostsByToken = [t \in Token |-> {}]
    /\ connected = {}
    /\ activeGauge = 0
    /\ totalGauge = 0

-----------------------------------------------------------------------------
(* Boot: the control plane's durable revocations are fetched and seeded    *)
(* before any agent-facing listener accepts.                               *)
SeedRevokedTokens(seed) ==
    /\ ~serving
    /\ serving' = TRUE
    /\ revoked' = revoked \cup seed
    /\ UNCHANGED <<agents, nextReg, candidates, direct, parks, routing,
                   connected, gauges>>

(* register_with_candidate_checked, admitted: displaced holds the          *)
(* registrations a repin takes away in the same critical section           *)
(* (take_registrations_locked), and is empty otherwise.                    *)
Register(t, displaced) ==
    /\ Admits(t)
    /\ nextReg < MaxReg
    /\ displaced \in {{}, agents[t]}
    /\ LET kept == agents[t] \ displaced
           id   == NextId
       IN  /\ agents' = [agents EXCEPT ![t] = kept \cup {id}]
           /\ nextReg' = id
           /\ activeGauge' = activeGauge
                 - (IF displaced # {} THEN 1 ELSE 0)
                 + (IF kept = {} THEN 1 ELSE 0)
           /\ totalGauge' = totalGauge - Cardinality(displaced) + 1
    /\ candidates' = candidates \cup {t}
    /\ connected' = connected \cup {t}
    /\ UNCHANGED <<serving, revoked, direct, parks, routing>>

(* remove_registration: run by a connection's task when the connection has *)
(* closed.  The id may be long gone (revoked, displaced, evicted).         *)
RemoveRegistration(t, id) ==
    /\ serving
    /\ id \in 1..nextReg
    /\ Registered(t)
    /\ LET left == agents[t] \ {id}
           hit  == RemovedCount(t, id)
       IN  /\ agents' = [agents EXCEPT ![t] = left]
           /\ totalGauge' = totalGauge - hit
           /\ IF left # {}
              THEN UNCHANGED <<activeGauge, candidates, direct, routing,
                               connected>>
              ELSE /\ activeGauge' = activeGauge - hit
                   /\ candidates' = candidates \ {t}
                   /\ direct' = direct \ {t}
                   /\ IF HasTcpAgent(t)
                      THEN UNCHANGED <<routing, connected>>
                      ELSE /\ ClearHostsFor(t)
                           /\ connected' = connected \ {t}
    /\ UNCHANGED <<serving, revoked, nextReg, parks>>

(* remove_locked, as revoke_token runs it: both transports go, and every   *)
(* map keyed by the token forgets it.                                      *)
RemoveLocked(t) ==
    /\ agents' = [agents EXCEPT ![t] = {}]
    /\ activeGauge' = activeGauge - (IF Registered(t) THEN 1 ELSE 0)
    /\ totalGauge' = totalGauge - Cardinality(agents[t])
    /\ candidates' = candidates \ {t}
    /\ direct' = direct \ {t}
    /\ parks' = [parks EXCEPT ![t] = NoParks]
    /\ ClearHostsFor(t)
    /\ connected' = connected \ {t}

(* revoke_token; the admin listener runs before the agent-facing ones.     *)
RevokeToken(t) ==
    /\ revoked' = revoked \cup {t}
    /\ RemoveLocked(t)
    /\ UNCHANGED <<serving, nextReg>>

-----------------------------------------------------------------------------
(* register_host: a takeover-safe bind, idempotent for the same token.     *)
RegisterHost(h, t) ==
    /\ Admits(t)
    /\ hosts[h] \in {NoToken, t}
    /\ hosts' = [hosts EXCEPT ![h] = t]
    /\ hostsByToken' = [hostsByToken EXCEPT ![t] = @ \cup {h}]
    /\ UNCHANGED <<serving, revoked, agents, nextReg, candidates, direct,
                   parks, connected, gauges>>

(* advertise_direct: a full map makes room by evicting a sampled entry     *)
(* whose token has neither a registration nor a park, or refuses.  The     *)
(* rotating sample is abstracted to any such entry.                        *)
AdvertiseDirect(t) ==
    /\ Admits(t)
    /\ \/ /\ t \in direct \/ ~DirectFull
          /\ direct' = direct \cup {t}
       \/ /\ t \notin direct
          /\ DirectFull
          /\ \E victim \in direct :
                /\ Unserved(victim)
                /\ direct' = (direct \ {victim}) \cup {t}
    /\ UNCHANGED <<serving, revoked, agents, nextReg, candidates, parks,
                   routing, connected, gauges>>

-----------------------------------------------------------------------------
(* park_tcp_agent_checked, admitted.                                       *)
ParkTcpAgent(t) ==
    /\ Admits(t)
    /\ parks[t].live + parks[t].dead < MaxParks
    /\ parks' = [parks EXCEPT ![t].live = @ + 1]
    /\ connected' = connected \cup {t}
    /\ UNCHANGED <<serving, revoked, agents, nextReg, candidates, direct,
                   routing, gauges>>

(* The Agent's TCP connection ends: its receiver is dropped, the sender    *)
(* stays queued.                                                           *)
ParkedAgentDies(t) ==
    /\ parks[t].live > 0
    /\ parks' = [parks EXCEPT ![t].live = @ - 1, ![t].dead = @ + 1]
    /\ UNCHANGED <<serving, revoked, agents, nextReg, candidates, direct,
                   routing, connected, gauges>>

(* deliver_to_tcp_agent: pops the front sender, live or dead.  The order   *)
(* of the queue is TcpFallback's concern; here either may be in front.     *)
DeliverToTcpAgent(t) ==
    /\ serving
    /\ \/ /\ parks[t].live > 0
          /\ parks' = [parks EXCEPT ![t].live = @ - 1]
       \/ /\ parks[t].dead > 0
          /\ parks' = [parks EXCEPT ![t].dead = @ - 1]
    /\ UNCHANGED <<serving, revoked, agents, nextReg, candidates, direct,
                   routing, connected, gauges>>

(* reap_dead_tcp_parks: one pass over every queue.                         *)
ReapDeadTcpParks ==
    /\ serving
    /\ \E t \in Token : parks[t].dead > 0
    /\ parks' = [t \in Token |-> [live |-> parks[t].live, dead |-> 0]]
    /\ UNCHANGED <<serving, revoked, agents, nextReg, candidates, direct,
                   routing, connected, gauges>>

(* flush_tunnel_history's eviction of idle tokens: a streak that lost its  *)
(* last park without passing through remove_registration ends here.        *)
EvictIdle(t) ==
    /\ serving
    /\ Unserved(t)
    /\ t \in connected
    /\ connected' = connected \ {t}
    /\ UNCHANGED <<serving, revoked, agents, nextReg, candidates, direct,
                   parks, routing, gauges>>

(* set_agent_key_policy: each tunnel in S goes from Log to Enforce and     *)
(* keeps only its proven registrations; its TCP pool is dropped whole.     *)
SwitchToEnforce(S, proven) ==
    /\ agents' = [t \in Token |->
                    IF t \in S THEN agents[t] \cap proven ELSE agents[t]]
    /\ parks' = [t \in Token |-> IF t \in S THEN NoParks ELSE parks[t]]
    /\ activeGauge' = activeGauge
          - Cardinality({t \in S : Registered(t) /\ agents[t] \cap proven = {}})
    /\ totalGauge' = totalGauge
          - Cardinality(UNION {agents[t] \ proven : t \in S})
    /\ UNCHANGED <<serving, revoked, nextReg, candidates, direct, routing,
                   connected>>

-----------------------------------------------------------------------------
RegNext ==
    \/ \E seed \in SUBSET Token : SeedRevokedTokens(seed)
    \/ \E t \in Token :
          \/ Register(t, {})
          \/ Register(t, agents[t])
          \/ \E id \in 1..nextReg : RemoveRegistration(t, id)
          \/ RevokeToken(t)
          \/ \E h \in Host : RegisterHost(h, t)
          \/ AdvertiseDirect(t)
          \/ ParkTcpAgent(t)
          \/ ParkedAgentDies(t)
          \/ DeliverToTcpAgent(t)
          \/ EvictIdle(t)
    \/ ReapDeadTcpParks
    \/ \E S \in SUBSET Token, proven \in SUBSET (1..nextReg) :
          SwitchToEnforce(S, proven)

RegSpec == RegInit /\ [][RegNext]_regVars

-----------------------------------------------------------------------------
(* Type correctness of the routing state.                                  *)
RegTypeOK ==
    /\ serving \in BOOLEAN
    /\ revoked \subseteq Token
    /\ nextReg \in 0..MaxReg
    /\ agents \in [Token -> SUBSET (1..nextReg)]
    /\ candidates \subseteq Token
    /\ direct \subseteq Token
    /\ parks \in [Token -> [live : 0..MaxParks, dead : 0..MaxParks]]
    /\ hosts \in [Host -> Token \cup {NoToken}]
    /\ hostsByToken \in [Token -> SUBSET Host]
    /\ connected \subseteq Token
    /\ activeGauge \in Int
    /\ totalGauge \in Int

Down(t) ==
    /\ ~Registered(t)
    /\ ~HasTcpAgent(t)
    /\ t \notin candidates
    /\ t \notin direct
    /\ t \notin connected
    /\ \A h \in Host : hosts[h] # t

(* #27 RB3, #411, #421, #665: once revoke_token has returned nothing of    *)
(* the token is left to route to, whatever registrations, parks, binds or  *)
(* direct advertisements were racing it, and its Agent's reconnect loop    *)
(* cannot bring anything back.                                             *)
RevokedIsDown == \A t \in revoked : Down(t)

(* #360: the reverse index used by clear_hosts_for is exactly the inverse  *)
(* of the hosts map, so a teardown removes all of a token's hostnames and  *)
(* none of another token's.                                                *)
HostIndexExact ==
    \A h \in Host, t \in Token : hosts[h] = t <=> h \in hostsByToken[t]

(* One registration id is live under at most one token: the connection     *)
(* task that removes its id can only take down what it registered.         *)
IdsUnique ==
    \A t, u \in Token : t # u => agents[t] \cap agents[u] = {}

(* #359: the lock-free gauges equal what a scan of the agents map would    *)
(* count, through every path that changes the map.                         *)
GaugesExact ==
    /\ activeGauge = Cardinality({t \in Token : Registered(t)})
    /\ totalGauge = Cardinality(UNION {agents[t] : t \in Token})

(* #661: a hostname loses its route only when its token has neither a QUIC *)
(* registration nor a TCP-fallback park left.                              *)
RouteKeptWhileServed ==
    [][\A h \in Host, t \in Token :
          hosts[h] = t /\ hosts'[h] # t =>
             agents'[t] = {} /\ parks'[t] = NoParks]_regVars

(* ADR-0025 Decision 6: a streak (connected_since) ends only when neither  *)
(* transport serves the token any more.                                    *)
StreakKeptWhileServed ==
    [][\A t \in connected :
          t \notin connected' => agents'[t] = {} /\ parks'[t] = NoParks]_regVars

(* A registered tunnel never loses its direct endpoint to the eviction     *)
(* that another token's advertisement causes in a full map.                *)
DirectKeptWhileRegistered ==
    [][\A t \in direct : agents'[t] # {} => t \in direct']_regVars

=============================================================================
