------------------------- MODULE EdgeRegistryProofs -------------------------
(***************************************************************************)
(* For any set of tokens and hostnames and any bounds: the routing state   *)
(* is well typed, a revoked token is down in every map, the hostname index *)
(* is exact, registration ids are never shared, no served tunnel loses its *)
(* hostnames, its streak or its direct endpoint, and the gauges count what *)
(* a scan would.                                                           *)
(***************************************************************************)
EXTENDS EdgeRegistry, FiniteSetTheorems, TLAPS

(* The parks of one token, live and dead together, respect their bound:    *)
(* a park that dies stays in its place.                                    *)
ParksBounded == \A t \in Token : parks[t].live + parks[t].dead <= MaxParks

(* Nothing is served before the listeners open, so that the revocations    *)
(* seeded at boot have nothing to tear down.                               *)
NothingBeforeServing == ~serving => \A t \in Token : Down(t)

(* The inductive invariant.  RevokedIsDown is not inductive alone: that a  *)
(* teardown leaves no hostname routed to the token rests on the reverse    *)
(* index being exact, and that seed_revoked_tokens needs no teardown rests *)
(* on nothing being served before it.                                      *)
RegInv ==
    /\ RegTypeOK
    /\ ParksBounded
    /\ HostIndexExact
    /\ IdsUnique
    /\ RevokedIsDown
    /\ NothingBeforeServing

(* Any set of handed-out ids is finite, so the gauges move by integers.    *)
LEMMA IdsFinite ==
  ASSUME NEW n \in Nat, NEW S, S \subseteq 1..n
  PROVE  Cardinality(S) \in Int
  <1>1. IsFiniteSet(1..n)
    BY FS_Interval
  <1>2. IsFiniteSet(S)
    BY ZenonT(30), <1>1, FS_Subset
  <1> QED
    BY <1>2, FS_CardinalityType

(* Any set of tokens is finite, too.                                       *)
LEMMA TokensFinite ==
  ASSUME NEW S, S \subseteq Token
  PROVE  Cardinality(S) \in Int
  <1>1. IsFiniteSet(S)
    BY Zenon, RegistryAssumption, FS_Subset DEF RegistryAssumption
  <1> QED
    BY <1>1, FS_CardinalityType

(* An empty registry satisfies the invariant.                              *)
LEMMA RegInitInv == RegInit => RegInv
  <1> SUFFICES ASSUME RegInit PROVE RegInv
    BY Zenon
  <1> USE RegistryAssumption DEF RegistryAssumption, RegInit
  <1>1. RegTypeOK
    <2>1. parks \in [Token -> [live : 0..MaxParks, dead : 0..MaxParks]]
      BY DEF NoParks
    <2>2. nextReg \in 0..MaxReg /\ agents \in [Token -> SUBSET (1..nextReg)]
      OBVIOUS
    <2>3. hosts \in [Host -> Token \cup {NoToken}] /\ hostsByToken \in [Token -> SUBSET Host]
      BY Zenon
    <2>4. serving \in BOOLEAN /\ revoked \subseteq Token /\ candidates \subseteq Token
      BY ZenonT(30)
    <2> QED
      BY <2>1, <2>2, <2>3, <2>4 DEF RegTypeOK
  <1>2. ParksBounded
    BY DEF ParksBounded, NoParks
  <1>3. HostIndexExact /\ IdsUnique
    BY Zenon DEF HostIndexExact, IdsUnique
  <1>4. \A t \in Token : Down(t)
    BY Zenon DEF Down, Registered, HasTcpAgent, NoParks
  <1> QED
    BY Zenon, <1>1, <1>2, <1>3, <1>4 DEF RegInv, RevokedIsDown, NothingBeforeServing

-----------------------------------------------------------------------------
(* clear_hosts_for unbinds every hostname of its token, touches no other,  *)
(* and keeps the index exact.                                              *)
LEMMA ClearHostsKeepsIndex ==
  ASSUME RegTypeOK, HostIndexExact, NEW t \in Token, ClearHostsFor(t)
  PROVE  /\ hosts' \in [Host -> Token \cup {NoToken}]
         /\ hostsByToken' \in [Token -> SUBSET Host]
         /\ HostIndexExact'
         /\ \A h \in Host : hosts'[h] # t
         /\ \A h \in Host : hosts'[h] \in {hosts[h], NoToken}
  BY RegistryAssumption
     DEF RegistryAssumption, RegTypeOK, HostIndexExact, ClearHostsFor

(* A token that is down stays down in a step that serves nothing new.      *)
LEMMA StaysDown ==
  ASSUME NEW t \in Token,
         Down(t),
         agents'[t] \subseteq agents[t],
         parks[t] = NoParks => parks'[t] = NoParks,
         t \in candidates' => t \in candidates,
         t \in direct' => t \in direct,
         t \in connected' => t \in connected,
         \A h \in Host : hosts'[h] \in {hosts[h], NoToken}
  PROVE  Down(t)'
  BY Zenon, RegistryAssumption
     DEF RegistryAssumption, Down, Registered, HasTcpAgent, NoParks

(* The two Down conjuncts of the invariant, for a step that neither        *)
(* revokes nor opens the listeners: only tokens that are not admitted      *)
(* matter, and all of those are down.                                      *)
LEMMA DownKept ==
  ASSUME RegInv, revoked' = revoked, serving' = serving,
         \A t \in Token : Down(t) /\ ~Admits(t) => Down(t)'
  PROVE  RevokedIsDown' /\ NothingBeforeServing'
  BY Zenon DEF RegInv, RegTypeOK, RevokedIsDown, NothingBeforeServing, Admits

-----------------------------------------------------------------------------
(* seed_revoked_tokens: nothing is up yet.                                 *)
LEMMA SeedKeepsInv ==
  ASSUME RegInv, NEW seed \in SUBSET Token, SeedRevokedTokens(seed)
  PROVE  RegInv'
  <1> USE DEF SeedRevokedTokens, gauges, routing, RegInv
  <1>1. RegTypeOK' /\ ParksBounded' /\ HostIndexExact' /\ IdsUnique'
    BY Zenon DEF RegTypeOK, ParksBounded, HostIndexExact, IdsUnique
  <1>2. \A t \in Token : Down(t)'
    BY Zenon DEF NothingBeforeServing, Down, Registered, HasTcpAgent, NoParks
  <1> QED
    BY Zenon, <1>1, <1>2 DEF RevokedIsDown, NothingBeforeServing, RegTypeOK

(* A registration takes a fresh id and serves an admitted token only.      *)
LEMMA RegisterKeepsInv ==
  ASSUME RegInv, NEW t \in Token, NEW displaced, Register(t, displaced)
  PROVE  RegInv'
  <1> USE RegistryAssumption DEF RegistryAssumption, RegInv
  <1>1. /\ displaced \subseteq 1..nextReg
        /\ nextReg' = nextReg + 1 /\ nextReg' \in 0..MaxReg
        /\ agents' \in [Token -> SUBSET (1..nextReg')]
    BY DEF Register, NextId, RegTypeOK
  <1>2. activeGauge' \in Int /\ totalGauge' \in Int
    <2>1. nextReg \in Nat
      BY DEF RegTypeOK
    <2>2. Cardinality(displaced) \in Int
      BY ZenonT(30), <1>1, <2>1, IdsFinite
    <2> QED
      BY <2>2 DEF Register, RegTypeOK
  <1>3. RegTypeOK'
    BY Zenon, <1>1, <1>2 DEF Register, RegTypeOK, routing
  <1>4. ParksBounded' /\ HostIndexExact'
    BY Zenon DEF Register, ParksBounded, HostIndexExact, routing
  <1>5. IdsUnique'
    BY DEF Register, NextId, RegTypeOK, IdsUnique
  <1>6. RevokedIsDown' /\ NothingBeforeServing'
    <2>1. ASSUME NEW u \in Token, Down(u), ~Admits(u)
          PROVE  Down(u)'
      <3>1. u # t
        BY Zenon, <2>1 DEF Register
      <3> QED
        BY Zenon, <2>1, <3>1, StaysDown DEF Register, RegTypeOK, routing
    <2> QED
      BY Zenon, <2>1, DownKept DEF Register
  <1> QED
    BY Zenon, <1>3, <1>4, <1>5, <1>6

(* remove_registration.                                                    *)
LEMMA RemoveKeepsInv ==
  ASSUME RegInv, NEW t \in Token, NEW id, RemoveRegistration(t, id)
  PROVE  RegInv'
  <1> USE RegistryAssumption DEF RegistryAssumption, RegInv
  <1>1. RemovedCount(t, id) \in Int
    BY DEF RemovedCount
  <1>2. /\ hosts' \in [Host -> Token \cup {NoToken}]
        /\ hostsByToken' \in [Token -> SUBSET Host]
        /\ HostIndexExact'
        /\ \A h \in Host : hosts'[h] \in {hosts[h], NoToken}
    <2>1. CASE ClearHostsFor(t)
      BY Zenon, <2>1, ClearHostsKeepsIndex
    <2>2. CASE UNCHANGED routing
      BY Zenon, <2>2 DEF routing, RegTypeOK, HostIndexExact
    <2> QED
      BY Zenon, <2>1, <2>2 DEF RemoveRegistration, routing
  <1>3. /\ agents' \in [Token -> SUBSET (1..nextReg')]
        /\ \A u \in Token : agents'[u] \subseteq agents[u]
        /\ candidates' \subseteq candidates /\ direct' \subseteq direct
        /\ connected' \subseteq connected
    BY Zenon DEF RemoveRegistration, RegTypeOK
  <1>4. activeGauge' \in Int /\ totalGauge' \in Int
    BY <1>1 DEF RemoveRegistration, RegTypeOK
  <1>5. RegTypeOK' /\ ParksBounded' /\ IdsUnique'
    BY <1>2, <1>3, <1>4 DEF RemoveRegistration, RegTypeOK, ParksBounded, IdsUnique
  <1>6. RevokedIsDown' /\ NothingBeforeServing'
    <2>1. ASSUME NEW u \in Token, Down(u)
          PROVE  Down(u)'
      BY Zenon, <2>1, <1>2, <1>3, StaysDown DEF RemoveRegistration
    <2> QED
      BY Zenon, <2>1, DownKept DEF RemoveRegistration
  <1> QED
    BY Zenon, <1>2, <1>5, <1>6

(* revoke_token: the token goes down in the same step.                     *)
LEMMA RevokeKeepsInv ==
  ASSUME RegInv, NEW t \in Token, RevokeToken(t)
  PROVE  RegInv'
  <1> USE RegistryAssumption DEF RegistryAssumption, RegInv, RevokeToken
  <1>1. RemoveLocked(t)
    BY Zenon
  <1>2. /\ hosts' \in [Host -> Token \cup {NoToken}]
        /\ hostsByToken' \in [Token -> SUBSET Host]
        /\ HostIndexExact'
        /\ \A h \in Host : hosts'[h] # t
        /\ \A h \in Host : hosts'[h] \in {hosts[h], NoToken}
    BY Zenon, <1>1, ClearHostsKeepsIndex DEF RemoveLocked
  <1>3. parks' \in [Token -> [live : 0..MaxParks, dead : 0..MaxParks]] /\ ParksBounded'
    BY <1>1 DEF RemoveLocked, RegTypeOK, ParksBounded, NoParks
  <1>4. activeGauge' \in Int /\ totalGauge' \in Int
    <2>1. nextReg \in Nat /\ agents[t] \subseteq 1..nextReg
      BY DEF RegTypeOK
    <2>2. Cardinality(agents[t]) \in Int
      BY Zenon, <2>1, IdsFinite
    <2> QED
      BY <1>1, <2>2 DEF RemoveLocked, RegTypeOK
  <1>5. agents' \in [Token -> SUBSET (1..nextReg')] /\ IdsUnique'
    BY Zenon, <1>1 DEF RemoveLocked, RegTypeOK, IdsUnique
  <1>6. RegTypeOK'
    BY <1>1, <1>2, <1>3, <1>4, <1>5 DEF RemoveLocked, RegTypeOK
  <1>7. Down(t)'
    BY <1>1, <1>2 DEF RemoveLocked, RegTypeOK, Down, Registered, HasTcpAgent, NoParks
  <1>8. ASSUME NEW u \in Token, Down(u)
        PROVE  Down(u)'
    BY <1>1, <1>2, <1>8, StaysDown DEF RemoveLocked, RegTypeOK
  <1> QED
    BY Zenon, <1>2, <1>3, <1>5, <1>6, <1>7, <1>8 DEF RevokedIsDown, NothingBeforeServing, RegTypeOK

(* register_host binds an admitted token only, and both maps together.     *)
LEMMA BindKeepsInv ==
  ASSUME RegInv, NEW t \in Token, NEW h \in Host, RegisterHost(h, t)
  PROVE  RegInv'
  <1> USE RegistryAssumption DEF RegistryAssumption, RegInv, RegisterHost, gauges
  <1>1. RegTypeOK' /\ ParksBounded' /\ IdsUnique'
    BY Zenon DEF RegTypeOK, ParksBounded, IdsUnique
  <1>2. HostIndexExact'
    BY DEF RegTypeOK, HostIndexExact
  <1>3. RevokedIsDown' /\ NothingBeforeServing'
    <2>1. ASSUME NEW u \in Token, Down(u), ~Admits(u)
          PROVE  Down(u)'
      <3>1. u # t
        BY Zenon, <2>1
      <3> QED
        BY Zenon, <2>1, <3>1 DEF RegTypeOK, Down, Registered, HasTcpAgent, NoParks
    <2> QED
      BY Zenon, <2>1, DownKept
  <1> QED
    BY Zenon, <1>1, <1>2, <1>3

(* advertise_direct.                                                       *)
LEMMA AdvertiseKeepsInv ==
  ASSUME RegInv, NEW t \in Token, AdvertiseDirect(t)
  PROVE  RegInv'
  <1> USE DEF RegInv, AdvertiseDirect, gauges, routing
  <1>1. RegTypeOK' /\ ParksBounded' /\ IdsUnique' /\ HostIndexExact'
    BY DEF RegTypeOK, ParksBounded, IdsUnique, HostIndexExact
  <1>2. RevokedIsDown' /\ NothingBeforeServing'
    <2>1. ASSUME NEW u \in Token, Down(u), ~Admits(u)
          PROVE  Down(u)'
      <3>1. u # t
        BY Zenon, <2>1
      <3> QED
        BY Zenon, <2>1, <3>1, StaysDown
    <2> QED
      BY Zenon, <2>1, DownKept
  <1> QED
    BY Zenon, <1>1, <1>2

(* A park of an admitted token.                                            *)
LEMMA ParkKeepsInv ==
  ASSUME RegInv, NEW t \in Token, ParkTcpAgent(t)
  PROVE  RegInv'
  <1> USE RegistryAssumption DEF RegistryAssumption, RegInv, ParkTcpAgent, gauges, routing
  <1>1. RegTypeOK' /\ ParksBounded'
    BY DEF RegTypeOK, ParksBounded
  <1>2. IdsUnique' /\ HostIndexExact'
    BY Zenon DEF IdsUnique, HostIndexExact
  <1>3. RevokedIsDown' /\ NothingBeforeServing'
    <2>1. ASSUME NEW u \in Token, Down(u), ~Admits(u)
          PROVE  Down(u)'
      <3>1. u # t
        BY Zenon, <2>1
      <3> QED
        BY Zenon, <2>1, <3>1, StaysDown DEF RegTypeOK
    <2> QED
      BY Zenon, <2>1, DownKept
  <1> QED
    BY Zenon, <1>1, <1>2, <1>3

(* The steps of the pool that take only the tcp_agents mutex: a park dies, *)
(* is delivered to, or is reaped.  None of them can serve a token that had *)
(* no park.                                                                *)
LEMMA PoolKeepsInv ==
  ASSUME RegInv,
         \/ ReapDeadTcpParks
         \/ \E t \in Token : ParkedAgentDies(t) \/ DeliverToTcpAgent(t)
  PROVE  RegInv'
  <1> USE RegistryAssumption DEF RegistryAssumption, RegInv
  <1>1. UNCHANGED <<serving, revoked, agents, nextReg, candidates, direct, hosts,
                    hostsByToken, connected, activeGauge, totalGauge>>
    BY ZenonT(30) DEF ReapDeadTcpParks, ParkedAgentDies, DeliverToTcpAgent, gauges, routing
  <1> DEFINE PoolOK ==
        /\ parks' \in [Token -> [live : 0..MaxParks, dead : 0..MaxParks]]
        /\ ParksBounded'
        /\ \A u \in Token : parks[u] = NoParks => parks'[u] = NoParks
  <1>2. PoolOK
    <2>1. CASE ReapDeadTcpParks
      BY <2>1 DEF ReapDeadTcpParks, RegTypeOK, ParksBounded, NoParks
    <2>2. ASSUME NEW t \in Token, ParkedAgentDies(t)
          PROVE  PoolOK
      BY <2>2 DEF ParkedAgentDies, RegTypeOK, ParksBounded, NoParks
    <2>3. ASSUME NEW t \in Token, DeliverToTcpAgent(t)
          PROVE  PoolOK
      <3>1. CASE parks[t].live > 0 /\ parks' = [parks EXCEPT ![t].live = @ - 1]
        BY <3>1 DEF RegTypeOK, ParksBounded, NoParks
      <3>2. CASE parks[t].dead > 0 /\ parks' = [parks EXCEPT ![t].dead = @ - 1]
        BY <3>2 DEF RegTypeOK, ParksBounded, NoParks
      <3> QED
        BY Zenon, <2>3, <3>1, <3>2 DEF DeliverToTcpAgent
    <2> QED
      BY Zenon, <2>1, <2>2, <2>3
  <1>3. RegTypeOK' /\ HostIndexExact' /\ IdsUnique'
    BY Zenon, <1>1, <1>2 DEF RegTypeOK, HostIndexExact, IdsUnique
  <1>4. RevokedIsDown' /\ NothingBeforeServing'
    <2>1. ASSUME NEW u \in Token, Down(u)
          PROVE  Down(u)'
      BY Zenon, <2>1, <1>1, <1>2, StaysDown
    <2> QED
      BY Zenon, <1>1, <2>1, DownKept
  <1> QED
    BY Zenon, <1>2, <1>3, <1>4

(* The history flush's eviction ends a streak and nothing else.            *)
LEMMA EvictKeepsInv ==
  ASSUME RegInv, NEW t \in Token, EvictIdle(t)
  PROVE  RegInv'
  <1> USE DEF RegInv, EvictIdle, gauges, routing
  <1>1. RegTypeOK' /\ ParksBounded' /\ IdsUnique' /\ HostIndexExact'
    BY Zenon DEF RegTypeOK, ParksBounded, IdsUnique, HostIndexExact
  <1>2. RevokedIsDown' /\ NothingBeforeServing'
    <2>1. ASSUME NEW u \in Token, Down(u)
          PROVE  Down(u)'
      BY Zenon, <2>1, StaysDown
    <2> QED
      BY Zenon, <2>1, DownKept
  <1> QED
    BY Zenon, <1>1, <1>2

(* The switch to Enforce only takes registrations and parks away.          *)
LEMMA SwitchKeepsInv ==
  ASSUME RegInv, NEW S \in SUBSET Token, NEW proven, SwitchToEnforce(S, proven)
  PROVE  RegInv'
  <1> USE RegistryAssumption DEF RegistryAssumption, RegInv
  <1>1. UNCHANGED <<serving, revoked, nextReg, candidates, direct, hosts,
                    hostsByToken, connected>>
    BY Zenon DEF SwitchToEnforce, routing
  <1>2. /\ agents' \in [Token -> SUBSET (1..nextReg')]
        /\ \A u \in Token : agents'[u] \subseteq agents[u]
    BY Zenon, <1>1 DEF SwitchToEnforce, RegTypeOK
  <1>3. /\ parks' \in [Token -> [live : 0..MaxParks, dead : 0..MaxParks]]
        /\ ParksBounded'
        /\ \A u \in Token : parks[u] = NoParks => parks'[u] = NoParks
    BY DEF SwitchToEnforce, RegTypeOK, ParksBounded, NoParks
  <1>4. activeGauge' \in Int /\ totalGauge' \in Int
    <2> DEFINE emptied == {t \in S : Registered(t) /\ agents[t] \cap proven = {}}
               evicted == UNION {agents[t] \ proven : t \in S}
    <2>1. Cardinality(emptied) \in Int
      BY Zenon, TokensFinite
    <2>2. nextReg \in Nat /\ evicted \subseteq 1..nextReg
      BY DEF RegTypeOK
    <2>3. Cardinality(evicted) \in Int
      BY Zenon, <2>2, IdsFinite
    <2> QED
      BY <2>1, <2>3 DEF SwitchToEnforce, RegTypeOK
  <1>5. RegTypeOK' /\ HostIndexExact' /\ IdsUnique'
    BY <1>1, <1>2, <1>3, <1>4 DEF RegTypeOK, HostIndexExact, IdsUnique
  <1>6. RevokedIsDown' /\ NothingBeforeServing'
    <2>1. ASSUME NEW u \in Token, Down(u)
          PROVE  Down(u)'
      BY Zenon, <2>1, <1>1, <1>2, <1>3, StaysDown
    <2> QED
      BY Zenon, <1>1, <2>1, DownKept
  <1> QED
    BY Zenon, <1>3, <1>5, <1>6

-----------------------------------------------------------------------------
(* Every step of the routing state keeps the invariant.                    *)
LEMMA RegStep == RegInv /\ [RegNext]_regVars => RegInv'
  <1> SUFFICES ASSUME RegInv, [RegNext]_regVars
               PROVE  RegInv'
    BY Zenon
  <1>1. CASE UNCHANGED regVars
    BY Zenon, <1>1 DEF regVars, RegInv, RegTypeOK, ParksBounded, HostIndexExact, IdsUnique,
                RevokedIsDown, NothingBeforeServing, Down, Registered, HasTcpAgent, NoParks
  <1>2. CASE RegNext
    BY Zenon, <1>2, SeedKeepsInv, RegisterKeepsInv, RemoveKeepsInv, RevokeKeepsInv,
       BindKeepsInv, AdvertiseKeepsInv, ParkKeepsInv, PoolKeepsInv, EvictKeepsInv,
       SwitchKeepsInv
       DEF RegNext
  <1> QED
    BY Zenon, <1>1, <1>2

(* RegInv is inductive.                                                    *)
LEMMA RegInvariant == RegSpec => []RegInv
  BY RegInitInv, RegStep, PTL DEF RegSpec

(* The routing state keeps its types, for any tokens, hostnames, bounds.   *)
THEOREM RegistryTypes == RegSpec => []RegTypeOK
  <1>1. RegInv => RegTypeOK
    BY Zenon DEF RegInv
  <1> QED
    BY <1>1, RegInvariant, PTL

(* #27 RB3, #411, #421, #665: a revoked token is down in every map of the  *)
(* routing state and nothing brings it back.                               *)
THEOREM RevokedStaysDown == RegSpec => []RevokedIsDown
  <1>1. RegInv => RevokedIsDown
    BY Zenon DEF RegInv
  <1> QED
    BY <1>1, RegInvariant, PTL

(* #360: hosts_by_token is always the inverse of hosts.                    *)
THEOREM HostIndexIsInverse == RegSpec => []HostIndexExact
  <1>1. RegInv => HostIndexExact
    BY Zenon DEF RegInv
  <1> QED
    BY <1>1, RegInvariant, PTL

(* No registration id is ever live under two tokens.                       *)
THEOREM IdsNeverShared == RegSpec => []IdsUnique
  <1>1. RegInv => IdsUnique
    BY Zenon DEF RegInv
  <1> QED
    BY <1>1, RegInvariant, PTL

-----------------------------------------------------------------------------
(* The steps that touch a hostname's route or end a streak are a removal   *)
(* that leaves neither transport, a revocation, or (for streaks) the idle  *)
(* eviction.                                                               *)
LEMMA RouteStep ==
  ASSUME RegInv, RegNext, NEW h \in Host, NEW t \in Token, hosts[h] = t, hosts'[h] # t
  PROVE  agents'[t] = {} /\ parks'[t] = NoParks
  <1> USE RegistryAssumption DEF RegistryAssumption, RegInv, RegTypeOK, HostIndexExact
  <1>1. ASSUME NEW u \in Token, NEW id, RemoveRegistration(u, id)
        PROVE  agents'[t] = {} /\ parks'[t] = NoParks
    <2>1. ClearHostsFor(u) /\ agents'[u] = {} /\ ~HasTcpAgent(u) /\ parks' = parks
      BY <1>1 DEF RemoveRegistration, routing
    <2>2. u = t
      BY Zenon, <2>1 DEF ClearHostsFor
    <2> QED
      BY Zenon, <2>1, <2>2 DEF HasTcpAgent
  <1>2. ASSUME NEW u \in Token, RevokeToken(u)
        PROVE  agents'[t] = {} /\ parks'[t] = NoParks
    <2>1. u = t
      BY Zenon, <1>2 DEF RevokeToken, RemoveLocked, ClearHostsFor
    <2> QED
      BY Zenon, <1>2, <2>1 DEF RevokeToken, RemoveLocked
  <1>3. ASSUME NEW u \in Token, NEW g \in Host, RegisterHost(g, u)
        PROVE  FALSE
    BY <1>3 DEF RegisterHost
  <1>4. ASSUME UNCHANGED hosts
        PROVE  FALSE
    BY Zenon, <1>4
  <1> QED
    BY ZenonT(30), <1>1, <1>2, <1>3, <1>4
       DEF RegNext, SeedRevokedTokens, Register, AdvertiseDirect, ParkTcpAgent,
           ParkedAgentDies, DeliverToTcpAgent, EvictIdle, ReapDeadTcpParks,
           SwitchToEnforce, routing

(* #661: a hostname keeps its route as long as either transport serves its *)
(* token.                                                                  *)
THEOREM RoutesKept == RegSpec => RouteKeptWhileServed
  <1> DEFINE A == \A h \in Host, t \in Token :
                     hosts[h] = t /\ hosts'[h] # t => agents'[t] = {} /\ parks'[t] = NoParks
  <1>1. RegInv /\ [RegNext]_regVars => [A]_regVars
    BY Zenon, RouteStep DEF regVars
  <1> QED
    BY <1>1, RegInvariant, PTL DEF RegSpec, RouteKeptWhileServed

(* A step that ends a streak leaves neither transport.                     *)
LEMMA StreakStep ==
  ASSUME RegInv, RegNext, NEW t \in connected, t \notin connected'
  PROVE  agents'[t] = {} /\ parks'[t] = NoParks
  <1> USE DEF RegInv, RegTypeOK
  <1>1. ASSUME NEW u \in Token, NEW id, RemoveRegistration(u, id)
        PROVE  agents'[t] = {} /\ parks'[t] = NoParks
    BY Zenon, <1>1 DEF RemoveRegistration, HasTcpAgent
  <1>2. ASSUME NEW u \in Token, RevokeToken(u)
        PROVE  agents'[t] = {} /\ parks'[t] = NoParks
    BY Zenon, <1>2 DEF RevokeToken, RemoveLocked
  <1>3. ASSUME NEW u \in Token, EvictIdle(u)
        PROVE  agents'[t] = {} /\ parks'[t] = NoParks
    BY Zenon, <1>3 DEF EvictIdle, Unserved, Registered, HasTcpAgent
  <1>4. ASSUME connected \subseteq connected'
        PROVE  FALSE
    BY Zenon, <1>4
  <1> QED
    BY ZenonT(30), <1>1, <1>2, <1>3, <1>4
       DEF RegNext, SeedRevokedTokens, Register, RegisterHost, AdvertiseDirect,
           ParkTcpAgent, ParkedAgentDies, DeliverToTcpAgent, ReapDeadTcpParks,
           SwitchToEnforce

(* ADR-0025 Decision 6: a streak ends only when neither transport serves.  *)
THEOREM StreaksKept == RegSpec => StreakKeptWhileServed
  <1> DEFINE A == \A t \in connected :
                     t \notin connected' => agents'[t] = {} /\ parks'[t] = NoParks
  <1>1. RegInv /\ [RegNext]_regVars => [A]_regVars
    BY Zenon, StreakStep DEF regVars
  <1> QED
    BY <1>1, RegInvariant, PTL DEF RegSpec, StreakKeptWhileServed

(* A step that takes an advertised endpoint away leaves no registration.   *)
LEMMA DirectStep ==
  ASSUME RegInv, RegNext, NEW t \in direct, t \notin direct'
  PROVE  agents'[t] = {}
  <1> USE DEF RegInv, RegTypeOK
  <1>1. ASSUME NEW u \in Token, NEW id, RemoveRegistration(u, id)
        PROVE  agents'[t] = {}
    BY Zenon, <1>1 DEF RemoveRegistration
  <1>2. ASSUME NEW u \in Token, RevokeToken(u)
        PROVE  agents'[t] = {}
    BY Zenon, <1>2 DEF RevokeToken, RemoveLocked
  <1>3. ASSUME NEW u \in Token, AdvertiseDirect(u)
        PROVE  agents'[t] = {}
    BY Zenon, <1>3 DEF AdvertiseDirect, Unserved, Registered
  <1>4. ASSUME direct' = direct
        PROVE  FALSE
    BY Zenon, <1>4
  <1> QED
    BY ZenonT(30), <1>1, <1>2, <1>3, <1>4
       DEF RegNext, SeedRevokedTokens, Register, RegisterHost, ParkTcpAgent,
           ParkedAgentDies, DeliverToTcpAgent, ReapDeadTcpParks, EvictIdle,
           SwitchToEnforce

(* advertise_direct on a full map makes room at the cost of no registered  *)
(* tunnel, and no other step takes its endpoint while it is registered.    *)
THEOREM DirectKept == RegSpec => DirectKeptWhileRegistered
  <1> DEFINE A == \A t \in direct : agents'[t] # {} => t \in direct'
  <1>1. RegInv /\ [RegNext]_regVars => [A]_regVars
    BY Zenon, DirectStep DEF regVars
  <1> QED
    BY <1>1, RegInvariant, PTL DEF RegSpec, DirectKeptWhileRegistered

-----------------------------------------------------------------------------
(* What the two gauges should count.                                       *)
LiveTokens == {t \in Token : Registered(t)}
LiveIds    == UNION {agents[t] : t \in Token}

(* Both are finite.                                                        *)
LEMMA LiveFinite ==
  ASSUME RegInv
  PROVE  IsFiniteSet(LiveTokens) /\ IsFiniteSet(LiveIds)
  <1>1. IsFiniteSet(LiveTokens)
    BY Zenon, RegistryAssumption, FS_Subset DEF RegistryAssumption, LiveTokens
  <1>2. nextReg \in Int /\ LiveIds \in SUBSET (1..nextReg)
    BY DEF RegInv, RegTypeOK, LiveIds
  <1>3. IsFiniteSet(1..nextReg)
    BY <1>2, FS_Interval
  <1>4. IsFiniteSet(LiveIds)
    BY Zenon, <1>2, <1>3, FS_Subset
  <1> QED
    BY Zenon, <1>1, <1>4

(* Taking a part away.                                                     *)
LEMMA CardinalityLess ==
  ASSUME NEW S, IsFiniteSet(S), NEW T \in SUBSET S
  PROVE  Cardinality(S \ T) = Cardinality(S) - Cardinality(T)
  <1>1. S \cap T = T
    BY Zenon
  <1> QED
    BY Zenon, <1>1, FS_Difference

(* The gauges after a step, from what the step adds to the two sets and    *)
(* takes from them.                                                        *)
LEMMA GaugesFollow ==
  ASSUME RegInv, GaugesExact,
         NEW T \in SUBSET LiveTokens, NEW I \in SUBSET LiveIds,
         LiveTokens' = LiveTokens \ T, LiveIds' = LiveIds \ I,
         activeGauge' = activeGauge - Cardinality(T),
         totalGauge' = totalGauge - Cardinality(I)
  PROVE  GaugesExact'
  <1>1. /\ Cardinality(LiveTokens') = Cardinality(LiveTokens) - Cardinality(T)
        /\ Cardinality(LiveIds') = Cardinality(LiveIds) - Cardinality(I)
    BY Zenon, LiveFinite, CardinalityLess
  <1> QED
    BY Zenon, <1>1 DEF GaugesExact, LiveTokens, LiveIds

(* An id that is live for one token is live for no other.                  *)
LEMMA IdsOfOne ==
  ASSUME RegInv, NEW t \in Token, NEW u \in Token, NEW i \in agents[t], i \in agents[u]
  PROVE  t = u
  BY Zenon DEF RegInv, IdsUnique

(* A registration: the displaced ids go, the new one is fresh.             *)
LEMMA RegisterGauges ==
  ASSUME RegInv, GaugesExact, NEW t \in Token, NEW displaced, Register(t, displaced)
  PROVE  GaugesExact'
  <1>1. /\ displaced \in {{}, agents[t]} /\ agents \in [Token -> SUBSET (1..nextReg)]
        /\ nextReg \in Nat
        /\ agents' = [agents EXCEPT ![t] = (agents[t] \ displaced) \cup {nextReg + 1}]
        /\ activeGauge' = activeGauge - (IF displaced # {} THEN 1 ELSE 0)
                                      + (IF agents[t] \ displaced = {} THEN 1 ELSE 0)
        /\ totalGauge' = totalGauge - Cardinality(displaced) + 1
    BY DEF Register, NextId, RegInv, RegTypeOK
  <1>2. /\ activeGauge = Cardinality(LiveTokens) /\ totalGauge = Cardinality(LiveIds)
        /\ IsFiniteSet(LiveTokens) /\ IsFiniteSet(LiveIds)
    BY Zenon, LiveFinite DEF GaugesExact, LiveTokens, LiveIds
  <1>3. Cardinality(LiveTokens) \in Nat /\ Cardinality(LiveIds) \in Nat
    BY Zenon, <1>2, FS_CardinalityType
  <1>4. activeGauge' = Cardinality(LiveTokens')
    <2>1. LiveTokens' = LiveTokens \cup {t}
      BY Zenon, <1>1 DEF LiveTokens, Registered
    <2>2. t \in LiveTokens <=> agents[t] # {}
      BY Zenon DEF LiveTokens, Registered
    <2>3. Cardinality(LiveTokens') = Cardinality(LiveTokens) + (IF agents[t] = {} THEN 1 ELSE 0)
      <3>1. Cardinality(LiveTokens \cup {t}) =
               IF t \in LiveTokens THEN Cardinality(LiveTokens) ELSE Cardinality(LiveTokens) + 1
        BY Zenon, <1>2, FS_AddElement
      <3> QED
        BY <1>3, <2>1, <2>2, <3>1
    <2>4. activeGauge' = activeGauge + (IF agents[t] = {} THEN 1 ELSE 0)
      BY <1>1, <1>2, <1>3
    <2> QED
      BY Zenon, <1>2, <2>3, <2>4
  <1>5. totalGauge' = Cardinality(LiveIds')
    <2>1. displaced \in SUBSET LiveIds /\ nextReg + 1 \notin LiveIds
      BY <1>1 DEF LiveIds
    <2>2. ASSUME NEW i
          PROVE  i \in LiveIds' <=> i \in (LiveIds \ displaced) \cup {nextReg + 1}
      <3>1. i \in LiveIds' <=> \E u \in Token : i \in agents'[u]
        BY Zenon DEF LiveIds
      <3>2. i \in LiveIds <=> \E u \in Token : i \in agents[u]
        BY Zenon DEF LiveIds
      <3>3. i \in displaced => \A u \in Token : i \in agents[u] => u = t
        BY Zenon, <1>1, IdsOfOne
      <3> QED
        BY Zenon, <1>1, <3>1, <3>2, <3>3
    <2>3. LiveIds' = (LiveIds \ displaced) \cup {nextReg + 1}
      BY Zenon, <2>2
    <2>4. /\ IsFiniteSet(LiveIds \ displaced)
          /\ Cardinality(LiveIds \ displaced) = Cardinality(LiveIds) - Cardinality(displaced)
      BY Zenon, <1>2, <2>1, FS_Difference, CardinalityLess
    <2>5. Cardinality(LiveIds') = Cardinality(LiveIds \ displaced) + 1
      <3>1. Cardinality((LiveIds \ displaced) \cup {nextReg + 1}) =
               IF nextReg + 1 \in LiveIds \ displaced THEN Cardinality(LiveIds \ displaced)
               ELSE Cardinality(LiveIds \ displaced) + 1
        BY Zenon, <2>4, FS_AddElement
      <3> QED
        BY Zenon, <2>1, <2>3, <3>1
    <2> QED
      BY Zenon, <1>1, <1>2, <2>4, <2>5
  <1> QED
    BY Zenon, <1>4, <1>5 DEF GaugesExact, LiveTokens, LiveIds

(* A removal: one id, if it was still there, and the token with its last.  *)
LEMMA RemoveGauges ==
  ASSUME RegInv, GaugesExact, NEW t \in Token, NEW id, RemoveRegistration(t, id)
  PROVE  GaugesExact'
  <1> DEFINE I == agents[t] \cap {id}
             T == IF agents[t] = {id} THEN {t} ELSE {}
  <1>1. /\ agents \in [Token -> SUBSET (1..nextReg)] /\ agents[t] # {}
        /\ agents' = [agents EXCEPT ![t] = agents[t] \ {id}]
        /\ totalGauge' = totalGauge - RemovedCount(t, id)
        /\ activeGauge' = IF agents[t] \ {id} # {} THEN activeGauge
                          ELSE activeGauge - RemovedCount(t, id)
    BY Zenon DEF RemoveRegistration, Registered, RegInv, RegTypeOK
  <1>2. Cardinality(I) = RemovedCount(t, id)
    <2>1. I = IF id \in agents[t] THEN {id} ELSE {}
      BY Zenon
    <2> QED
      BY Zenon, <2>1, FS_EmptySet, FS_Singleton DEF RemovedCount
  <1>3. Cardinality(T) = (IF agents[t] = {id} THEN 1 ELSE 0)
    BY Zenon, FS_EmptySet, FS_Singleton
  <1>4. activeGauge \in Int /\ activeGauge' = activeGauge - Cardinality(T)
    <2>1. agents[t] \ {id} = {} <=> agents[t] = {id}
      BY Zenon, <1>1
    <2> QED
      BY <1>1, <1>3, <2>1 DEF RemovedCount, RegInv, RegTypeOK
  <1>5. T \in SUBSET LiveTokens /\ LiveTokens' = LiveTokens \ T
    BY Zenon, <1>1 DEF LiveTokens, Registered
  <1>6. I \in SUBSET LiveIds /\ LiveIds' = LiveIds \ I
    <2>1. I \in SUBSET LiveIds
      BY Zenon DEF LiveIds
    <2>2. ASSUME NEW i
          PROVE  i \in LiveIds' <=> i \in LiveIds \ I
      <3>1. i \in LiveIds' <=> \E u \in Token : i \in agents'[u]
        BY DEF LiveIds
      <3>2. i \in LiveIds <=> \E u \in Token : i \in agents[u]
        BY DEF LiveIds
      <3>3. i \in I => \A u \in Token : i \in agents[u] => u = t
        BY Zenon, <1>1, IdsOfOne
      <3> QED
        BY Zenon, <1>1, <3>1, <3>2, <3>3
    <2> QED
      BY Zenon, <2>1, <2>2
  <1> HIDE DEF I, T
  <1> QED
    BY Zenon, <1>1, <1>2, <1>4, <1>5, <1>6, GaugesFollow

(* A revocation: the token and all its ids.                                *)
LEMMA RevokeGauges ==
  ASSUME RegInv, GaugesExact, NEW t \in Token, RevokeToken(t)
  PROVE  GaugesExact'
  <1> DEFINE T == IF agents[t] = {} THEN {} ELSE {t}
  <1>1. /\ agents \in [Token -> SUBSET (1..nextReg)]
        /\ agents' = [agents EXCEPT ![t] = {}]
        /\ totalGauge' = totalGauge - Cardinality(agents[t])
        /\ activeGauge' = activeGauge - (IF agents[t] # {} THEN 1 ELSE 0)
    BY Zenon DEF RevokeToken, RemoveLocked, Registered, RegInv, RegTypeOK
  <1>2. activeGauge' = activeGauge - Cardinality(T)
    BY Zenon, <1>1, FS_EmptySet, FS_Singleton
  <1>3. T \in SUBSET LiveTokens /\ LiveTokens' = LiveTokens \ T
    BY Zenon, <1>1 DEF LiveTokens, Registered
  <1>4. agents[t] \in SUBSET LiveIds /\ LiveIds' = LiveIds \ agents[t]
    <2>1. agents[t] \in SUBSET LiveIds
      BY Zenon DEF LiveIds
    <2>2. ASSUME NEW i
          PROVE  i \in LiveIds' <=> i \in LiveIds \ agents[t]
      <3>1. i \in LiveIds' <=> \E u \in Token : i \in agents'[u]
        BY Zenon DEF LiveIds
      <3>2. i \in LiveIds <=> \E u \in Token : i \in agents[u]
        BY Zenon DEF LiveIds
      <3>3. i \in agents[t] => \A u \in Token : i \in agents[u] => u = t
        BY Zenon, IdsOfOne
      <3> QED
        BY Zenon, <1>1, <3>1, <3>2, <3>3
    <2> QED
      BY Zenon, <2>1, <2>2
  <1> HIDE DEF T
  <1> QED
    BY Zenon, <1>1, <1>2, <1>3, <1>4, GaugesFollow

(* The switch to Enforce: in every tunnel it reaches, the unproven ids.    *)
LEMMA SwitchGauges ==
  ASSUME RegInv, GaugesExact, NEW S \in SUBSET Token, NEW proven, SwitchToEnforce(S, proven)
  PROVE  GaugesExact'
  <1> DEFINE T == {t \in S : Registered(t) /\ agents[t] \cap proven = {}}
             I == UNION {agents[t] \ proven : t \in S}
  <1>1. /\ agents' = [t \in Token |-> IF t \in S THEN agents[t] \cap proven ELSE agents[t]]
        /\ activeGauge' = activeGauge - Cardinality(T)
        /\ totalGauge' = totalGauge - Cardinality(I)
    BY Zenon DEF SwitchToEnforce
  <1>2. T \in SUBSET LiveTokens /\ LiveTokens' = LiveTokens \ T
    BY Zenon, <1>1 DEF LiveTokens, Registered
  <1>3. I \in SUBSET LiveIds /\ LiveIds' = LiveIds \ I
    <2>1. I \in SUBSET LiveIds
      BY Zenon DEF LiveIds
    <2>2. ASSUME NEW i
          PROVE  i \in LiveIds' <=> i \in LiveIds \ I
      <3>1. i \in LiveIds' <=> \E u \in Token : i \in agents'[u]
        BY Zenon DEF LiveIds
      <3>2. i \in LiveIds <=> \E u \in Token : i \in agents[u]
        BY Zenon DEF LiveIds
      <3>3. \A t, u \in Token : i \in agents[t] /\ i \in agents[u] => t = u
        BY Zenon, IdsOfOne
      <3>4. i \in I <=> i \notin proven /\ \E t \in S : i \in agents[t]
        OBVIOUS
      <3> QED
        BY Zenon, <1>1, <3>1, <3>2, <3>3, <3>4
    <2> QED
      BY Zenon, <2>1, <2>2
  <1> HIDE DEF I, T
  <1> QED
    BY Zenon, <1>1, <1>2, <1>3, GaugesFollow

(* No other step touches the agents map or a gauge.                        *)
LEMMA GaugesStep == RegInv /\ GaugesExact /\ [RegNext]_regVars => GaugesExact'
  <1> SUFFICES ASSUME RegInv, GaugesExact, [RegNext]_regVars PROVE GaugesExact'
    BY Zenon
  <1>1. ASSUME UNCHANGED <<agents, activeGauge, totalGauge>>
        PROVE  GaugesExact'
    BY Zenon, <1>1 DEF GaugesExact, Registered
  <1> QED
    BY ZenonT(30), <1>1, RegisterGauges, RemoveGauges, RevokeGauges, SwitchGauges
       DEF RegNext, SeedRevokedTokens, RegisterHost, AdvertiseDirect, ParkTcpAgent,
           ParkedAgentDies, DeliverToTcpAgent, EvictIdle, ReapDeadTcpParks, gauges, regVars

(* #359: the lock-free gauges always equal what a scan of the agents map   *)
(* would count, for any number of tokens and registrations.                *)
THEOREM GaugesNeverDrift == RegSpec => []GaugesExact
  <1>1. RegInit => GaugesExact
    <2> SUFFICES ASSUME RegInit PROVE GaugesExact
      OBVIOUS
    <2>1. {t \in Token : Registered(t)} = {} /\ UNION {agents[t] : t \in Token} = {}
      BY Zenon DEF RegInit, Registered
    <2> QED
      BY Zenon, <2>1, FS_EmptySet DEF GaugesExact, RegInit
  <1> QED
    BY <1>1, GaugesStep, RegInvariant, PTL DEF RegSpec

=============================================================================
