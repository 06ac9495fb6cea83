----------------------------- MODULE FrontDoor ------------------------------
(***************************************************************************)
(* What decides whether a browser reaches a tunnel by hostname, on top of  *)
(* EdgeRegistry: the control plane's hostname grants (host_auth), the Gelb *)
(* certificate tier, and the access windows (access_policies) of           *)
(* crates/edge/src/state.rs; their writers in admin.rs and run_edge's boot *)
(* replay; their reader serve_sni_passthrough in serve.rs.                 *)
(*                                                                         *)
(* revoke_token holds registration_lock to its end, but the grants, tiers  *)
(* and windows have locks of their own: binds check them before they take  *)
(* registration_lock, and a browser reads route, window and registration   *)
(* one after the other with no lock at all.                                *)
(***************************************************************************)
EXTENDS EdgeRegistry

CONSTANTS
    Browser,       \* front-door connections
    Registry,      \* the control plane's (hostname -> token) record at boot
    MaxPush        \* bound: control-plane pushes of each kind

ASSUME FrontDoorAssumption ==
    /\ Registry \in [Host -> Token \cup {NoToken}]
    /\ MaxPush \in Nat

VARIABLES
    sent,       \* hostname grants the control plane has pushed, in flight
    auth,       \* host_auth (required: a reachable :443)
    tierDue,    \* authorize_host_inner calls between their two writes
    gelb,       \* gelb_hosts
    policy,     \* access_policies: tokens with a window that is closed now
    checked,    \* binds between host_bind_allowed and register_host
    clearing,   \* revoke_token's tail: what it still has to clear, and of whom
    rehydrated, \* the answer is: "awaited", "replaying", "done"
    replay,     \* the background rehydration: hostnames still to replay
    half,       \* ... the one authorised whose policy comes next
    snap,       \* ... the closed windows in the control plane's answer
    browser,    \* each browser: where it is, for which token
    intended,   \* history: tokens the control plane wants closed
    leaked,     \* history: who passed a window meant to be closed, and at what
                \* stage of the rehydration
    pushes

grantVars  == <<auth, tierDue, gelb, policy>>
replayVars == <<rehydrated, replay, half, snap>>
webVars    == <<browser, leaked>>
cpVars     == <<sent, intended, pushes>>
fdVars == <<regVars, grantVars, checked, clearing, replayVars, webVars, cpVars>>

Clear == [of |-> NoToken, next |-> "none"]
LockFree == clearing = Clear
Fetched == {h \in Host : Registry[h] # NoToken}
Listed  == {Registry[h] : h \in Fetched}

FDInit ==
    /\ RegInit
    /\ auth = [h \in Host |-> NoToken]
    /\ tierDue = {} /\ gelb = {} /\ policy = {} /\ checked = {}
    /\ clearing = Clear
    /\ rehydrated = "awaited" /\ replay = {} /\ half = {} /\ snap = {}
    /\ browser = [b \in Browser |-> [at |-> "new", tok |-> NoToken]]
    /\ intended \in SUBSET Listed
    /\ leaked = {} /\ sent = {}
    /\ pushes = [grant |-> 0, window |-> 0]

-----------------------------------------------------------------------------
(* run_edge: rehydrate and fetch_revoked_tokens are awaited before the     *)
(* listeners open; if the registry is unavailable a background task takes  *)
(* over and the listeners open without a single grant.  The control plane  *)
(* lists no revoked token (mesh.forget), so the two answers are disjoint.  *)
Boot(seed, answered) ==
    /\ SeedRevokedTokens(seed)
    /\ IF answered
       THEN /\ auth' = [h \in Host |-> IF h \in Fetched THEN Registry[h] ELSE auth[h]]
            /\ policy' = policy \cup (intended \cap Listed)
            /\ rehydrated' = "done"
       ELSE UNCHANGED <<auth, policy, rehydrated>>
    /\ UNCHANGED <<tierDue, gelb, checked, clearing, replay, half, snap, webVars, cpVars>>

(* The background retry gets its answer ...                                *)
ReplayFetch ==
    /\ serving /\ rehydrated = "awaited"
    /\ rehydrated' = "replaying"
    /\ replay' = Fetched
    /\ snap' = intended
    /\ UNCHANGED <<regVars, grantVars, checked, clearing, half, webVars, cpVars>>

(* ... and replays it pair by pair: authorize_host ...                     *)
ReplayAuthorize(h) ==
    /\ h \in replay /\ half = {}
    /\ auth' = [auth EXCEPT ![h] = Registry[h]]
    /\ half' = {h}
    /\ UNCHANGED <<regVars, tierDue, gelb, policy, checked, clearing, rehydrated,
                   replay, snap, webVars, cpVars>>

(* Mutant: a pair without a policy clears the one on file.                 *)
MutReplayedPolicy(h) == (policy \ {Registry[h]}) \cup (snap \cap {Registry[h]})

(* What replaying one pair's policy makes of the windows on file.          *)
ReplayedPolicy(h) == policy \cup (snap \cap {Registry[h]})

(* ... then set_access_policy, when the pair carries one.                  *)
ReplayPolicy(h) ==
    /\ h \in half
    /\ policy' = ReplayedPolicy(h)
    /\ half' = {} /\ replay' = replay \ {h}
    /\ rehydrated' = IF replay' = {} THEN "done" ELSE "replaying"
    /\ UNCHANGED <<regVars, auth, tierDue, gelb, checked, clearing, snap,
                   webVars, cpVars>>

-----------------------------------------------------------------------------
(* The control plane grants a hostname to a tunnel it has not revoked and  *)
(* sends the push, a request of its own that may arrive late.              *)
ControlPlaneGrants(h, t, isGelb) ==
    /\ serving /\ t \notin revoked
    /\ pushes.grant < MaxPush
    /\ pushes' = [pushes EXCEPT !.grant = @ + 1]
    /\ sent' = sent \cup {<<h, t, isGelb>>}
    /\ UNCHANGED <<regVars, grantVars, checked, clearing, replayVars, webVars,
                   intended>>

(* POST /admin/authorize-host: the grant, then the tier.                   *)
AuthorizeHost(h, t, isGelb) ==
    /\ <<h, t, isGelb>> \in sent
    /\ sent' = sent \ {<<h, t, isGelb>>}
    /\ auth' = [auth EXCEPT ![h] = t]
    /\ tierDue' = tierDue \cup {<<h, isGelb>>}
    /\ UNCHANGED <<regVars, gelb, policy, checked, clearing, replayVars,
                   webVars, intended, pushes>>

SetCertTier(h, isGelb) ==
    /\ <<h, isGelb>> \in tierDue
    /\ tierDue' = tierDue \ {<<h, isGelb>>}
    /\ gelb' = IF isGelb THEN gelb \cup {h} ELSE gelb \ {h}
    /\ UNCHANGED <<regVars, auth, policy, checked, clearing, replayVars,
                   webVars, cpVars>>

(* POST /internal/tunnel/access-policy.                                    *)
SetAccessPolicy(t, closed) ==
    /\ pushes.window < MaxPush
    /\ pushes' = [pushes EXCEPT !.window = @ + 1]
    /\ policy' = IF closed THEN policy \cup {t} ELSE policy \ {t}
    /\ intended' = IF closed THEN intended \cup {t} ELSE intended \ {t}
    /\ UNCHANGED <<regVars, auth, tierDue, gelb, checked, clearing, replayVars,
                   webVars, sent>>

-----------------------------------------------------------------------------
(* The 'H' arm and admit_tcp_agent_b: host_bind_allowed ...                *)
BindCheck(h, t) ==
    /\ serving
    /\ auth[h] = t
    /\ checked' = checked \cup {<<h, t>>}
    /\ UNCHANGED <<regVars, grantVars, clearing, replayVars, webVars, cpVars>>

(* ... then register_host, which may still refuse.                         *)
BindHost(h, t) ==
    /\ <<h, t>> \in checked
    /\ LockFree
    /\ checked' = checked \ {<<h, t>>}
    /\ IF Admits(t) /\ hosts[h] \in {NoToken, t}
       THEN RegisterHost(h, t)
       ELSE UNCHANGED regVars
    /\ UNCHANGED <<grantVars, clearing, replayVars, webVars, cpVars>>

RegisterAgent(t) ==
    /\ LockFree
    /\ Register(t, {})
    /\ UNCHANGED <<grantVars, checked, clearing, replayVars, webVars, cpVars>>

(* clear_hosts_for's second half: the tiers of the hostnames it unbinds.   *)
ClearTiersOf(t) == gelb' = gelb \ (hostsByToken[t] \ hostsByToken'[t])

(* remove_registration.                                                    *)
AgentDrops(t, id) ==
    /\ LockFree
    /\ RemoveRegistration(t, id)
    /\ ClearTiersOf(t)
    /\ UNCHANGED <<auth, tierDue, policy, checked, clearing, replayVars,
                   webVars, cpVars>>

(* Mutant: marks the token, tears nothing down.                            *)
MutRevokeStarts(t) ==
    /\ serving /\ LockFree
    /\ revoked' = revoked \cup {t}
    /\ clearing' = [of |-> t, next |-> "auth"]
    /\ UNCHANGED <<serving, agents, nextReg, candidates, direct, parks, routing,
                   connected, gauges, grantVars, checked, replayVars, webVars,
                   cpVars>>

(* revoke_token: the revoked insert and remove_locked ...  (One that hits  *)
(* the replay at boot is the race the background replay also has.)         *)
RevokeStarts(t) ==
    /\ serving /\ LockFree
    /\ RevokeToken(t)
    /\ ClearTiersOf(t)
    /\ clearing' = [of |-> t, next |-> "auth"]
    /\ UNCHANGED <<auth, tierDue, policy, checked, replayVars, webVars, cpVars>>

(* ... clear_host_auth_for ...                                             *)
RevokeClearsAuth ==
    /\ clearing.next = "auth"
    /\ auth' = [h \in Host |-> IF auth[h] = clearing.of THEN NoToken ELSE auth[h]]
    /\ clearing' = [clearing EXCEPT !.next = "policy"]
    /\ UNCHANGED <<regVars, tierDue, gelb, policy, checked, replayVars,
                   webVars, cpVars>>

(* ... and the access policy.                                              *)
RevokeClearsPolicy ==
    /\ clearing.next = "policy"
    /\ policy' = policy \ {clearing.of}
    /\ clearing' = Clear
    /\ UNCHANGED <<regVars, auth, tierDue, gelb, checked, replayVars, webVars,
                   cpVars>>

-----------------------------------------------------------------------------
(* serve_sni_passthrough: route_host ...                                   *)
BrowserRoutes(b, h) ==
    /\ serving
    /\ browser[b].at = "new"
    /\ hosts[h] # NoToken
    /\ browser' = [browser EXCEPT ![b] = [at |-> "window", tok |-> hosts[h]]]
    /\ UNCHANGED <<regVars, grantVars, checked, clearing, replayVars, leaked, cpVars>>

(* ... access_window_open ...                                              *)
BrowserWindow(b) ==
    LET t == browser[b].tok IN
    /\ browser[b].at = "window"
    /\ IF t \in policy
       THEN /\ browser' = [browser EXCEPT ![b].at = "refused"]
            /\ UNCHANGED leaked
       ELSE /\ browser' = [browser EXCEPT ![b].at = "admitted"]
            /\ leaked' = IF t \in intended THEN leaked \cup {<<b, rehydrated>>} ELSE leaked
    /\ UNCHANGED <<regVars, grantVars, checked, clearing, replayVars, cpVars>>

(* ... open_agent_stream.                                                  *)
BrowserOpens(b) ==
    /\ browser[b].at = "admitted"
    /\ browser' = [browser EXCEPT ![b].at =
                     IF Registered(browser[b].tok) THEN "served" ELSE "failed"]
    /\ UNCHANGED <<regVars, grantVars, checked, clearing, replayVars, leaked, cpVars>>

FDNext ==
    \/ \E seed \in SUBSET (Token \ Listed), answered \in BOOLEAN : Boot(seed, answered)
    \/ ReplayFetch
    \/ \E h \in Host : ReplayAuthorize(h) \/ ReplayPolicy(h)
    \/ \E h \in Host, t \in Token, g \in BOOLEAN :
          ControlPlaneGrants(h, t, g) \/ AuthorizeHost(h, t, g)
    \/ \E h \in Host, g \in BOOLEAN : SetCertTier(h, g)
    \/ \E t \in Token, closed \in BOOLEAN : SetAccessPolicy(t, closed)
    \/ \E h \in Host, t \in Token : BindCheck(h, t) \/ BindHost(h, t)
    \/ \E t \in Token : \/ RegisterAgent(t) \/ RevokeStarts(t)
                        \/ \E id \in 1..nextReg : AgentDrops(t, id)
    \/ RevokeClearsAuth \/ RevokeClearsPolicy
    \/ \E b \in Browser : \/ \E h \in Host : BrowserRoutes(b, h)
                          \/ BrowserWindow(b) \/ BrowserOpens(b)

FDSpec == FDInit /\ [][FDNext]_fdVars

-----------------------------------------------------------------------------
(* Type correctness of the front door.                                     *)
FDTypeOK ==
    /\ RegTypeOK
    /\ auth \in [Host -> Token \cup {NoToken}]
    /\ sent \subseteq Host \X Token \X BOOLEAN /\ tierDue \subseteq Host \X BOOLEAN
    /\ gelb \subseteq Host /\ policy \subseteq Token
    /\ checked \subseteq Host \X Token
    /\ clearing \in [of : Token \cup {NoToken}, next : {"none", "auth", "policy"}]
    /\ rehydrated \in {"awaited", "replaying", "done"}
    /\ replay \subseteq Host /\ half \subseteq Host /\ snap \subseteq Token
    /\ browser \in [Browser -> [at : {"new", "window", "refused", "admitted", "served", "failed"},
                                tok : Token \cup {NoToken}]]
    /\ intended \subseteq Token

(* #426: a hostname that loses its route loses its tier in the same step:  *)
(* the next tenant to bind it does not inherit the last one's flag.        *)
TierGoesWithRoute ==
    [][\A h \in Host : hosts[h] # NoToken /\ hosts'[h] = NoToken => h \notin gelb']_fdVars

(* #779: once the rehydration is through, no browser is served through a   *)
(* window that the control plane meant to be closed when the Edge looked   *)
(* at it, also while a revocation that drops the window is under way.      *)
SettledWindowServesNobody ==
    \A b \in Browser : <<b, "done">> \in leaked => browser[b].at # "served"

(* #779/#548: once the rehydration is through, at boot or by the retry,    *)
(* every window the control plane wants closed is on file, whatever pushes *)
(* overtook the replayed answer; only a revoked tunnel has none.           *)
WindowsConverge ==
    rehydrated = "done" => intended \subseteq policy \cup revoked

(* Every step of the front door is a step the routing state allows.        *)
ImplementsRegistry == RegInit /\ [][RegNext]_regVars

-----------------------------------------------------------------------------
(* #779: the window is replayed "so a restart cannot silently re-open an   *)
(* expired or scheduled exposure until the next push": the same from the   *)
(* moment the listeners open.                                              *)
ClosedWindowServesNobody == \A l \in leaked : browser[l[1]].at # "served"

(* #281: a revoked token's grant "must not linger in memory for the rest   *)
(* of the process's life either".                                          *)
RevokedHoldsNoGrant == LockFree => \A h \in Host : auth[h] \notin revoked

(* #23 BP4b: "an 'H' bind is refused unless the control plane has          *)
(* authorized that (hostname, token) pair".                                *)
BindOnlyWhenGranted ==
    [][\A h \in Host : hosts'[h] # hosts[h] /\ hosts'[h] # NoToken => auth[h] = hosts'[h]]_fdVars

=============================================================================
