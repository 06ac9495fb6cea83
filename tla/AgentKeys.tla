----------------------------- MODULE AgentKeys ------------------------------
(***************************************************************************)
(* Agent-key pins and the Log/Enforce policy of crates/edge/src/state.rs,  *)
(* on top of the routing state of EdgeRegistry.                            *)
(*                                                                         *)
(* A proving Agent shows a key bound to the routing token.  The first      *)
(* proven key pins the tunnel, a strictly newer binding of another key     *)
(* repins it.  A tunnel on Enforce admits proven registrations only; one   *)
(* on Log admits everything and counts it, and the counters decide when    *)
(* the operator may move the tunnel to Enforce.  A caller reads the mode   *)
(* before it takes registration_lock (for role 'V' before a handshake that *)
(* takes seconds), so every admission carries a mode that may be stale.    *)
(***************************************************************************)
EXTENDS EdgeRegistry

CONSTANTS
    Key,         \* agent public keys
    NoKey,       \* "no pin"
    MaxIssue,    \* bound: issued_at of a binding
    MaxTracked   \* AGENT_KEY_MAX_TRACKED

ASSUME KeyAssumption ==
    /\ NoKey \notin Key
    /\ MaxIssue \in Nat
    /\ MaxTracked \in Nat

Mode == {"Log", "Enforce"}

VARIABLES
    pinKey,      \* agent_pins[t].pin.key
    pinIssued,   \* agent_pins[t].pin.issued_at
    proven,      \* agent_pins[t].proven_ids
    enforced,    \* agent_key_policy: the tokens whose mode is Enforce
    modesSeen,   \* modes some caller may have read and still carry
    tracked,     \* agent_key_counts: tokens with an entry
    flagged,     \* ... whose entry holds a reason that is not tolerated
    proofs,      \* ... whose entry has proofs_admitted > 0
    shownKey     \* history: the key each registration id was proven with

pinVars   == <<pinKey, pinIssued, proven>>
countVars == <<tracked, flagged, proofs>>
polVars   == <<enforced, modesSeen>>
keyVars   == <<pinVars, countVars, polVars, shownKey>>
vars      == <<regVars, keyVars>>

ModeFor(t) == IF t \in enforced THEN "Enforce" ELSE "Log"

(* Mutant: the mode read before the lock is used as it is.                 *)
MutAgentKeyModeLocked(t, read) == read

(* agent_key_mode_locked: Enforce in force wins over a stale Log.          *)
AgentKeyModeLocked(t, read) == IF t \in enforced THEN "Enforce" ELSE read

(* agent_key_counts is bounded: a new token gets no entry in a full map.   *)
CanTrack(t) == t \in tracked \/ Cardinality(tracked) < MaxTracked

(* What one critical section adds to the counters: viols is the set of     *)
(* tokens with an observation, bad those where it is not second_unproven,  *)
(* ok the tokens with a proven admission.                                  *)
Count(viols, bad, ok) ==
    /\ tracked' = tracked \cup (viols \cup ok)
    /\ flagged' = flagged \cup bad
    /\ proofs' = proofs \cup ok

NoteViolation(t, reason) ==
    IF CanTrack(t)
    THEN Count({t}, IF reason = "SecondUnproven" THEN {} ELSE {t}, {})
    ELSE UNCHANGED countVars

(* Mutant: does not look for a proven registration next to it.             *)
MutUnprovenReason(t) == IF ~Registered(t) THEN "Unproven" ELSE "SecondUnproven"

(* unproven_reason_locked.                                                 *)
UnprovenReason(t) ==
    IF ~Registered(t) THEN "Unproven"
    ELSE IF agents[t] \cap proven[t] # {} THEN "UnprovenBesideProven"
    ELSE "SecondUnproven"

(* Mutants: a newer key is accepted beside the old one; an equally old     *)
(* binding of another key moves the pin.                                   *)
MutPinOutcomeBeside(t, k, i) ==
    IF pinKey[t] \in {NoKey, k} \/ i > pinIssued[t] THEN "Accepted" ELSE "Rejected"
MutPinOutcomeEqual(t, k, i) ==
    IF pinKey[t] \in {NoKey, k} THEN "Accepted"
    ELSE IF i >= pinIssued[t] THEN "Repinned"
    ELSE "Rejected"

(* pin_proven_locked, as the outcome for a verified binding.               *)
PinOutcome(t, k, i) ==
    IF pinKey[t] \in {NoKey, k} THEN "Accepted"
    ELSE IF i > pinIssued[t] THEN "Repinned"
    ELSE "Rejected"

(* agent_key_ready_for_enforce.                                            *)
ReadyForEnforce(t) == t \in proofs /\ t \notin flagged

KeyInit ==
    /\ RegInit
    /\ pinKey = [t \in Token |-> NoKey]
    /\ pinIssued = [t \in Token |-> 0]
    /\ proven = [t \in Token |-> {}]
    /\ enforced \in SUBSET Token
    /\ modesSeen = [t \in Token |-> {ModeFor(t)}]
    /\ tracked = {}
    /\ flagged = {}
    /\ proofs = {}
    /\ shownKey = [id \in 1..MaxReg |-> NoKey]

-----------------------------------------------------------------------------
(* register_with_candidate_checked with a verified binding the pin         *)
(* accepts: admitted in either mode, and proven for the pin.               *)
RegisterProven(t, k, i) ==
    /\ PinOutcome(t, k, i) = "Accepted"
    /\ Register(t, {})
    /\ pinKey' = [pinKey EXCEPT ![t] = k]
    /\ pinIssued' = [pinIssued EXCEPT
                        ![t] = IF pinKey[t] = NoKey \/ i > @ THEN i ELSE @]
    /\ proven' = [proven EXCEPT ![t] = @ \cup {nextReg'}]
    /\ shownKey' = [shownKey EXCEPT ![nextReg'] = k]
    /\ IF CanTrack(t) THEN Count({}, {}, {t}) ELSE UNCHANGED countVars
    /\ UNCHANGED polVars

(* ... a strictly newer binding of a different key: the pin moves, every   *)
(* older registration is taken away in the same critical section.          *)
RegisterRepinned(t, k, i) ==
    /\ PinOutcome(t, k, i) = "Repinned"
    /\ Register(t, agents[t])
    /\ pinKey' = [pinKey EXCEPT ![t] = k]
    /\ pinIssued' = [pinIssued EXCEPT ![t] = i]
    /\ proven' = [proven EXCEPT ![t] = {nextReg'}]
    /\ shownKey' = [shownKey EXCEPT ![nextReg'] = k]
    /\ IF CanTrack(t) THEN Count({t}, {t}, {t}) ELSE UNCHANGED countVars
    /\ UNCHANGED polVars

(* ... a binding the pin rejects (foreign_key, stale_binding): counted;    *)
(* refused on Enforce, admitted unproven on Log.                           *)
RegisterRejected(t, k, i, read) ==
    /\ PinOutcome(t, k, i) = "Rejected"
    /\ IF AgentKeyModeLocked(t, read) = "Enforce"
       THEN /\ Admits(t)
            /\ UNCHANGED <<regVars, shownKey>>
       ELSE /\ Register(t, {})
            /\ shownKey' = [shownKey EXCEPT ![nextReg'] = k]
    /\ NoteViolation(t, "ForeignKey")
    /\ UNCHANGED <<pinVars, polVars>>

(* ... and without any proof (role 'A').                                   *)
RegisterUnproven(t, read) ==
    /\ IF AgentKeyModeLocked(t, read) = "Enforce"
       THEN Admits(t) /\ UNCHANGED regVars
       ELSE Register(t, {})
    /\ NoteViolation(t, UnprovenReason(t))
    /\ UNCHANGED <<pinVars, polVars, shownKey>>

(* A failed 'V' handshake: counted under a reason of its own, never        *)
(* registered, and counted outside registration_lock.                      *)
ProofFails(t) ==
    /\ serving
    /\ NoteViolation(t, "BadProof")
    /\ UNCHANGED <<regVars, pinVars, polVars, shownKey>>

(* park_tcp_agent_checked: the TCP fallback carries no proof at all.       *)
ParkChecked(t, read) ==
    /\ IF AgentKeyModeLocked(t, read) = "Enforce"
       THEN Admits(t) /\ UNCHANGED regVars
       ELSE ParkTcpAgent(t)
    /\ NoteViolation(t, "UnprovenTcp")
    /\ UNCHANGED <<pinVars, polVars, shownKey>>

(* set_agent_key_policy (boot and reload_agent_key_policy_from_file): put  *)
(* the new list in force and evict what is unproven on every tunnel that   *)
(* just went from Log to Enforce.                                          *)
SetAgentKeyPolicy(next) ==
    LET newly   == {t \in Token : /\ Registered(t) \/ HasTcpAgent(t)
                                  /\ t \in next
                                  /\ t \notin enforced}
        evicted == {t \in newly : agents[t] \ proven[t] # {}}
        room    == {t \in evicted : CanTrack(t)}
    IN  /\ SwitchToEnforce(newly, UNION {proven[t] : t \in newly})
        /\ enforced' = next
        /\ modesSeen' = [t \in Token |->
              modesSeen[t] \cup {IF t \in next THEN "Enforce" ELSE "Log"}]
        (* a full counter map takes as many new entries as still fit *)
        /\ \E fit \in SUBSET room :
              /\ room \cap tracked \subseteq fit
              /\ Cardinality(tracked \cup fit) <= MaxTracked \/ fit \subseteq tracked
              /\ fit = room \/ Cardinality(tracked \cup fit) >= MaxTracked
              /\ Count(fit, fit, {})
        /\ UNCHANGED <<pinVars, shownKey>>

-----------------------------------------------------------------------------
(* The EdgeRegistry operations that touch the pins as well.                *)
RemoveChecked(t, id) ==
    /\ id \in 1..nextReg
    /\ proven' = [proven EXCEPT ![t] = @ \ {id}]
    /\ IF Registered(t) THEN RemoveRegistration(t, id)
                        ELSE serving /\ UNCHANGED regVars
    /\ UNCHANGED <<pinKey, pinIssued, countVars, polVars, shownKey>>

RevokeChecked(t) ==
    /\ RevokeToken(t)
    /\ pinKey' = [pinKey EXCEPT ![t] = NoKey]
    /\ pinIssued' = [pinIssued EXCEPT ![t] = 0]
    /\ proven' = [proven EXCEPT ![t] = {}]
    /\ UNCHANGED <<countVars, polVars, shownKey>>

(* ... and the ones that do not.                                           *)
OtherStep ==
    /\ \/ \E seed \in SUBSET Token : SeedRevokedTokens(seed)
       \/ \E t \in Token :
             \/ \E h \in Host : RegisterHost(h, t)
             \/ AdvertiseDirect(t)
             \/ ParkedAgentDies(t)
             \/ DeliverToTcpAgent(t)
             \/ EvictIdle(t)
       \/ ReapDeadTcpParks
    /\ UNCHANGED keyVars

KeyNext ==
    \/ \E t \in Token :
          \/ \E k \in Key, i \in 1..MaxIssue :
                \/ RegisterProven(t, k, i)
                \/ RegisterRepinned(t, k, i)
                \/ \E read \in modesSeen[t] : RegisterRejected(t, k, i, read)
          \/ \E read \in modesSeen[t] :
                \/ RegisterUnproven(t, read)
                \/ ParkChecked(t, read)
          \/ ProofFails(t)
          \/ \E id \in 1..nextReg : RemoveChecked(t, id)
          \/ RevokeChecked(t)
    \/ \E next \in SUBSET Token : SetAgentKeyPolicy(next)
    \/ OtherStep

KeySpec == KeyInit /\ [][KeyNext]_vars

-----------------------------------------------------------------------------
(* Type correctness of the pins, the policy and the counters.              *)
KeyTypeOK ==
    /\ RegTypeOK
    /\ pinKey \in [Token -> Key \cup {NoKey}]
    /\ pinIssued \in [Token -> 0..MaxIssue]
    /\ proven \in [Token -> SUBSET (1..nextReg)]
    /\ enforced \subseteq Token
    /\ modesSeen \in [Token -> SUBSET Mode]
    /\ tracked \subseteq Token
    /\ flagged \subseteq tracked
    /\ proofs \subseteq tracked
    /\ shownKey \in [1..MaxReg -> Key \cup {NoKey}]

(* AUF-20261011-049 (N4): a tunnel on Enforce is served by proven          *)
(* registrations only and has no TCP pool, also when the mode a caller     *)
(* carries was read before the switch.                                     *)
EnforcedServesOnlyProven ==
    \A t \in enforced : agents[t] \subseteq proven[t] /\ ~HasTcpAgent(t)

(* The proven set is about the pin in force: every proven registration     *)
(* showed exactly the pinned key, through pins, repins and teardowns.      *)
ProvenCarriesPin ==
    \A t \in Token : \A id \in proven[t] : pinKey[t] # NoKey /\ shownKey[id] = pinKey[t]

(* The proven set holds no registration that is gone: a dropped            *)
(* registration must not keep its tunnel looking proven.                   *)
ProvenIsLive == \A t \in Token : proven[t] \subseteq agents[t]

(* B2: readiness is honest.  Enforcing a tunnel that reports ready evicts  *)
(* nothing: its counters have seen every admission since the Edge started, *)
(* also when the bounded counter map is full.                              *)
ReadyLosesNothing ==
    \A t \in Token : ReadyForEnforce(t) => agents[t] \subseteq proven[t] /\ ~HasTcpAgent(t)

(* N10: a pin never moves back to an older binding; only a full teardown   *)
(* forgets it.                                                             *)
PinNeverMovesBack ==
    [][\A t \in Token :
          pinKey[t] # NoKey =>
             \/ pinIssued'[t] >= pinIssued[t] /\ (pinKey'[t] # pinKey[t] => pinIssued'[t] > pinIssued[t])
             \/ t \in revoked']_vars

(* clear_hosts_for is "called when its last agent drops or it is revoked,  *)
(* so no stale host->token route lingers (#23 BP4a)": a step that takes a  *)
(* token's last agent, with no park left, leaves no hostname routed to it. *)
LastAgentDropsRoutes ==
    [][\A t \in Token :
          agents[t] # {} /\ agents'[t] = {} /\ parks'[t] = NoParks =>
             \A h \in Host : hosts'[h] # t]_vars

(* "a tunnel may only move to `Enforce` once it has shown at least one     *)
(* proven admission and carries no observation of any other kind".         *)
EnforceOnlyWhenReady ==
    [][\A t \in enforced' \ enforced : ReadyForEnforce(t)]_vars

=============================================================================
