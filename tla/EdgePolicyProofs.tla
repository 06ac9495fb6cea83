-------------------------- MODULE EdgePolicyProofs --------------------------
(***************************************************************************)
(* The two components built over the routing state implement it, for any   *)
(* tokens, keys, hostnames, browsers and bounds. The agent-key policy: a   *)
(* tunnel on Enforce is served by proven registrations only, and one that  *)
(* reports ready for Enforce loses nothing by it. The front door: the      *)
(* access windows on file converge to what the control plane wants, and    *)
(* nobody is served through a window that should have been closed.         *)
(***************************************************************************)
EXTENDS FrontDoor, AgentKeys, EdgeRegistryProofs

(* Served by proven registrations only.                                    *)
Clean(t) == agents[t] \subseteq proven[t] /\ ~HasTcpAgent(t)

(* What makes readiness honest: as long as the bounded counter map has, or *)
(* could have, an entry for the tunnel, an admission that is not proven    *)
(* flags it.                                                               *)
UnflaggedIsClean == \A t \in Token : t \notin flagged /\ CanTrack(t) => Clean(t)

KeyInv ==
    /\ RegInv
    /\ KeyTypeOK
    /\ ProvenIsLive
    /\ ProvenCarriesPin
    /\ EnforcedServesOnlyProven
    /\ UnflaggedIsClean

-----------------------------------------------------------------------------
(* Every step of the pin and policy code is one of the routing state's.    *)
LEMMA KeyStepIsRegStep ==
  ASSUME KeyTypeOK, [KeyNext]_vars
  PROVE  [RegNext]_regVars
  <1>1. ASSUME NEW next \in SUBSET Token, SetAgentKeyPolicy(next)
        PROVE  RegNext
    <2> DEFINE newly == {t \in Token : /\ Registered(t) \/ HasTcpAgent(t)
                                       /\ t \in next
                                       /\ t \notin enforced}
               kept  == UNION {proven[t] : t \in newly}
    <2>1. SwitchToEnforce(newly, kept)
      BY Zenon, <1>1 DEF SetAgentKeyPolicy
    <2>2. newly \in SUBSET Token /\ kept \in SUBSET (1..nextReg)
      BY DEF KeyTypeOK
    <2> QED
      BY Zenon, <2>1, <2>2 DEF RegNext
  <1>2. ASSUME NEW t \in Token,
               \/ \E k \in Key, i \in 1..MaxIssue :
                     \/ RegisterProven(t, k, i)
                     \/ RegisterRepinned(t, k, i)
                     \/ \E read \in modesSeen[t] : RegisterRejected(t, k, i, read)
               \/ \E read \in modesSeen[t] : RegisterUnproven(t, read) \/ ParkChecked(t, read)
        PROVE  RegNext \/ UNCHANGED regVars
    <2>1. Register(t, {}) \/ Register(t, agents[t]) \/ ParkTcpAgent(t) \/ UNCHANGED regVars
      BY Zenon, <1>2 DEF RegisterProven, RegisterRepinned, RegisterRejected, RegisterUnproven, ParkChecked
    <2> QED
      BY Zenon, <2>1 DEF RegNext
  <1>3. ASSUME NEW t \in Token, ProofFails(t)
        PROVE  UNCHANGED regVars
    BY Zenon, <1>3 DEF ProofFails
  <1>4. ASSUME NEW t \in Token, NEW id \in 1..nextReg, RemoveChecked(t, id)
        PROVE  RegNext \/ UNCHANGED regVars
    BY Zenon, <1>4 DEF RemoveChecked, RegNext
  <1>5. ASSUME NEW t \in Token, RevokeChecked(t)
        PROVE  RegNext
    BY Zenon, <1>5 DEF RevokeChecked, RegNext
  <1>6. CASE OtherStep
    BY Zenon, <1>6 DEF OtherStep, RegNext
  <1>7. CASE UNCHANGED vars
    BY Zenon, <1>7 DEF vars
  <1> QED
    BY Zenon, <1>1, <1>2, <1>3, <1>4, <1>5, <1>6, <1>7 DEF KeyNext

(* A counter map entry is only made for a tunnel that could have one, so a *)
(* tunnel that can be tracked always could.                                *)
LEMMA CouldAlwaysTrack ==
  ASSUME NEW t \in Token, tracked \subseteq tracked', tracked' \subseteq Token,
         t \in tracked' => CanTrack(t), CanTrack(t)'
  PROVE  CanTrack(t)
  <1>1. IsFiniteSet(tracked')
    BY Zenon, RegistryAssumption, FS_Subset DEF RegistryAssumption
  <1>2. /\ IsFiniteSet(tracked)
        /\ Cardinality(tracked) \in Nat /\ Cardinality(tracked') \in Nat
        /\ Cardinality(tracked) <= Cardinality(tracked')
    BY Zenon, <1>1, FS_Subset, FS_CardinalityType
  <1> QED
    BY <1>2, KeyAssumption DEF KeyAssumption, CanTrack

(* What a registration does to the state the pins are about.               *)
LEMMA RegisterEffect ==
  ASSUME KeyTypeOK, NEW t \in Token, NEW d, Register(t, d)
  PROVE  /\ nextReg \in Nat /\ nextReg' = nextReg + 1 /\ nextReg' \in 1..MaxReg
         /\ agents' = [agents EXCEPT ![t] = (@ \ d) \cup {nextReg'}]
         /\ parks' = parks
  BY RegistryAssumption DEF RegistryAssumption, KeyTypeOK, RegTypeOK, Register, NextId

-----------------------------------------------------------------------------
(* A started Edge has no pins, no registrations and empty counters.        *)
LEMMA KeyInitInv == KeyInit => KeyInv
  <1> SUFFICES ASSUME KeyInit PROVE KeyInv
    BY Zenon
  <1>1. RegInv
    BY Zenon, RegInitInv DEF KeyInit
  <1>2. KeyTypeOK
    BY <1>1, KeyAssumption DEF KeyAssumption, KeyInit, KeyTypeOK, RegInv, ModeFor, Mode
  <1>3. ProvenIsLive /\ ProvenCarriesPin
    BY Zenon DEF KeyInit, RegInit, ProvenIsLive, ProvenCarriesPin
  <1>4. \A t \in Token : Clean(t)
    BY Zenon DEF KeyInit, RegInit, Clean, HasTcpAgent, NoParks
  <1> QED
    BY Zenon, <1>1, <1>2, <1>3, <1>4 DEF KeyInv, EnforcedServesOnlyProven, UnflaggedIsClean, Clean, KeyTypeOK

-----------------------------------------------------------------------------
(* Adding one entry for a tunnel that can have one keeps the counters      *)
(* well-formed and tracking monotone.                                      *)
LEMMA NoteKeepsCounters ==
  ASSUME KeyTypeOK, NEW t \in Token, NEW reason, NoteViolation(t, reason)
  PROVE  /\ tracked' \subseteq Token /\ flagged' \subseteq tracked' /\ proofs' \subseteq tracked'
         /\ flagged \subseteq flagged'
         /\ \A u \in Token : CanTrack(u)' => CanTrack(u)
         /\ CanTrack(t) /\ reason # "SecondUnproven" => t \in flagged'
  <1>1. /\ tracked' \subseteq Token /\ flagged' \subseteq tracked' /\ proofs' \subseteq tracked'
        /\ flagged \subseteq flagged'
        /\ tracked \subseteq tracked'
        /\ \A u \in tracked' : CanTrack(u)
    BY Zenon DEF NoteViolation, Count, KeyTypeOK, countVars, CanTrack
  <1>2. CanTrack(t) /\ reason # "SecondUnproven" => t \in flagged'
    BY Zenon DEF NoteViolation, Count
  <1>3. \A u \in Token : CanTrack(u)' => CanTrack(u)
    BY Zenon, <1>1, CouldAlwaysTrack
  <1> QED
    BY Zenon, <1>1, <1>2, <1>3

(* The same for a proven admission.                                        *)
LEMMA ProofKeepsCounters ==
  ASSUME KeyTypeOK, NEW t \in Token, NEW v \in SUBSET {t},
         IF CanTrack(t) THEN Count(v, v, {t}) ELSE UNCHANGED countVars
  PROVE  /\ tracked' \subseteq Token /\ flagged' \subseteq tracked' /\ proofs' \subseteq tracked'
         /\ flagged \subseteq flagged'
         /\ \A u \in Token : CanTrack(u)' => CanTrack(u)
  <1>1. /\ tracked' \subseteq Token /\ flagged' \subseteq tracked' /\ proofs' \subseteq tracked'
        /\ flagged \subseteq flagged'
        /\ tracked \subseteq tracked'
        /\ \A u \in tracked' : CanTrack(u)
    BY DEF Count, KeyTypeOK, countVars, CanTrack
  <1> QED
    BY Zenon, <1>1, CouldAlwaysTrack

(* A binding the pin accepts.                                              *)
LEMMA ProvenKeepsInv ==
  ASSUME KeyInv, RegInv', NEW t \in Token, NEW k \in Key, NEW i \in 1..MaxIssue,
         RegisterProven(t, k, i)
  PROVE  KeyInv'
  <1> USE DEF KeyInv
  <1>1. /\ nextReg \in Nat /\ nextReg' = nextReg + 1 /\ nextReg' \in 1..MaxReg
        /\ agents' = [agents EXCEPT ![t] = @ \cup {nextReg'}]
        /\ parks' = parks
    BY RegisterEffect DEF RegisterProven
  <1>2. /\ tracked' \subseteq Token /\ flagged' \subseteq tracked' /\ proofs' \subseteq tracked'
        /\ flagged \subseteq flagged'
        /\ \A u \in Token : CanTrack(u)' => CanTrack(u)
    <2>1. IF CanTrack(t) THEN Count({}, {}, {t}) ELSE UNCHANGED countVars
      BY Zenon DEF RegisterProven
    <2>2. {} \in SUBSET {t}
      BY Zenon
    <2> QED
      BY ONLY ZenonT(30), KeyTypeOK, <2>1, <2>2, ProofKeepsCounters
  <1>3. KeyTypeOK'
    BY <1>1, <1>2, KeyAssumption DEF KeyAssumption, KeyTypeOK, RegInv, RegisterProven, polVars
  <1>4. ProvenIsLive'
    BY Zenon, <1>1 DEF KeyTypeOK, RegTypeOK, ProvenIsLive, RegisterProven
  <1>5. ProvenCarriesPin'
    <2> SUFFICES ASSUME NEW u \in Token, NEW id \in proven'[u]
                 PROVE  pinKey'[u] # NoKey /\ shownKey'[id] = pinKey'[u]
      BY Zenon DEF ProvenCarriesPin
    <2>1. CASE id = nextReg'
      BY <2>1, <1>1, KeyAssumption DEF KeyAssumption, KeyTypeOK, RegisterProven
    <2>2. CASE id # nextReg'
      BY <2>2, <1>1, KeyAssumption
         DEF KeyAssumption, KeyTypeOK, RegisterProven, PinOutcome, ProvenCarriesPin
    <2> QED
      BY Zenon, <2>1, <2>2
  <1>6. \A u \in Token : Clean(u) => Clean(u)'
    BY Zenon, <1>1 DEF KeyTypeOK, RegTypeOK, RegisterProven, Clean, HasTcpAgent
  <1>7. EnforcedServesOnlyProven'
    BY Zenon, <1>6 DEF EnforcedServesOnlyProven, RegisterProven, polVars, Clean, KeyTypeOK
  <1>8. UnflaggedIsClean'
    BY Zenon, <1>2, <1>6 DEF UnflaggedIsClean
  <1> QED
    BY Zenon, <1>3, <1>4, <1>5, <1>7, <1>8

(* A strictly newer key: the new registration is the only one, and proven. *)
LEMMA RepinKeepsInv ==
  ASSUME KeyInv, RegInv', NEW t \in Token, NEW k \in Key, NEW i \in 1..MaxIssue,
         RegisterRepinned(t, k, i)
  PROVE  KeyInv'
  <1> USE DEF KeyInv
  <1>1. /\ nextReg \in Nat /\ nextReg' = nextReg + 1 /\ nextReg' \in 1..MaxReg
        /\ agents' = [agents EXCEPT ![t] = {nextReg'}]
        /\ parks' = parks
    BY RegisterEffect DEF RegisterRepinned, KeyTypeOK, RegTypeOK
  <1>2. /\ tracked' \subseteq Token /\ flagged' \subseteq tracked' /\ proofs' \subseteq tracked'
        /\ flagged \subseteq flagged'
        /\ \A u \in Token : CanTrack(u)' => CanTrack(u)
    BY ZenonT(30), ProofKeepsCounters DEF RegisterRepinned
  <1>3. KeyTypeOK'
    BY <1>1, <1>2, KeyAssumption DEF KeyAssumption, KeyTypeOK, RegInv, RegisterRepinned, polVars
  <1>4. ProvenIsLive'
    BY Zenon, <1>1 DEF KeyTypeOK, RegTypeOK, ProvenIsLive, RegisterRepinned
  <1>5. ProvenCarriesPin'
    BY <1>1, KeyAssumption DEF KeyAssumption, KeyTypeOK, RegisterRepinned, ProvenCarriesPin
  <1>6. \A u \in Token : Clean(u) => Clean(u)'
    BY Zenon, <1>1 DEF KeyTypeOK, RegTypeOK, RegisterRepinned, Clean, HasTcpAgent
  <1>7. EnforcedServesOnlyProven'
    BY Zenon, <1>6 DEF EnforcedServesOnlyProven, RegisterRepinned, polVars, Clean, KeyTypeOK
  <1>8. UnflaggedIsClean'
    BY <1>2, <1>6 DEF UnflaggedIsClean
  <1> QED
    BY <1>3, <1>4, <1>5, <1>7, <1>8

(* A binding the pin rejects: refused on Enforce, flagged on Log.          *)
LEMMA RejectedKeepsInv ==
  ASSUME KeyInv, RegInv', NEW t \in Token, NEW k \in Key, NEW i \in 1..MaxIssue,
         NEW read \in modesSeen[t], RegisterRejected(t, k, i, read)
  PROVE  KeyInv'
  <1> USE DEF KeyInv
  <1>1. /\ tracked' \subseteq Token /\ flagged' \subseteq tracked' /\ proofs' \subseteq tracked'
        /\ flagged \subseteq flagged'
        /\ \A u \in Token : CanTrack(u)' => CanTrack(u)
        /\ CanTrack(t) => t \in flagged'
    BY NoteKeepsCounters DEF RegisterRejected
  <1>2. pinVars' = pinVars /\ polVars' = polVars
    BY Zenon DEF RegisterRejected
  <1>3. CASE AgentKeyModeLocked(t, read) = "Enforce"
    <2>1. regVars' = regVars /\ shownKey' = shownKey
      BY Zenon, <1>3 DEF RegisterRejected
    <2>2. KeyTypeOK'
      BY Zenon, <1>1, <1>2, <2>1 DEF KeyTypeOK, RegInv, pinVars, polVars, regVars
    <2>3. \A u \in Token : Clean(u) => Clean(u)'
      BY Zenon, <1>2, <2>1 DEF Clean, HasTcpAgent, pinVars, regVars
    <2> QED
      BY Zenon, <1>1, <1>2, <2>1, <2>2, <2>3
         DEF ProvenIsLive, ProvenCarriesPin, EnforcedServesOnlyProven, UnflaggedIsClean,
             HasTcpAgent, pinVars, polVars, regVars
  <1>4. CASE AgentKeyModeLocked(t, read) # "Enforce"
    <2>1. t \notin enforced
      BY Zenon, <1>4 DEF AgentKeyModeLocked
    <2>2. /\ nextReg \in Nat /\ nextReg' = nextReg + 1 /\ nextReg' \in 1..MaxReg
          /\ agents' = [agents EXCEPT ![t] = @ \cup {nextReg'}]
          /\ parks' = parks
          /\ shownKey' = [shownKey EXCEPT ![nextReg'] = k]
      BY <1>4, RegisterEffect DEF RegisterRejected
    <2>3. KeyTypeOK'
      BY <1>1, <1>2, <2>2 DEF KeyTypeOK, RegInv, pinVars, polVars
    <2>4. ProvenIsLive' /\ ProvenCarriesPin'
      BY <1>2, <2>2 DEF KeyTypeOK, RegTypeOK, ProvenIsLive, ProvenCarriesPin, pinVars
    <2>5. \A u \in Token \ {t} : Clean(u) => Clean(u)'
      BY Zenon, <1>2, <2>2 DEF KeyTypeOK, RegTypeOK, Clean, HasTcpAgent, pinVars
    <2>6. EnforcedServesOnlyProven'
      BY Zenon, <1>2, <2>1, <2>5 DEF EnforcedServesOnlyProven, Clean, polVars, KeyTypeOK
    <2>7. UnflaggedIsClean'
      BY Zenon, <1>1, <2>5 DEF UnflaggedIsClean
    <2> QED
      BY Zenon, <2>3, <2>4, <2>6, <2>7
  <1> QED
    BY Zenon, <1>3, <1>4

(* No proof at all: refused on Enforce; on Log it flags the tunnel, except *)
(* beside nothing but unproven registrations, which have flagged it.       *)
LEMMA UnprovenKeepsInv ==
  ASSUME KeyInv, RegInv', NEW t \in Token, NEW read \in modesSeen[t],
         RegisterUnproven(t, read)
  PROVE  KeyInv'
  <1> USE DEF KeyInv
  <1>1. /\ tracked' \subseteq Token /\ flagged' \subseteq tracked' /\ proofs' \subseteq tracked'
        /\ flagged \subseteq flagged'
        /\ \A u \in Token : CanTrack(u)' => CanTrack(u)
        /\ CanTrack(t) /\ UnprovenReason(t) # "SecondUnproven" => t \in flagged'
    BY Zenon, NoteKeepsCounters DEF RegisterUnproven
  <1>2. pinVars' = pinVars /\ polVars' = polVars /\ shownKey' = shownKey
    BY Zenon DEF RegisterUnproven
  <1>3. CASE AgentKeyModeLocked(t, read) = "Enforce"
    <2>1. regVars' = regVars
      BY Zenon, <1>3 DEF RegisterUnproven
    <2>2. KeyTypeOK'
      BY Zenon, <1>1, <1>2, <2>1 DEF KeyTypeOK, RegInv, pinVars, polVars, regVars
    <2>3. \A u \in Token : Clean(u) => Clean(u)'
      BY Zenon, <1>2, <2>1 DEF Clean, HasTcpAgent, pinVars, regVars
    <2> QED
      BY Zenon, <1>1, <1>2, <2>1, <2>2, <2>3
         DEF ProvenIsLive, ProvenCarriesPin, EnforcedServesOnlyProven, UnflaggedIsClean,
             HasTcpAgent, pinVars, polVars, regVars
  <1>4. CASE AgentKeyModeLocked(t, read) # "Enforce"
    <2>1. t \notin enforced
      BY Zenon, <1>4 DEF AgentKeyModeLocked
    <2>2. /\ nextReg \in Nat /\ nextReg' = nextReg + 1 /\ nextReg' \in 1..MaxReg
          /\ agents' = [agents EXCEPT ![t] = @ \cup {nextReg'}]
          /\ parks' = parks
      BY <1>4, RegisterEffect DEF RegisterUnproven
    <2>3. KeyTypeOK'
      BY <1>1, <1>2, <2>2 DEF KeyTypeOK, RegInv, pinVars, polVars
    <2>4. ProvenIsLive' /\ ProvenCarriesPin'
      BY Zenon, <1>2, <2>2 DEF KeyTypeOK, RegTypeOK, ProvenIsLive, ProvenCarriesPin, pinVars
    <2>5. \A u \in Token \ {t} : Clean(u) => Clean(u)'
      BY Zenon, <1>2, <2>2 DEF KeyTypeOK, RegTypeOK, Clean, HasTcpAgent, pinVars
    <2>6. EnforcedServesOnlyProven'
      BY Zenon, <1>2, <2>1, <2>5 DEF EnforcedServesOnlyProven, Clean, polVars, KeyTypeOK
    <2>7. CanTrack(t) => t \in flagged'
      <3>1. Clean(t) => UnprovenReason(t) # "SecondUnproven"
        BY Zenon DEF Clean, UnprovenReason, Registered
      <3> QED
        BY Zenon, <3>1, <1>1 DEF UnflaggedIsClean
    <2>8. UnflaggedIsClean'
      BY Zenon, <1>1, <2>5, <2>7 DEF UnflaggedIsClean
    <2> QED
      BY Zenon, <2>3, <2>4, <2>6, <2>8
  <1> QED
    BY Zenon, <1>3, <1>4

(* A park carries no proof: refused on Enforce, flagged on Log.            *)
LEMMA ParkCheckedKeepsInv ==
  ASSUME KeyInv, RegInv', NEW t \in Token, NEW read \in modesSeen[t],
         ParkChecked(t, read)
  PROVE  KeyInv'
  <1> USE DEF KeyInv
  <1>1. /\ tracked' \subseteq Token /\ flagged' \subseteq tracked' /\ proofs' \subseteq tracked'
        /\ flagged \subseteq flagged'
        /\ \A u \in Token : CanTrack(u)' => CanTrack(u)
        /\ CanTrack(t) => t \in flagged'
    BY NoteKeepsCounters DEF ParkChecked
  <1>2. pinVars' = pinVars /\ polVars' = polVars /\ shownKey' = shownKey
    BY Zenon DEF ParkChecked
  <1>3. /\ agents' = agents /\ nextReg' = nextReg
        /\ t \in enforced => parks' = parks
        /\ \A u \in Token \ {t} : parks'[u] = parks[u]
    BY Zenon DEF ParkChecked, ParkTcpAgent, AgentKeyModeLocked, regVars, KeyTypeOK, RegTypeOK
  <1>4. KeyTypeOK'
    BY Zenon, <1>1, <1>2, <1>3 DEF KeyTypeOK, RegInv, pinVars, polVars
  <1>5. ProvenIsLive' /\ ProvenCarriesPin'
    BY <1>2, <1>3 DEF ProvenIsLive, ProvenCarriesPin, pinVars
  <1>6. EnforcedServesOnlyProven'
    BY Zenon, <1>2, <1>3 DEF EnforcedServesOnlyProven, HasTcpAgent, polVars, pinVars, KeyTypeOK
  <1>7. UnflaggedIsClean'
    BY Zenon, <1>1, <1>2, <1>3 DEF UnflaggedIsClean, Clean, HasTcpAgent, pinVars
  <1> QED
    BY <1>4, <1>5, <1>6, <1>7

(* A failed handshake only counts.                                         *)
LEMMA ProofFailsKeepsInv ==
  ASSUME KeyInv, RegInv', NEW t \in Token, ProofFails(t)
  PROVE  KeyInv'
  <1> USE DEF KeyInv
  <1>1. /\ tracked' \subseteq Token /\ flagged' \subseteq tracked' /\ proofs' \subseteq tracked'
        /\ flagged \subseteq flagged'
        /\ \A u \in Token : CanTrack(u)' => CanTrack(u)
    BY Zenon, NoteKeepsCounters DEF ProofFails
  <1>2. /\ pinVars' = pinVars /\ polVars' = polVars /\ shownKey' = shownKey
        /\ regVars' = regVars
    BY Zenon DEF ProofFails
  <1>3. KeyTypeOK'
    BY Zenon, <1>1, <1>2 DEF KeyTypeOK, RegInv, pinVars, polVars, regVars
  <1>4. \A u \in Token : Clean(u) => Clean(u)'
    BY Zenon, <1>2 DEF Clean, HasTcpAgent, pinVars, regVars
  <1> QED
    BY Zenon, <1>1, <1>2, <1>3, <1>4
       DEF ProvenIsLive, ProvenCarriesPin, EnforcedServesOnlyProven, UnflaggedIsClean,
           HasTcpAgent, pinVars, polVars, regVars

(* A policy change evicts whatever is unproven on a tunnel it puts on      *)
(* Enforce.  The ids it keeps are the tunnel's own proven ones, because no *)
(* two tunnels share an id.                                                *)
LEMMA PolicyKeepsInv ==
  ASSUME KeyInv, RegInv', NEW next \in SUBSET Token, SetAgentKeyPolicy(next)
  PROVE  KeyInv'
  <1> USE DEF KeyInv
  <1> DEFINE newly == {t \in Token : /\ Registered(t) \/ HasTcpAgent(t)
                                     /\ t \in next
                                     /\ t \notin enforced}
             kept  == UNION {proven[t] : t \in newly}
  <1>1. SwitchToEnforce(newly, kept)
    BY ZenonT(30) DEF SetAgentKeyPolicy
  <1>2. \A t \in newly : agents[t] \cap kept = proven[t]
    <2> SUFFICES ASSUME NEW t \in newly PROVE agents[t] \cap kept = proven[t]
      BY Zenon
    <2>1. proven[t] \subseteq agents[t] /\ proven[t] \subseteq kept
      BY Zenon DEF ProvenIsLive
    <2>2. ASSUME NEW u \in newly, NEW id \in agents[t], id \in proven[u]
          PROVE  id \in proven[t]
      BY Zenon, <2>2 DEF ProvenIsLive, RegInv, IdsUnique
    <2> QED
      BY Zenon, <2>1, <2>2
  <1>3. /\ agents' = [t \in Token |-> IF t \in newly THEN proven[t] ELSE agents[t]]
        /\ parks' = [t \in Token |-> IF t \in newly THEN NoParks ELSE parks[t]]
        /\ nextReg' = nextReg
    BY ZenonT(30), <1>1, <1>2 DEF SwitchToEnforce
  <1>4. pinVars' = pinVars /\ shownKey' = shownKey /\ enforced' = next
    BY Zenon DEF SetAgentKeyPolicy
  <1>5. PICK fit \in SUBSET Token : (\A u \in fit : CanTrack(u)) /\ Count(fit, fit, {})
    BY Zenon DEF SetAgentKeyPolicy
  <1>6. /\ tracked' \subseteq Token /\ flagged' \subseteq tracked' /\ proofs' \subseteq tracked'
        /\ flagged \subseteq flagged'
        /\ tracked \subseteq tracked'
        /\ \A u \in tracked' : CanTrack(u)
    BY Zenon, <1>5 DEF Count, KeyTypeOK, CanTrack
  <1>7. \A u \in Token : CanTrack(u)' => CanTrack(u)
    BY Zenon, <1>6, CouldAlwaysTrack
  <1>8. modesSeen' \in [Token -> SUBSET Mode]
    BY Zenon DEF SetAgentKeyPolicy, KeyTypeOK, Mode
  <1>9. KeyTypeOK'
    BY ZenonT(30), <1>3, <1>4, <1>6, <1>8 DEF KeyTypeOK, RegInv, pinVars
  <1>10. ProvenIsLive' /\ ProvenCarriesPin'
    BY ZenonT(30), <1>3, <1>4 DEF ProvenIsLive, ProvenCarriesPin, pinVars
  <1>11. \A u \in Token : Clean(u) \/ u \in newly => Clean(u)'
    BY ZenonT(30), <1>3, <1>4 DEF Clean, HasTcpAgent, pinVars
  <1>12. EnforcedServesOnlyProven'
    <2> SUFFICES ASSUME NEW t \in next PROVE Clean(t)'
      BY Zenon, <1>4 DEF EnforcedServesOnlyProven, Clean
    <2>1. t \in enforced => Clean(t)
      BY Zenon DEF EnforcedServesOnlyProven, Clean
    <2>2. ~Registered(t) /\ ~HasTcpAgent(t) => Clean(t)
      BY Zenon DEF Clean, Registered
    <2> QED
      BY Zenon, <1>11, <2>1, <2>2
  <1>13. UnflaggedIsClean'
    BY Zenon, <1>6, <1>7, <1>11 DEF UnflaggedIsClean
  <1> QED
    BY Zenon, <1>9, <1>10, <1>12, <1>13

(* The teardowns: an id leaves both sets, a revocation empties both.       *)
LEMMA TeardownKeepsInv ==
  ASSUME KeyInv, RegInv', NEW t \in Token,
         (\E id \in 1..nextReg : RemoveChecked(t, id)) \/ RevokeChecked(t)
  PROVE  KeyInv'
  <1> USE DEF KeyInv
  <1>1. UNCHANGED <<countVars, polVars, shownKey, nextReg>>
    BY Zenon DEF RemoveChecked, RevokeChecked, RemoveRegistration, RevokeToken, regVars
  <1>2. CASE RevokeChecked(t)
    <2>1. /\ agents' = [agents EXCEPT ![t] = {}]
          /\ parks' = [parks EXCEPT ![t] = NoParks]
          /\ pinKey' = [pinKey EXCEPT ![t] = NoKey]
          /\ pinIssued' = [pinIssued EXCEPT ![t] = 0]
          /\ proven' = [proven EXCEPT ![t] = {}]
      BY Zenon, <1>2 DEF RevokeChecked, RevokeToken, RemoveLocked
    <2>2. KeyTypeOK'
      BY <1>1, <2>1, KeyAssumption DEF KeyAssumption, KeyTypeOK, RegInv, countVars, polVars
    <2>3. ProvenIsLive' /\ ProvenCarriesPin'
      BY Zenon, <1>1, <2>1 DEF KeyTypeOK, RegTypeOK, ProvenIsLive, ProvenCarriesPin
    <2>4. \A u \in Token : Clean(u) => Clean(u)'
      BY Zenon, <2>1 DEF KeyTypeOK, RegTypeOK, Clean, HasTcpAgent
    <2> QED
      BY ZenonT(30), <1>1, <2>2, <2>3, <2>4
         DEF EnforcedServesOnlyProven, UnflaggedIsClean, Clean, CanTrack, countVars, polVars,
             KeyTypeOK
  <1>3. ASSUME NEW id \in 1..nextReg, RemoveChecked(t, id)
        PROVE  KeyInv'
    <2>1. proven' = [proven EXCEPT ![t] = @ \ {id}] /\ UNCHANGED <<pinKey, pinIssued>>
      BY Zenon, <1>3 DEF RemoveChecked
    <2>2. agents' = [agents EXCEPT ![t] = @ \ {id}] /\ parks' = parks
      BY Zenon, <1>3 DEF RemoveChecked, RemoveRegistration, Registered, regVars, KeyTypeOK, RegTypeOK
    <2>3. KeyTypeOK'
      BY Zenon, <1>1, <2>1 DEF KeyTypeOK, RegInv, countVars, polVars
    <2>4. ProvenIsLive' /\ ProvenCarriesPin'
      BY Zenon, <1>1, <2>1, <2>2 DEF KeyTypeOK, RegTypeOK, ProvenIsLive, ProvenCarriesPin
    <2>5. \A u \in Token : Clean(u) => Clean(u)'
      BY Zenon, <2>1, <2>2 DEF KeyTypeOK, RegTypeOK, Clean, HasTcpAgent
    <2> QED
      BY ZenonT(30), <1>1, <2>3, <2>4, <2>5
         DEF EnforcedServesOnlyProven, UnflaggedIsClean, Clean, CanTrack, countVars, polVars,
             KeyTypeOK
  <1> QED
    BY Zenon, <1>2, <1>3

(* The routing operations the pins do not take part in change neither the  *)
(* registrations nor, for a tunnel without a pool, its parks.              *)
LEMMA OtherKeepsInv ==
  ASSUME KeyInv, RegInv', OtherStep
  PROVE  KeyInv'
  <1> USE DEF KeyInv
  <1>1. UNCHANGED keyVars
    BY Zenon DEF OtherStep
  <1>2. agents' = agents /\ nextReg' = nextReg
    BY ZenonT(30) DEF OtherStep, SeedRevokedTokens, RegisterHost, AdvertiseDirect, ParkedAgentDies,
           DeliverToTcpAgent, EvictIdle, ReapDeadTcpParks
  <1>3. ASSUME NEW u \in Token, parks[u] = NoParks
        PROVE  parks'[u] = NoParks
    <2>1. ASSUME NEW t \in Token, ParkedAgentDies(t) \/ DeliverToTcpAgent(t)
          PROVE  parks'[u] = NoParks
      BY SMTT(30), <1>3, <2>1 DEF ParkedAgentDies, DeliverToTcpAgent, NoParks, KeyTypeOK, RegTypeOK
    <2>2. CASE ReapDeadTcpParks
      BY <1>3, <2>2 DEF ReapDeadTcpParks, NoParks
    <2> QED
      BY Zenon, <1>3, <2>1, <2>2 DEF OtherStep, SeedRevokedTokens, RegisterHost, AdvertiseDirect, EvictIdle
  <1>4. KeyTypeOK'
    BY Zenon, <1>1, <1>2 DEF KeyTypeOK, RegInv, keyVars, pinVars, countVars, polVars
  <1>5. ProvenIsLive' /\ ProvenCarriesPin'
    BY Zenon, <1>1, <1>2 DEF ProvenIsLive, ProvenCarriesPin, keyVars, pinVars
  <1>6. \A u \in Token : Clean(u) => Clean(u)'
    BY Zenon, <1>1, <1>2, <1>3 DEF Clean, HasTcpAgent, keyVars, pinVars
  <1> QED
    BY ZenonT(30), <1>1, <1>4, <1>5, <1>6
       DEF EnforcedServesOnlyProven, UnflaggedIsClean, Clean, CanTrack, keyVars, countVars,
           polVars, KeyTypeOK

(* Every step keeps the invariant.                                         *)
LEMMA KeyStep == KeyInv /\ [KeyNext]_vars => KeyInv'
  <1> SUFFICES ASSUME KeyInv, [KeyNext]_vars
               PROVE  KeyInv'
    BY Zenon
  <1>1. RegInv'
    BY Zenon, KeyStepIsRegStep, RegStep DEF KeyInv
  <1>2. CASE UNCHANGED vars
    BY Zenon, <1>1, <1>2
       DEF KeyInv, KeyTypeOK, RegInv, ProvenIsLive, ProvenCarriesPin, EnforcedServesOnlyProven,
           UnflaggedIsClean, Clean, CanTrack, HasTcpAgent, vars, regVars, keyVars, pinVars,
           countVars, polVars
  <1>3. CASE KeyNext
    BY ZenonT(30), <1>1, <1>3, ProvenKeepsInv, RepinKeepsInv, RejectedKeepsInv, UnprovenKeepsInv,
       ParkCheckedKeepsInv, ProofFailsKeepsInv, PolicyKeepsInv, TeardownKeepsInv, OtherKeepsInv
       DEF KeyNext
  <1> QED
    BY Zenon, <1>2, <1>3

(* KeyInv is inductive.                                                    *)
LEMMA KeyInvariant == KeySpec => []KeyInv
  BY KeyInitInv, KeyStep, PTL DEF KeySpec

-----------------------------------------------------------------------------
(* AUF-20261011-049 (N4): on Enforce only proven registrations serve, for  *)
(* any number of tunnels and however stale the modes callers carry.        *)
THEOREM EnforceHolds == KeySpec => []EnforcedServesOnlyProven
  <1>1. KeyInv => EnforcedServesOnlyProven
    BY Zenon DEF KeyInv
  <1> QED
    BY <1>1, KeyInvariant, PTL

(* agent_pins names live registrations that showed the pinned key.         *)
THEOREM ProvenSetHonest == KeySpec => [](ProvenIsLive /\ ProvenCarriesPin)
  <1>1. KeyInv => ProvenIsLive /\ ProvenCarriesPin
    BY Zenon DEF KeyInv
  <1> QED
    BY <1>1, KeyInvariant, PTL

(* B2: agent_key_ready_for_enforce promises that the switch evicts         *)
(* nothing, whatever the bound on the counter map.                         *)
THEOREM ReadinessHonest == KeySpec => []ReadyLosesNothing
  <1>1. KeyInv => ReadyLosesNothing
    BY Zenon DEF KeyInv, KeyTypeOK, ReadyLosesNothing, ReadyForEnforce, UnflaggedIsClean, Clean, CanTrack
  <1> QED
    BY <1>1, KeyInvariant, PTL

(* N10: a pin never moves back, short of a revocation.                     *)
THEOREM PinsMoveForward == KeySpec => PinNeverMovesBack
  <1> DEFINE A == \A t \in Token :
                     pinKey[t] # NoKey =>
                        \/ pinIssued'[t] >= pinIssued[t] /\ (pinKey'[t] # pinKey[t] => pinIssued'[t] > pinIssued[t])
                        \/ t \in revoked'
  <1>1. ASSUME KeyTypeOK, KeyNext PROVE A
    <2>1. CASE UNCHANGED <<pinKey, pinIssued>>
      BY SMTT(30), <1>1, <2>1 DEF KeyTypeOK
    <2>2. ASSUME NEW t \in Token, NEW k \in Key, NEW i \in 1..MaxIssue,
                 RegisterProven(t, k, i) \/ RegisterRepinned(t, k, i)
          PROVE  A
      <3>1. /\ pinKey \in [Token -> Key \cup {NoKey}]
            /\ pinIssued \in [Token -> 0..MaxIssue]
        BY Zenon, <1>1 DEF KeyTypeOK
      <3>2. CASE RegisterProven(t, k, i)
        <4>1. /\ pinKey[t] \in {NoKey, k}
              /\ pinKey' = [pinKey EXCEPT ![t] = k]
              /\ pinIssued' = [pinIssued EXCEPT
                                 ![t] = IF pinKey[t] = NoKey \/ i > @ THEN i ELSE @]
          BY Zenon, <3>2 DEF RegisterProven, PinOutcome
        <4> QED
          BY ONLY SMTT(30), <3>1, <4>1, KeyAssumption, t \in Token, i \in 1..MaxIssue DEF KeyAssumption
      <3>3. CASE RegisterRepinned(t, k, i)
        <4>1. /\ i > pinIssued[t]
              /\ pinKey' = [pinKey EXCEPT ![t] = k]
              /\ pinIssued' = [pinIssued EXCEPT ![t] = i]
          BY Zenon, <3>3 DEF RegisterRepinned, PinOutcome
        <4> QED
          BY ONLY <3>1, <4>1, KeyAssumption, t \in Token, i \in 1..MaxIssue DEF KeyAssumption
      <3> QED
        BY Zenon, <2>2, <3>2, <3>3
    <2>3. ASSUME NEW t \in Token, RevokeChecked(t)
          PROVE  A
      BY <1>1, <2>3 DEF KeyTypeOK, RevokeChecked, RevokeToken
    <2> QED
      BY ZenonT(30), <1>1, <2>1, <2>2, <2>3
         DEF KeyNext, RegisterRejected, RegisterUnproven, ParkChecked, ProofFails, RemoveChecked,
             SetAgentKeyPolicy, OtherStep, keyVars, pinVars
  <1>2. KeyInv /\ [KeyNext]_vars => [A]_vars
    BY Zenon, <1>1 DEF KeyInv
  <1> QED
    BY <1>2, KeyInvariant, PTL DEF KeySpec, PinNeverMovesBack

(* Every step of the policy and pin code is a step the routing state       *)
(* allows...                                                               *)
THEOREM KeysImplementRegistry == KeySpec => RegSpec
  <1>1. KeyInit => RegInit
    BY Zenon DEF KeyInit
  <1>2. KeyInv /\ [KeyNext]_vars => [RegNext]_regVars
    BY Zenon, KeyStepIsRegStep DEF KeyInv
  <1> QED
    BY <1>1, <1>2, KeyInvariant, PTL DEF KeySpec, RegSpec

(* ... so a token revoked under any policy stays down.                     *)
THEOREM RevokedStaysDownUnderPolicy == KeySpec => []RevokedIsDown
  BY KeysImplementRegistry, RevokedStaysDown, PTL

-----------------------------------------------------------------------------
(* Every window the control plane wants closed is on file, or its tunnel   *)
(* is revoked, or the rehydration will still put it there: before the      *)
(* answer is in, every listed tunnel's; then those of the answer that      *)
(* belong to a hostname not yet replayed.                                  *)
WindowsOnFile ==
    /\ rehydrated = "awaited" => intended \subseteq policy \cup revoked \cup Listed
    /\ rehydrated = "replaying" =>
          intended \subseteq policy \cup revoked \cup (snap \cap {Registry[h] : h \in replay})
    /\ WindowsConverge

(* A browser that passed a window meant to be closed, after the            *)
(* rehydration, holds a revoked token: it has not opened a stream, or      *)
(* failed to.                                                              *)
LeakedHoldsRevoked ==
    \A b \in Browser : <<b, "done">> \in leaked =>
        browser[b].tok \in revoked /\ browser[b].at \in {"admitted", "failed"}

(* The rehydration is not answered before the listeners open, hostnames    *)
(* are left to replay only between the answer and its end, and what        *)
(* revoke_token still has to clear is of a token it has marked.            *)
BootAndTail ==
    /\ ~serving => rehydrated = "awaited"
    /\ half \subseteq replay /\ (replay # {} => rehydrated = "replaying")
    /\ clearing.next # "none" => clearing.of \in revoked

(* The inductive invariant.  WindowsConverge is not inductive: the answer  *)
(* is applied hostname by hostname while pushes and revocations go on; nor *)
(* is SettledWindowServesNobody: that the stream cannot open rests on      *)
(* RevokedIsDown.                                                          *)
FDInv == FDTypeOK /\ RegInv /\ WindowsOnFile /\ LeakedHoldsRevoked /\ BootAndTail

-----------------------------------------------------------------------------
(* Every action of the front door does to the routing state what one of    *)
(* its critical sections does, or nothing.                                 *)
LEMMA FrontDoorStep == FDNext => RegNext \/ UNCHANGED regVars
  <1> SUFFICES ASSUME FDNext PROVE RegNext \/ UNCHANGED regVars
    BY Zenon
  <1>1. ASSUME NEW seed \in SUBSET (Token \ Listed), NEW answered \in BOOLEAN,
               Boot(seed, answered)
        PROVE  RegNext
    <2>1. seed \in SUBSET Token /\ SeedRevokedTokens(seed)
      BY Zenon, <1>1 DEF Boot
    <2> QED
      BY Zenon, <2>1 DEF RegNext
  <1>2. ASSUME NEW h \in Host, NEW t \in Token, BindHost(h, t)
        PROVE  RegNext \/ UNCHANGED regVars
    BY Zenon, <1>2 DEF BindHost, RegNext
  <1>3. ASSUME NEW t \in Token, RegisterAgent(t)
        PROVE  RegNext
    BY Zenon, <1>3 DEF RegisterAgent, RegNext
  <1>4. ASSUME NEW t \in Token, RevokeStarts(t)
        PROVE  RegNext
    BY Zenon, <1>4 DEF RevokeStarts, RegNext
  <1>5. ASSUME NEW t \in Token, NEW id \in 1..nextReg, AgentDrops(t, id)
        PROVE  RegNext
    BY Zenon, <1>5 DEF AgentDrops, RegNext
  <1>6. CASE UNCHANGED regVars
    BY Zenon, <1>6
  <1> QED
    BY Zenon, <1>1, <1>2, <1>3, <1>4, <1>5, <1>6
       DEF FDNext, ReplayFetch, ReplayAuthorize, ReplayPolicy, ControlPlaneGrants,
           AuthorizeHost, SetCertTier, SetAccessPolicy, BindCheck, RevokeClearsAuth,
           RevokeClearsPolicy, BrowserRoutes, BrowserWindow, BrowserOpens

(* The front door implements the routing state (EdgeState): what is proved *)
(* of EdgeRegistry holds here.                                             *)
THEOREM FrontDoorImplementsRegistry == FDSpec => ImplementsRegistry
  <1>1. FDInit => RegInit
    BY Zenon DEF FDInit
  <1>2. [FDNext]_fdVars => [RegNext]_regVars
    BY Zenon, FrontDoorStep DEF fdVars
  <1> QED
    BY <1>1, <1>2, PTL DEF FDSpec, ImplementsRegistry

-----------------------------------------------------------------------------
(* The first state: only windows of listed tunnels are meant to be closed. *)
LEMMA FDInitInv == FDInit => FDInv
  <1> SUFFICES ASSUME FDInit PROVE FDInv
    BY Zenon
  <1>1. RegInv
    BY Zenon, RegInitInv DEF FDInit
  <1>2. Listed \subseteq Token
    BY Zenon, FrontDoorAssumption DEF FrontDoorAssumption, Listed, Fetched
  <1>3. FDTypeOK
    BY Zenon, <1>1, <1>2 DEF FDInit, FDTypeOK, RegInv, Clear
  <1>4. WindowsOnFile /\ LeakedHoldsRevoked /\ BootAndTail
    BY Zenon DEF FDInit, WindowsOnFile, WindowsConverge, LeakedHoldsRevoked, BootAndTail, Clear
  <1> QED
    BY Zenon, <1>1, <1>3, <1>4 DEF FDInv

(* A step that changes nothing.                                            *)
LEMMA FDStutter == FDInv /\ UNCHANGED fdVars => FDInv'
  <1> SUFFICES ASSUME FDInv, UNCHANGED fdVars PROVE FDInv'
    BY Zenon
  <1>1. UNCHANGED regVars /\ UNCHANGED <<auth, tierDue, gelb, policy, checked, clearing,
             rehydrated, replay, half, snap, browser, leaked, sent, intended, pushes>>
    BY Zenon DEF fdVars, grantVars, replayVars, webVars, cpVars
  <1>2. RegInv' /\ revoked' = revoked /\ serving' = serving
    BY Zenon, <1>1, RegStep DEF FDInv, regVars
  <1>3. FDTypeOK'
    BY Zenon, <1>1, <1>2 DEF FDInv, FDTypeOK, RegInv
  <1>4. WindowsOnFile' /\ LeakedHoldsRevoked' /\ BootAndTail'
    BY Zenon, <1>1, <1>2 DEF FDInv, WindowsOnFile, WindowsConverge, LeakedHoldsRevoked, BootAndTail
  <1> QED
    BY Zenon, <1>2, <1>3, <1>4 DEF FDInv

(* The boot replay and the background one put the windows they carry on    *)
(* file.                                                                   *)
LEMMA RehydrationKeepsInv ==
  ASSUME FDInv, RegInv',
         \/ \E seed \in SUBSET (Token \ Listed), answered \in BOOLEAN : Boot(seed, answered)
         \/ ReplayFetch
         \/ \E h \in Host : ReplayAuthorize(h) \/ ReplayPolicy(h)
  PROVE  FDInv'
  <1> USE DEF FDInv
  <1>1. ASSUME NEW seed \in SUBSET (Token \ Listed), NEW answered \in BOOLEAN,
               Boot(seed, answered)
        PROVE  FDInv'
    <2>1. rehydrated = "awaited" /\ revoked \subseteq revoked' /\ serving'
      BY Zenon, <1>1 DEF Boot, SeedRevokedTokens, BootAndTail
    <2>2. FDTypeOK'
      BY <1>1, FrontDoorAssumption
         DEF FrontDoorAssumption, Boot, FDTypeOK, RegInv, Fetched, webVars, cpVars
    <2>3. WindowsOnFile'
      BY Zenon, <1>1, <2>1 DEF Boot, WindowsOnFile, WindowsConverge, webVars, cpVars
    <2>4. LeakedHoldsRevoked' /\ BootAndTail'
      BY Zenon, <1>1, <2>1 DEF Boot, LeakedHoldsRevoked, BootAndTail, webVars, cpVars
    <2> QED
      BY Zenon, <2>2, <2>3, <2>4
  <1>2. CASE ReplayFetch
    <2>1. FDTypeOK'
      BY Zenon, <1>2 DEF ReplayFetch, FDTypeOK, RegInv, Fetched, grantVars, webVars, cpVars
    <2>2. WindowsOnFile'
      BY Zenon, <1>2 DEF ReplayFetch, WindowsOnFile, WindowsConverge, Listed, regVars, grantVars, cpVars
    <2>3. LeakedHoldsRevoked' /\ BootAndTail'
      BY Zenon, <1>2 DEF ReplayFetch, LeakedHoldsRevoked, BootAndTail, regVars, webVars
    <2> QED
      BY Zenon, <2>1, <2>2, <2>3
  <1>3. ASSUME NEW h \in Host, ReplayAuthorize(h)
        PROVE  FDInv'
    <2>1. FDTypeOK'
      BY Zenon, <1>3, FrontDoorAssumption
         DEF FrontDoorAssumption, ReplayAuthorize, FDTypeOK, RegInv, webVars, cpVars
    <2>2. WindowsOnFile' /\ LeakedHoldsRevoked' /\ BootAndTail'
      BY Zenon, <1>3 DEF ReplayAuthorize, WindowsOnFile, WindowsConverge, LeakedHoldsRevoked,
                  BootAndTail, regVars, webVars, cpVars
    <2> QED
      BY Zenon, <2>1, <2>2
  <1>4. ASSUME NEW h \in Host, ReplayPolicy(h)
        PROVE  FDInv'
    <2>1. FDTypeOK'
      BY Zenon, <1>4 DEF ReplayPolicy, ReplayedPolicy, FDTypeOK, RegInv, webVars, cpVars
    <2>2. WindowsOnFile'
      <3>1. intended \subseteq policy \cup revoked \cup (snap \cap {Registry[g] : g \in replay})
        BY Zenon, <1>4 DEF ReplayPolicy, WindowsOnFile, BootAndTail
      <3>2. /\ policy' = policy \cup (snap \cap {Registry[h]}) /\ replay' = replay \ {h}
            /\ rehydrated' = (IF replay' = {} THEN "done" ELSE "replaying")
            /\ intended' = intended /\ revoked' = revoked /\ snap' = snap
        BY Zenon, <1>4 DEF ReplayPolicy, ReplayedPolicy, regVars, cpVars
      <3>3. intended \subseteq policy' \cup revoked \cup (snap \cap {Registry[g] : g \in replay'})
        BY Zenon, <3>1, <3>2
      <3> QED
        BY Zenon, <3>2, <3>3 DEF WindowsOnFile, WindowsConverge
    <2>3. LeakedHoldsRevoked' /\ BootAndTail'
      BY Zenon, <1>4 DEF ReplayPolicy, LeakedHoldsRevoked, BootAndTail, regVars, webVars
    <2> QED
      BY Zenon, <2>1, <2>2, <2>3
  <1> QED
    BY Zenon, <1>1, <1>2, <1>3, <1>4

(* Pushes of the control plane, and binds: a window is pushed to the file  *)
(* and to the intention together.                                          *)
LEMMA PushesKeepInv ==
  ASSUME FDInv, RegInv',
         \/ \E h \in Host, t \in Token, g \in BOOLEAN :
               ControlPlaneGrants(h, t, g) \/ AuthorizeHost(h, t, g)
         \/ \E h \in Host, g \in BOOLEAN : SetCertTier(h, g)
         \/ \E t \in Token, closed \in BOOLEAN : SetAccessPolicy(t, closed)
         \/ \E h \in Host, t \in Token : BindCheck(h, t)
  PROVE  FDInv'
  <1> USE DEF FDInv
  <1>1. UNCHANGED <<serving, revoked, clearing, rehydrated, replay, half, snap, browser, leaked>>
    BY Zenon DEF ControlPlaneGrants, AuthorizeHost, SetCertTier, SetAccessPolicy, BindCheck,
                 regVars, replayVars, webVars
  <1>2. FDTypeOK'
    <2>1. ASSUME NEW h \in Host, NEW t \in Token, NEW g \in BOOLEAN, ControlPlaneGrants(h, t, g)
          PROVE  FDTypeOK'
      BY <1>1, <2>1 DEF ControlPlaneGrants, FDTypeOK, RegInv, grantVars
    <2>2. ASSUME NEW h \in Host, NEW t \in Token, NEW g \in BOOLEAN, AuthorizeHost(h, t, g)
          PROVE  FDTypeOK'
      BY <1>1, <2>2 DEF AuthorizeHost, FDTypeOK, RegInv
    <2>3. ASSUME NEW h \in Host, NEW g \in BOOLEAN, SetCertTier(h, g)
          PROVE  FDTypeOK'
      BY Zenon, <1>1, <2>3 DEF SetCertTier, FDTypeOK, RegInv, cpVars
    <2>4. ASSUME NEW t \in Token, NEW g \in BOOLEAN, SetAccessPolicy(t, g)
          PROVE  FDTypeOK'
      BY Zenon, <1>1, <2>4 DEF SetAccessPolicy, FDTypeOK, RegInv
    <2>5. ASSUME NEW h \in Host, NEW t \in Token, BindCheck(h, t)
          PROVE  FDTypeOK'
      BY <1>1, <2>5 DEF BindCheck, FDTypeOK, RegInv, grantVars, cpVars
    <2> QED
      BY Zenon, <2>1, <2>2, <2>3, <2>4, <2>5
  <1>3. WindowsOnFile'
    <2>1. ASSUME NEW t \in Token, NEW g \in BOOLEAN, SetAccessPolicy(t, g)
          PROVE  WindowsOnFile'
      BY Zenon, <1>1, <2>1 DEF SetAccessPolicy, WindowsOnFile, WindowsConverge
    <2>2. CASE UNCHANGED <<policy, intended>>
      BY Zenon, <1>1, <2>2 DEF WindowsOnFile, WindowsConverge
    <2> QED
      BY Zenon, <2>1, <2>2 DEF ControlPlaneGrants, AuthorizeHost, SetCertTier, BindCheck,
                               grantVars, cpVars
  <1>4. LeakedHoldsRevoked' /\ BootAndTail'
    BY Zenon, <1>1 DEF LeakedHoldsRevoked, BootAndTail
  <1> QED
    BY Zenon, <1>2, <1>3, <1>4

(* Binds, registrations, and the end of one: the windows are not touched.  *)
LEMMA AgentsKeepInv ==
  ASSUME FDInv, RegInv', NEW t \in Token,
         \/ \E h \in Host : BindHost(h, t)
         \/ RegisterAgent(t)
         \/ \E id \in 1..nextReg : AgentDrops(t, id)
  PROVE  FDInv'
  <1> USE DEF FDInv
  <1>1. UNCHANGED <<serving, revoked>>
    BY Zenon DEF BindHost, RegisterAgent, AgentDrops, RegisterHost, Register,
                 RemoveRegistration, regVars
  <1>2. UNCHANGED <<auth, tierDue, policy, clearing, rehydrated, replay, half, snap,
                    browser, leaked, sent, intended>>
    BY Zenon DEF BindHost, RegisterAgent, AgentDrops, grantVars, replayVars, webVars, cpVars
  <1>3. checked' \subseteq checked /\ gelb' \subseteq gelb
    <2>1. ASSUME NEW h \in Host, BindHost(h, t)
          PROVE  checked' \subseteq checked /\ gelb' \subseteq gelb
      BY Zenon, <2>1 DEF BindHost, grantVars
    <2>2. CASE RegisterAgent(t)
      BY Zenon, <2>2 DEF RegisterAgent, grantVars
    <2>3. ASSUME NEW id, AgentDrops(t, id)
          PROVE  checked' \subseteq checked /\ gelb' \subseteq gelb
      BY Zenon, <2>3 DEF AgentDrops, ClearTiersOf
    <2> QED
      BY Zenon, <2>1, <2>2, <2>3
  <1>4. FDTypeOK'
    BY Zenon, <1>1, <1>2, <1>3 DEF FDTypeOK, RegInv
  <1>5. WindowsOnFile' /\ LeakedHoldsRevoked' /\ BootAndTail'
    BY Zenon, <1>1, <1>2 DEF WindowsOnFile, WindowsConverge, LeakedHoldsRevoked, BootAndTail
  <1> QED
    BY Zenon, <1>4, <1>5

(* revoke_token: the token is marked before its window goes.               *)
LEMMA RevocationKeepsInv ==
  ASSUME FDInv, RegInv',
         (\E t \in Token : RevokeStarts(t)) \/ RevokeClearsAuth \/ RevokeClearsPolicy
  PROVE  FDInv'
  <1> USE DEF FDInv
  <1>1. UNCHANGED <<serving, tierDue, checked, rehydrated, replay, half, snap, browser,
                    leaked, sent, intended>>
    BY Zenon DEF RevokeStarts, RevokeClearsAuth, RevokeClearsPolicy, RevokeToken, regVars,
                 replayVars, webVars, cpVars
  <1>2. ASSUME NEW t \in Token, RevokeStarts(t)
        PROVE  FDInv'
    <2>1. /\ revoked' = revoked \cup {t} /\ auth' = auth /\ policy' = policy
          /\ clearing' = [of |-> t, next |-> "auth"] /\ ClearTiersOf(t)
      BY Zenon, <1>2 DEF RevokeStarts, RevokeToken
    <2>2. FDTypeOK'
      BY Zenon, <1>1, <2>1 DEF ClearTiersOf, FDTypeOK, RegInv
    <2>3. WindowsOnFile' /\ LeakedHoldsRevoked' /\ BootAndTail'
      BY Zenon, <1>1, <2>1 DEF WindowsOnFile, WindowsConverge, LeakedHoldsRevoked, BootAndTail
    <2> QED
      BY Zenon, <2>2, <2>3
  <1>3. CASE RevokeClearsAuth
    <2>1. FDTypeOK'
      BY Zenon, <1>1, <1>3 DEF RevokeClearsAuth, FDTypeOK, RegInv
    <2>2. WindowsOnFile' /\ LeakedHoldsRevoked' /\ BootAndTail'
      BY <1>1, <1>3 DEF RevokeClearsAuth, FDTypeOK, WindowsOnFile, WindowsConverge,
                        LeakedHoldsRevoked, BootAndTail, regVars
    <2> QED
      BY Zenon, <2>1, <2>2
  <1>4. CASE RevokeClearsPolicy
    <2>1. FDTypeOK'
      BY Zenon, <1>1, <1>4 DEF RevokeClearsPolicy, FDTypeOK, RegInv, Clear
    <2>2. WindowsOnFile'
      BY Zenon, <1>1, <1>4 DEF RevokeClearsPolicy, WindowsOnFile, WindowsConverge, BootAndTail, regVars
    <2>3. LeakedHoldsRevoked' /\ BootAndTail'
      BY <1>1, <1>4 DEF RevokeClearsPolicy, LeakedHoldsRevoked, BootAndTail, Clear, regVars
    <2> QED
      BY Zenon, <2>1, <2>2, <2>3
  <1> QED
    BY Zenon, <1>2, <1>3, <1>4

(* A browser's three reads.  One that passes a window meant to be closed   *)
(* once the rehydration is through carries a revoked token, whose agents   *)
(* are gone for good.                                                      *)
LEMMA BrowserKeepsInv ==
  ASSUME FDInv, RegInv', NEW b \in Browser,
         (\E h \in Host : BrowserRoutes(b, h)) \/ BrowserWindow(b) \/ BrowserOpens(b)
  PROVE  FDInv'
  <1> USE DEF FDInv
  <1>1. UNCHANGED regVars /\ UNCHANGED <<auth, tierDue, gelb, policy, checked, clearing,
             rehydrated, replay, half, snap, sent, intended>>
    BY Zenon DEF BrowserRoutes, BrowserWindow, BrowserOpens, grantVars, replayVars, cpVars
  <1>2. WindowsOnFile' /\ BootAndTail'
    BY Zenon, <1>1 DEF WindowsOnFile, WindowsConverge, BootAndTail, regVars
  <1>3. ASSUME NEW h \in Host, BrowserRoutes(b, h)
        PROVE  FDInv'
    <2>1. hosts[h] \in Token /\ leaked' = leaked
      BY Zenon, <1>3 DEF BrowserRoutes, RegInv, RegTypeOK
    <2>2. FDTypeOK'
      BY Zenon, <1>1, <1>3, <2>1 DEF BrowserRoutes, FDTypeOK, RegInv
    <2>3. LeakedHoldsRevoked'
      BY Zenon, <1>1, <1>3, <2>1 DEF BrowserRoutes, FDTypeOK, LeakedHoldsRevoked, regVars
    <2> QED
      BY Zenon, <1>2, <2>2, <2>3
  <1>4. CASE BrowserWindow(b)
    <2>1. FDTypeOK'
      BY <1>1, <1>4 DEF BrowserWindow, FDTypeOK, RegInv
    <2>2. /\ browser[b].at = "window" /\ revoked' = revoked
          /\ \A c \in Browser : browser'[c].tok = browser[c].tok /\ (c # b => browser'[c] = browser[c])
      BY <1>1, <1>4 DEF BrowserWindow, FDTypeOK, regVars
    <2>3. <<b, "done">> \notin leaked
      BY Zenon, <2>2 DEF LeakedHoldsRevoked
    <2>4. ASSUME <<b, "done">> \in leaked'
          PROVE  browser[b].tok \in revoked /\ browser'[b].at = "admitted"
      <3>1. /\ browser[b].tok \notin policy /\ browser[b].tok \in intended
            /\ rehydrated = "done" /\ browser'[b].at = "admitted"
        BY <1>4, <2>3, <2>4 DEF BrowserWindow, FDTypeOK
      <3> QED
        BY Zenon, <3>1 DEF WindowsOnFile, WindowsConverge
    <2>5. \A c \in Browser : c # b /\ <<c, "done">> \in leaked' => <<c, "done">> \in leaked
      BY <1>4 DEF BrowserWindow
    <2>6. LeakedHoldsRevoked'
      BY Zenon, <2>2, <2>4, <2>5 DEF LeakedHoldsRevoked
    <2> QED
      BY Zenon, <1>2, <2>1, <2>6
  <1>5. CASE BrowserOpens(b)
    <2>1. FDTypeOK'
      BY <1>1, <1>5 DEF BrowserOpens, FDTypeOK, RegInv
    <2>2. browser[b].tok \in revoked => browser'[b].at = "failed"
      BY <1>5 DEF BrowserOpens, FDTypeOK, RegInv, RevokedIsDown, Down
    <2>3. LeakedHoldsRevoked'
      BY Zenon, <1>1, <1>5, <2>2 DEF BrowserOpens, FDTypeOK, LeakedHoldsRevoked, regVars
    <2> QED
      BY <1>2, <2>1, <2>3
  <1> QED
    BY Zenon, <1>3, <1>4, <1>5

(* Every step of the front door keeps the invariant.                       *)
LEMMA FDStep == FDInv /\ [FDNext]_fdVars => FDInv'
  <1> SUFFICES ASSUME FDInv, FDNext PROVE FDInv'
    BY Zenon, FDStutter
  <1>1. RegInv'
    BY Zenon, FrontDoorStep, RegStep DEF FDInv
  <1> QED
    BY Zenon, <1>1, RehydrationKeepsInv, PushesKeepInv, AgentsKeepInv,
       RevocationKeepsInv, BrowserKeepsInv DEF FDNext

(* FDInv is inductive.                                                     *)
LEMMA FDInvariant == FDSpec => []FDInv
  BY FDInitInv, FDStep, PTL DEF FDSpec

(* #779/#548: once the rehydration is through, every window the control    *)
(* plane wants closed is on file, or its tunnel is revoked.                *)
THEOREM WindowsConverged == FDSpec => []WindowsConverge
  <1>1. FDInv => WindowsConverge
    BY Zenon DEF FDInv, WindowsOnFile
  <1> QED
    BY <1>1, FDInvariant, PTL

(* #779: after the rehydration no browser is served through a window that  *)
(* was meant to be closed when the Edge looked at it.                      *)
THEOREM ClosedWindowHolds == FDSpec => []SettledWindowServesNobody
  <1>1. FDInv => SettledWindowServesNobody
    BY Zenon DEF FDInv, LeakedHoldsRevoked, SettledWindowServesNobody
  <1> QED
    BY <1>1, FDInvariant, PTL

-----------------------------------------------------------------------------
(* Only the teardown of the token a hostname is routed to takes the route  *)
(* away, and the same teardown takes the tier: the reverse index is exact. *)
LEMMA TierStep ==
  ASSUME FDInv, FDNext, NEW h \in Host, hosts[h] # NoToken, hosts'[h] = NoToken
  PROVE  h \notin gelb'
  <1> USE RegistryAssumption DEF RegistryAssumption, FDInv, RegInv, RegTypeOK, HostIndexExact
  <1>1. ASSUME NEW t \in Token, ClearHostsFor(t), ClearTiersOf(t)
        PROVE  h \notin gelb'
    BY <1>1 DEF ClearHostsFor, ClearTiersOf
  <1>2. ASSUME NEW t \in Token, NEW id, AgentDrops(t, id)
        PROVE  h \notin gelb'
    <2>1. ClearHostsFor(t) /\ ClearTiersOf(t)
      BY Zenon, <1>2 DEF AgentDrops, RemoveRegistration, routing
    <2> QED
      BY Zenon, <1>1, <2>1
  <1>3. ASSUME NEW t \in Token, RevokeStarts(t)
        PROVE  h \notin gelb'
    BY Zenon, <1>1, <1>3 DEF RevokeStarts, RevokeToken, RemoveLocked
  <1>4. ASSUME NEW g \in Host, NEW t \in Token, BindHost(g, t)
        PROVE  FALSE
    BY <1>4 DEF BindHost, RegisterHost, regVars
  <1>5. ASSUME UNCHANGED hosts
        PROVE  FALSE
    BY Zenon, <1>5
  <1> QED
    BY ZenonT(30), <1>2, <1>3, <1>4, <1>5
       DEF FDNext, Boot, SeedRevokedTokens, ReplayFetch, ReplayAuthorize, ReplayPolicy,
           ControlPlaneGrants, AuthorizeHost, SetCertTier, SetAccessPolicy, BindCheck,
           RegisterAgent, Register, RevokeClearsAuth, RevokeClearsPolicy, BrowserRoutes,
           BrowserWindow, BrowserOpens, regVars, routing

(* #426: a hostname that loses its route loses its Gelb tier in the same   *)
(* step, so that the next tenant does not inherit it.                      *)
THEOREM TiersGoWithRoutes == FDSpec => TierGoesWithRoute
  <1> DEFINE A == \A h \in Host : hosts[h] # NoToken /\ hosts'[h] = NoToken => h \notin gelb'
  <1>1. FDInv /\ [FDNext]_fdVars => [A]_fdVars
    BY Zenon, TierStep
  <1> QED
    BY <1>1, FDInvariant, PTL DEF FDSpec, TierGoesWithRoute

(* What EdgeRegistryProofs proves of the routing state, at the front door: *)
(* a revoked token is down in every map, also in between the steps of      *)
(* revoke_token's tail.                                                    *)
THEOREM RevokedStaysDownAtFrontDoor == FDSpec => []RevokedIsDown
  <1>1. FDInv => RevokedIsDown
    BY Zenon DEF FDInv, RegInv
  <1> QED
    BY <1>1, FDInvariant, PTL
=============================================================================
