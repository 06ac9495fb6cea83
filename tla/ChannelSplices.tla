--------------------------- MODULE ChannelSplices ---------------------------
(***************************************************************************)
(* How the loss of a membership or of a grant reaches the channel legs of  *)
(* an edge: admission through the front door's authorizer with its two     *)
(* caches (src/crates/edge/src/channel_authorize.rs), the per-grant        *)
(* revocation lookup with its own cache (grant_revocation.rs), and the     *)
(* re-check sweep over the live splices (channel_broker.rs), which asks    *)
(* through an authorizer of its own (serve.rs).                            *)
(*                                                                         *)
(* One (channel, holder) is modelled: every cache and the splice registry  *)
(* are keyed by it.  The holder has several legs, each admitted with a     *)
(* grant.  A question to the control plane is answered there at one        *)
(* moment and its reply handled at a later one, or lost; QueryTimeout      *)
(* bounds the wait.  Time is counted in ticks, cache entries by the ticks  *)
(* they have left (0: no entry).                                           *)
(***************************************************************************)
EXTENDS Naturals, FiniteSets

CONSTANTS
    SpliceLeg,     \* the holder's legs
    Grant, GrantOf,
    Recheck,       \* the sweep, as an asker beside the legs
    QueryTimeout,  \* the longest a question may take
    CacheTtl,      \* CACHE_TTL: positive answers
    NegTtl,        \* NEGATIVE_CACHE_TTL: refusals
    CleanTtl       \* NOT_REVOKED_TTL: "not revoked" answers

ASSUME SplicesAssumption ==
    /\ GrantOf \in [SpliceLeg -> Grant]
    /\ Recheck \notin SpliceLeg
    /\ QueryTimeout \in Nat \ {0} /\ CacheTtl \in Nat \ {0}
    /\ NegTtl \in Nat \ {0} /\ CleanTtl \in Nat \ {0}

VARIABLES
    member,      \* control plane: the holder is a member
    since,       \* ticks since `member` last changed, capped at Horizon
    revoked,     \* control plane: revoked grants
    pos, neg,    \* front door's authorizer: ticks its two entries have left
    recheckNeg,  \* the re-check authorizer's negative entry
    known,       \* grants the revocation cache holds as revoked
    clean,       \* ticks a grant's "not revoked" entry has left
    leg,         \* "away", "asking", "vetting", "admitted", "live"
    reply,       \* per asker: "idle", "sent", "yes", "no" (answered, on its way)
    age,         \* ticks the asker's question has been open
    cut,         \* live legs whose cut signal is set
    sweep,       \* "idle", "members", "grants"
    hits,        \* the sweep's grants that the cache holds as revoked
    asked,       \* the grants the sweep asks about
    listed       \* those of them the control plane's answer lists

cp == <<member, since, revoked>>
caches == <<pos, neg, recheckNeg, known, clean>>
sweeping == <<sweep, hits, asked, listed>>
spliceVars == <<cp, caches, sweeping, leg, reply, age, cut>>

Asker == SpliceLeg \cup {Recheck}

\* Past the longest time a stale answer can matter, ages are not told apart.
Horizon == QueryTimeout + CacheTtl + NegTtl

SplicesTypeOK ==
    /\ member \in BOOLEAN /\ since \in 0..Horizon /\ revoked \subseteq Grant
    /\ pos \in 0..CacheTtl /\ neg \in 0..NegTtl /\ recheckNeg \in 0..NegTtl
    /\ known \subseteq Grant /\ clean \in [Grant -> 0..CleanTtl]
    /\ leg \in [SpliceLeg -> {"away", "asking", "vetting", "admitted", "live"}]
    /\ reply \in [Asker -> {"idle", "sent", "yes", "no"}]
    /\ age \in [Asker -> 0..QueryTimeout]
    /\ cut \subseteq SpliceLeg
    /\ sweep \in {"idle", "members", "grants"}
    /\ hits \subseteq Grant /\ asked \subseteq Grant /\ listed \subseteq Grant

SplicesInit ==
    /\ member = TRUE /\ since = Horizon /\ revoked = {}
    /\ pos = 0 /\ neg = 0 /\ recheckNeg = 0
    /\ known = {} /\ clean = [g \in Grant |-> 0]
    /\ leg = [l \in SpliceLeg |-> "away"]
    /\ reply = [q \in Asker |-> "idle"]
    /\ age = [q \in Asker |-> 0]
    /\ cut = {}
    /\ sweep = "idle" /\ hits = {} /\ asked = {} /\ listed = {}

(***************************************************************************)
(* The control plane.                                                      *)
(***************************************************************************)

RemoveMember ==
    /\ member
    /\ member' = FALSE /\ since' = 0
    /\ UNCHANGED <<revoked, caches, sweeping, leg, reply, age, cut>>

AddMember ==
    /\ ~member
    /\ member' = TRUE /\ since' = 0
    /\ UNCHANGED <<revoked, caches, sweeping, leg, reply, age, cut>>

RevokeGrant(g) ==
    /\ g \notin revoked
    /\ revoked' = revoked \cup {g}
    /\ UNCHANGED <<member, since, caches, sweeping, leg, reply, age, cut>>

YesNo(b) == IF b THEN "yes" ELSE "no"

\* A question reaches the control plane, which answers from its state now.
Answer(q) ==
    /\ reply[q] = "sent"
    /\ IF q = Recheck /\ sweep = "grants"
       THEN /\ reply' = [reply EXCEPT ![q] = "yes"]
            /\ listed' = asked \cap revoked
            /\ UNCHANGED <<sweep, hits, asked>>
       ELSE /\ reply' = [reply EXCEPT ![q] =
                  YesNo(IF q \in SpliceLeg /\ leg[q] = "vetting"
                        THEN GrantOf[q] \notin revoked ELSE member)]
            /\ UNCHANGED sweeping
    /\ UNCHANGED <<cp, caches, leg, age, cut>>

Closed(q) == reply' = [reply EXCEPT ![q] = "idle"] /\ age' = [age EXCEPT ![q] = 0]
Opened(q) == reply' = [reply EXCEPT ![q] = "sent"] /\ age' = [age EXCEPT ![q] = 0]

(***************************************************************************)
(* Admission.                                                              *)
(***************************************************************************)

Goes(l, stage) == leg' = [leg EXCEPT ![l] = stage]

\* resolve asks unless a fresh refusal answers at once.
Ask(l) ==
    /\ leg[l] = "away" /\ neg = 0
    /\ Goes(l, "asking") /\ Opened(l)
    /\ UNCHANGED <<cp, caches, sweeping, cut>>

\* A resolved member's grant is looked up in the revocation cache, and asked for on
\* a miss (admission_verdict).
LookUpGrant(l) ==
    LET g == GrantOf[l]
    IN  \/ g \in known /\ Goes(l, "away") /\ Closed(l)
        \/ g \notin known /\ clean[g] > 0 /\ Goes(l, "admitted") /\ Closed(l)
        \/ g \notin known /\ clean[g] = 0 /\ Goes(l, "vetting") /\ Opened(l)

\* Outcome::Authorized: cached, and an earlier refusal is forgotten.
ResolveYes(l) ==
    /\ leg[l] = "asking" /\ reply[l] = "yes"
    /\ pos' = CacheTtl /\ neg' = 0
    /\ LookUpGrant(l)
    /\ UNCHANGED <<cp, recheckNeg, known, clean, sweeping, cut>>

\* Outcome::Refused: the positive entry is evicted and the refusal cached.
ResolveNo(l) ==
    /\ leg[l] = "asking" /\ reply[l] = "no"
    /\ pos' = 0 /\ neg' = NegTtl
    /\ Goes(l, "away") /\ Closed(l)
    /\ UNCHANGED <<cp, recheckNeg, known, clean, sweeping, cut>>

\* Mutant: falling back on the cache renews the entry.
MutResolveLost(l) ==
    /\ leg[l] = "asking"
    /\ \/ pos > 0 /\ LookUpGrant(l) /\ pos' = CacheTtl
       \/ pos = 0 /\ Goes(l, "away") /\ Closed(l) /\ UNCHANGED pos
    /\ UNCHANGED <<cp, neg, recheckNeg, known, clean, sweeping, cut>>

\* Outcome::Unresolved, a timeout or any unreadable reply: the cached resolution,
\* while it lasts.
ResolveLost(l) ==
    /\ leg[l] = "asking"
    /\ \/ pos > 0 /\ LookUpGrant(l)
       \/ pos = 0 /\ Goes(l, "away") /\ Closed(l)
    /\ UNCHANGED <<cp, caches, sweeping, cut>>

\* The revocation list's reply about the grants G, of which it lists R, is cached.
Learns(G, R) ==
    /\ known' = (known \ G) \cup R
    /\ clean' = [g \in Grant |-> IF g \in R THEN 0
                                 ELSE IF g \in G THEN CleanTtl ELSE clean[g]]

VetYes(l) ==
    /\ leg[l] = "vetting" /\ reply[l] = "yes"
    /\ Learns({GrantOf[l]}, {})
    /\ Goes(l, "admitted") /\ Closed(l)
    /\ UNCHANGED <<cp, pos, neg, recheckNeg, sweeping, cut>>

VetNo(l) ==
    /\ leg[l] = "vetting" /\ reply[l] = "no"
    /\ Learns({GrantOf[l]}, {GrantOf[l]})
    /\ Goes(l, "away") /\ Closed(l)
    /\ UNCHANGED <<cp, pos, neg, recheckNeg, sweeping, cut>>

\* AdmissionVerdict::Unreadable: admission fails closed.
VetLost(l) ==
    /\ leg[l] = "vetting"
    /\ Goes(l, "away") /\ Closed(l)
    /\ UNCHANGED <<cp, caches, sweeping, cut>>

\* An admitted leg found its partner: register_live_splice_with_digest.
Register(l) ==
    /\ leg[l] = "admitted"
    /\ Goes(l, "live")
    /\ UNCHANGED <<cp, caches, sweeping, reply, age, cut>>

\* The park or the splice ends by itself, or the splice's select sees the cut; the
\* guard deregisters the leg.
LegEnds(l) ==
    /\ leg[l] \in {"admitted", "live"}
    /\ Goes(l, "away")
    /\ cut' = cut \ {l}
    /\ UNCHANGED <<cp, caches, sweeping, reply, age>>

(***************************************************************************)
(* sweep_live_splice_memberships.                                          *)
(***************************************************************************)

Live == {l \in SpliceLeg : leg[l] = "live"}

LiveWith(G) == {l \in Live : GrantOf[l] \in G}

SweepIdle ==
    /\ sweep' = "idle" /\ hits' = {} /\ asked' = {} /\ listed' = {}
    /\ Closed(Recheck)

\* The second half of a sweep begins: the grants of the legs now live, against the
\* revocation cache first.  The legs in C have just been signalled.
SweepGrants(C) ==
    LET ds   == {GrantOf[l] : l \in Live}
        miss == {g \in ds \ known : clean[g] = 0}
    IN  IF miss = {}
        THEN /\ cut' = cut \cup C \cup LiveWith(ds \cap known)
             /\ SweepIdle
        ELSE /\ cut' = cut \cup C
             /\ sweep' = "grants" /\ hits' = ds \cap known /\ asked' = miss
             /\ UNCHANGED listed
             /\ Opened(Recheck)

\* run_membership_recheck_loop's tick.  A fresh refusal of the re-check authorizer
\* cuts without asking.
SweepStart ==
    /\ sweep = "idle" /\ Live # {}
    /\ \/ recheckNeg > 0 /\ SweepGrants(Live)
       \/ /\ recheckNeg = 0
          /\ sweep' = "members" /\ Opened(Recheck)
          /\ UNCHANGED <<hits, asked, listed, cut>>
    /\ UNCHANGED <<cp, caches, leg>>

\* Mutant: an unreachable control plane counts as a refusal.
MutSweepMembers ==
    /\ sweep = "members"
    /\ \/ reply[Recheck] = "yes" /\ SweepGrants({}) /\ UNCHANGED recheckNeg
       \/ recheckNeg' = NegTtl /\ SweepGrants(Live)
    /\ UNCHANGED <<cp, pos, neg, known, clean, leg>>

\* definitively_not_a_member returned: only a refusal cuts.
SweepRefused ==
    /\ sweep = "members" /\ reply[Recheck] = "no"
    /\ recheckNeg' = NegTtl
    /\ SweepGrants(Live)
    /\ UNCHANGED <<cp, pos, neg, known, clean, leg>>

SweepMembers ==
    \/ SweepRefused
    \/ /\ sweep = "members"
       /\ SweepGrants({})
       /\ UNCHANGED <<cp, caches, leg>>

\* revoked_for_sweep returned: the legs live with a listed grant are cut.
SweepRevoked ==
    /\ sweep = "grants" /\ reply[Recheck] = "yes"
    /\ Learns(asked, listed)
    /\ cut' = cut \cup LiveWith(hits \cup listed)
    /\ SweepIdle
    /\ UNCHANGED <<cp, pos, neg, recheckNeg, leg>>

\* An unreadable list cuts nothing, not even the cached hits.
SweepUnread ==
    /\ sweep = "grants"
    /\ SweepIdle
    /\ UNCHANGED <<cp, caches, leg, cut>>

Less(n) == IF n = 0 THEN 0 ELSE n - 1

\* Mutant: a "not revoked" entry does not age.
MutTick ==
    /\ \A q \in Asker : reply[q] # "idle" => age[q] < QueryTimeout
    /\ since' = IF since < Horizon THEN since + 1 ELSE since
    /\ pos' = Less(pos) /\ neg' = Less(neg) /\ recheckNeg' = Less(recheckNeg)
    /\ age' = [q \in Asker |-> IF reply[q] = "idle" THEN 0 ELSE age[q] + 1]
    /\ UNCHANGED <<member, revoked, known, clean, sweeping, leg, reply, cut>>

\* A tick of the clock; no question stays open longer than QueryTimeout.
Tick ==
    /\ \A q \in Asker : reply[q] # "idle" => age[q] < QueryTimeout
    /\ since' = IF since < Horizon THEN since + 1 ELSE since
    /\ pos' = Less(pos) /\ neg' = Less(neg) /\ recheckNeg' = Less(recheckNeg)
    /\ clean' = [g \in Grant |-> Less(clean[g])]
    /\ age' = [q \in Asker |-> IF reply[q] = "idle" THEN 0 ELSE age[q] + 1]
    /\ UNCHANGED <<member, revoked, known, sweeping, leg, reply, cut>>

(***************************************************************************)
(* The specification.                                                      *)
(***************************************************************************)

Admission(l) ==
    ResolveYes(l) \/ ResolveNo(l) \/ ResolveLost(l) \/ VetYes(l) \/ VetNo(l) \/ VetLost(l)

SplicesNext ==
    \/ RemoveMember \/ AddMember \/ \E g \in Grant : RevokeGrant(g)
    \/ \E q \in Asker : Answer(q)
    \/ \E l \in SpliceLeg : Ask(l) \/ Admission(l) \/ Register(l) \/ LegEnds(l)
    \/ SweepStart \/ SweepMembers \/ SweepRevoked \/ SweepUnread
    \/ Tick

SplicesSpec == SplicesInit /\ [][SplicesNext]_spliceVars

\* Fairness: the clock and the re-check's interval advance, open questions come back
\* in some way, and a signalled splice ends.  The strong fairness says that the
\* control plane is not unreachable for ever for either question of the re-check.
SplicesFairSpec ==
    /\ SplicesSpec
    /\ WF_spliceVars(Tick) /\ WF_spliceVars(SweepStart)
    /\ WF_spliceVars(SweepMembers \/ SweepRevoked \/ SweepUnread)
    /\ SF_spliceVars(sweep = "members" /\ Answer(Recheck)) /\ SF_spliceVars(SweepRefused)
    /\ SF_spliceVars(sweep = "grants" /\ Answer(Recheck)) /\ SF_spliceVars(SweepRevoked)
    /\ \A l \in SpliceLeg :
          WF_spliceVars(Admission(l)) /\ WF_spliceVars(l \in cut /\ LegEnds(l))

(***************************************************************************)
(* Properties.                                                             *)
(***************************************************************************)

\* A holder that is no longer a member passes resolve only within QueryTimeout and
\* CACHE_TTL of the removal: a late reply and the fail-static cache add up, and
\* falling back on the cache does not renew it (channel_authorize.rs).
StaleYesBounded ==
    [][\A l \in SpliceLeg :
          (leg[l] = "asking" /\ leg'[l] \in {"vetting", "admitted"} /\ ~member)
              => since <= QueryTimeout + CacheTtl]_spliceVars

\* A call is cut only when its grant is revoked, its holder is not a member, or was
\* re-added less than a question and NEGATIVE_CACHE_TTL ago: no control-plane outage
\* ends a healthy call (sweep_live_splice_memberships).
HealthyCallKept ==
    [][\A l \in cut' \ cut :
          \/ GrantOf[l] \in revoked
          \/ ~member
          \/ since <= QueryTimeout + NegTtl]_spliceVars

\* No leg outlives its authorization: a leg that stays live has its holder a member
\* and its grant unrevoked again and again, whatever the caches held when either
\* was withdrawn and whichever replies of the re-check are lost.
WithdrawnLegsEnd ==
    \A l \in SpliceLeg : []<>(leg[l] # "live" \/ (member /\ GrantOf[l] \notin revoked))

\* channel_authorize.rs on #696: once a refusal of the holder has been seen, a lost
\* question must not re-admit it from the positive cache.  Violated: the refusal
\* the re-check sees evicts the entry of its own authorizer only.
RefusalHolds ==
    [][\A l \in SpliceLeg :
          (recheckNeg > 0 /\ ~member /\ leg[l] = "asking" /\ reply[l] # "yes")
              => leg'[l] \notin {"vetting", "admitted"}]_spliceVars

\* grant_revocation.rs: a "revoked" answer "is final".  Violated: an older answer
\* that arrives late overwrites the entry.
RevokedIsFinal == [][known \subseteq known']_spliceVars
=============================================================================
