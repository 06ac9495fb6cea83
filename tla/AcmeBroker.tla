----------------------------- MODULE AcmeBroker -----------------------------
(***************************************************************************)
(* Certificate admission in the control plane: the tiers of a hostname     *)
(* (rot, gelb, gruen), the queue for a certificate authority's budget, the *)
(* admission loop and the agent's completion call                          *)
(* (src/crates/control-plane/src/acme_broker.rs over storage.rs), and the  *)
(* pushes that tell the edge which hostnames it terminates itself.         *)
(*                                                                         *)
(* One domain and one authority, the only one of active_rotation().  The   *)
(* tunnel rows survive a restart of the control plane; the edge's set of   *)
(* gelb hosts does not survive one of the edge.  A push is an HTTP call:   *)
(* its request or its answer can be lost, and everything else goes on      *)
(* while it is under way.                                                  *)
(***************************************************************************)
EXTENDS Naturals, FiniteSets, Sequences, SequencesExt

CONSTANTS
    Host,
    Legacy,       \* hosts whose row an older version left at "lapsed"
    Budget,       \* budget_for: issuances per window
    MaxEvents     \* bound: renewals, opt-out changes and restarts, together

ASSUME BrokerAssumption ==
    /\ IsFiniteSet(Host) /\ Legacy \subseteq Host
    /\ Budget \in Nat \ {0}
    /\ MaxEvents \in Nat

VARIABLES
    status,      \* subject_tunnels.status
    claim,       \* claim_state: "none", "offered", "lapsed" (only old rows)
    expired,     \* offered hosts whose claim_deadline has passed
    optOut,      \* hosts with cert_claim_opt_out
    line,        \* waiting hosts by queued_at; a waiting host not in it has NULL
    joined,      \* those of them stamped since the running tick began
    revert,      \* hosts with pending_revert
    rows,        \* ledger rows of each host inside the budget window
    known,       \* hosts edge_mesh has an owner for
    onEdge,      \* the edge's gelb_hosts
    push,        \* per caller and host: "none", "sent", "applied"
    stage,       \* where sweep_once is
    todo,        \* the hosts its current loop has left
    due,         \* expired hosts as of the tick's `now`
    fifo,        \* the queue its last step works on
    used,        \* the ledger count pick_ca_with has read
    agent,       \* "idle", "checked" (inside issuance_complete)
    left         \* what is left of MaxEvents

db == <<status, claim, expired, optOut, line, joined, revert, rows, known>>
sweep == <<stage, todo, due, fifo, used>>
vars == <<db, onEdge, push, sweep, agent, left>>

Caller == {"sweep", "agent"}
Gelb == {h \in Host : status[h] = "gelb"}
Reserved == {h \in Host : claim[h] = "offered"}

\* Rows written in the window, over all hosts (COUNT(*) in ca_budget_usage).
LedgerRows == {<<h, i>> \in Host \X (1..(MaxEvents + 1)) : i <= rows[h]}
Used == Cardinality(LedgerRows)

Stages == {"idle", "promote", "reaffirm", "revert", "admit", "picking"}

TypeOK ==
    /\ status \in [Host -> {"rot", "gelb", "gruen"}]
    /\ claim \in [Host -> {"none", "offered", "lapsed"}]
    /\ expired \subseteq Host /\ optOut \subseteq Host /\ joined \subseteq Host
    /\ revert \subseteq Host /\ known \subseteq Host
    /\ ToSet(line) \subseteq Host /\ IsInjective(line)
    /\ rows \in [Host -> 0..(MaxEvents + 1)]
    /\ onEdge \subseteq Host
    /\ push \in [Caller \X Host -> {"none", "sent", "applied"}]
    /\ stage \in Stages
    /\ todo \subseteq Host /\ due \subseteq Host /\ ToSet(fifo) \subseteq Host
    /\ used \in Nat
    /\ agent \in [Host -> {"idle", "checked"}]
    /\ left \in 0..MaxEvents

\* New tunnels, and the rows an older version left behind.
Init ==
    /\ status = [h \in Host |-> IF h \in Legacy THEN "gelb" ELSE "rot"]
    /\ claim = [h \in Host |-> IF h \in Legacy THEN "lapsed" ELSE "none"]
    /\ known = Legacy
    /\ expired = {} /\ optOut = {} /\ line = <<>> /\ joined = {}
    /\ revert = {} /\ rows = [h \in Host |-> 0]
    /\ onEdge = {} /\ push = [p \in Caller \X Host |-> "none"]
    /\ stage = "idle" /\ todo = {} /\ due = {} /\ fifo = <<>> /\ used = 0
    /\ agent = [h \in Host |-> "idle"]
    /\ left = MaxEvents

-----------------------------------------------------------------------------
(* Channel-tier pushes                                                      *)

\* The tier a push of this caller carries.
PushesGelb(who) == who = "sweep" /\ stage \in {"promote", "reaffirm"}

\* The edge handles the call: set_cert_tier.
Deliver(who, h) ==
    /\ push[who, h] = "sent"
    /\ push' = [push EXCEPT ![who, h] = "applied"]
    /\ onEdge' = IF PushesGelb(who) THEN onEdge \cup {h} ELSE onEdge \ {h}
    /\ UNCHANGED <<db, sweep, agent, left>>

\* The caller sees a success; a confirmed revert is crossed off.
Confirmed(who, h) ==
    /\ push[who, h] = "applied"
    /\ push' = [push EXCEPT ![who, h] = "none"]
    /\ revert' = IF PushesGelb(who) THEN revert ELSE revert \ {h}
    /\ UNCHANGED <<status, claim, expired, optOut, line, joined, rows, known>>
    /\ UNCHANGED <<onEdge, sweep, agent, left>>

\* The request or its answer is lost, or the call times out.
Fails(who, h) ==
    /\ push[who, h] # "none"
    /\ push' = [push EXCEPT ![who, h] = "none"]
    /\ UNCHANGED <<db, onEdge, sweep, agent, left>>

Quiet == \A h \in Host : push["sweep", h] = "none"

\* The edge restarts; its gelb_hosts are in memory only.
EdgeRestart ==
    /\ onEdge # {}
    /\ onEdge' = {}
    /\ UNCHANGED <<db, push, sweep, agent, left>>

-----------------------------------------------------------------------------
(* The portal                                                               *)

\* Only the steps before the lapse care who joined since the tick began.
Joins(h) == IF stage \in {"promote", "reaffirm", "revert"} THEN joined \cup {h} ELSE joined

\* Enters the queue for the first time (enter_gelb_queue on a rot row).
EnterQueue(h) ==
    /\ status' = [status EXCEPT ![h] = "gelb"]
    /\ line' = Append(line, h)
    /\ joined' = Joins(h)

\* authorize_hostname, once the edge took the call: the call itself carries no
\* tier, edge_mesh records the owner, and a rot host is promoted and pushed.  This
\* push is not followed up; it is taken to land at once or to be lost.
Authorize(h) ==
    /\ known' = known \cup {h}
    /\ \/ /\ status[h] = "rot"
          /\ EnterQueue(h)
          /\ onEdge' \in {onEdge \cup {h}, onEdge \ {h}}
       \/ /\ status[h] # "rot"
          /\ onEdge' = onEdge \ {h}
          /\ UNCHANGED <<status, line, joined>>
    /\ UNCHANGED <<claim, expired, optOut, revert, rows, push, sweep, agent, left>>

\* The edge and edge_mesh know the host, but the promotion never happened: the
\* control plane failed in between.  The sweep is the safety net.
AuthorizeOnly(h) ==
    /\ status[h] = "rot" /\ h \notin known
    /\ known' = known \cup {h}
    /\ onEdge' = onEdge \ {h}
    /\ UNCHANGED <<status, claim, expired, optOut, line, joined, revert, rows>>
    /\ UNCHANGED <<push, sweep, agent, left>>

\* set_cert_claim_opt_out: only the flag changes.
ToggleOptOut(h) ==
    /\ left > 0 /\ left' = left - 1
    /\ optOut' = IF h \in optOut THEN optOut \ {h} ELSE optOut \cup {h}
    /\ UNCHANGED <<status, claim, expired, line, joined, revert, rows, known>>
    /\ UNCHANGED <<onEdge, push, sweep, agent>>

\* reclaim_cert_slot: the owner puts an old lapsed row back in line.
Reclaim(h) ==
    /\ claim[h] = "lapsed"
    /\ claim' = [claim EXCEPT ![h] = "none"]
    /\ line' = Append(line, h)
    /\ joined' = Joins(h)
    /\ UNCHANGED <<status, expired, optOut, revert, rows, known>>
    /\ UNCHANGED <<onEdge, push, sweep, agent, left>>

-----------------------------------------------------------------------------
(* One tick of the admission loop                                           *)

\* The tick fixes its `now` and lists the rot hosts.
SweepStart ==
    /\ stage = "idle"
    /\ stage' = "promote"
    /\ todo' = {h \in Host : status[h] = "rot"}
    /\ due' = expired
    /\ UNCHANGED <<db, onEdge, push, fifo, used, agent, left>>

\* Step 1, one host: promoted if the edge knows it and it is still rot.
SweepPromote(h) ==
    /\ stage = "promote" /\ h \in todo /\ Quiet
    /\ todo' = todo \ {h}
    /\ \/ /\ h \in known /\ status[h] = "rot"
          /\ EnterQueue(h)
          /\ push' = [push EXCEPT !["sweep", h] = "sent"]
       \/ /\ h \notin known \/ status[h] # "rot"
          /\ UNCHANGED <<status, line, joined, push>>
    /\ UNCHANGED <<claim, expired, optOut, revert, rows, known, onEdge>>
    /\ UNCHANGED <<stage, due, fifo, used, agent, left>>

\* Mutant: only hosts that still wait for an offer are pushed again.
MutSweepReaffirm ==
    /\ stage = "promote" /\ todo = {} /\ Quiet
    /\ stage' = "reaffirm"
    /\ push' = [p \in Caller \X Host |->
                   IF p[1] = "sweep" /\ p[2] \in Gelb /\ claim[p[2]] = "none"
                   THEN "sent" ELSE push[p]]
    /\ UNCHANGED <<db, onEdge, todo, due, fifo, used, agent, left>>

\* Step 2 pushes the list of gelb hosts as it was read; the calls run side by
\* side, and a long list's later batches go out long after the read.
SweepReaffirm ==
    /\ stage = "promote" /\ todo = {} /\ Quiet
    /\ stage' = "reaffirm"
    /\ push' = [p \in Caller \X Host |->
                   IF p[1] = "sweep" /\ p[2] \in Gelb THEN "sent" ELSE push[p]]
    /\ UNCHANGED <<db, onEdge, todo, due, fifo, used, agent, left>>

\* Step 2b lists the reverts that are not confirmed ...
SweepReverts ==
    /\ stage = "reaffirm" /\ Quiet
    /\ stage' = "revert"
    /\ todo' = {h \in revert : status[h] = "gruen"}
    /\ UNCHANGED <<db, onEdge, push, due, fifo, used, agent, left>>

\* ... and pushes them one after the other.
SweepRevert(h) ==
    /\ stage = "revert" /\ h \in todo /\ Quiet
    /\ todo' = todo \ {h}
    /\ push' = [push EXCEPT !["sweep", h] = "sent"]
    /\ UNCHANGED <<db, onEdge, stage, due, fifo, used, agent, left>>

\* Mutant: a lapsed row keeps its place at the head of the queue.
MutRequeued(lapsed) ==
    {new \o line : new \in SetToSeqs(lapsed \ optOut)}

\* Where a lapse puts rows in the queue: they get the tick's `now`, so they go
\* behind every row stamped before this tick; stamps of one tick are not told
\* apart.  A row of an owner who opted out gets NULL.
Requeued(lapsed) ==
    LET older == SelectSeq(line, LAMBDA h : h \notin joined)
    IN  {older \o new : new \in SetToSeqs((ToSet(line) \cap joined) \cup (lapsed \ optOut))}

\* ORDER BY queued_at ASC: NULL sorts before every stamp.
FifoOf(cl, ln) ==
    LET waiting == {h \in Host : status[h] = "gelb" /\ cl[h] = "none"} \ optOut
    IN  {new \o SelectSeq(ln, LAMBDA h : h \in waiting) :
            new \in SetToSeqs(waiting \ ToSet(ln))}

\* Step 3 lapses the expired offers, step 3b requeues rows that lapsed under an
\* older version, and step 4 reads the queue.
SweepLapse ==
    /\ stage = "revert" /\ todo = {} /\ Quiet
    /\ LET ended == due \cap Reserved
           old == {h \in Host : claim[h] = "lapsed"} \ optOut
       IN  /\ claim' = [h \in Host |-> IF h \in ended \cup old THEN "none" ELSE claim[h]]
           /\ expired' = expired \ ended
           /\ line' \in Requeued(ended \cup old)
           /\ joined' = {}
    /\ fifo' \in FifoOf(claim', line')
    /\ stage' = IF fifo' = <<>> THEN "idle" ELSE "admit"
    /\ due' = {}
    /\ UNCHANGED <<status, optOut, revert, rows, known>>
    /\ UNCHANGED <<onEdge, push, todo, used, agent, left>>

\* pick_ca for the next host, first query: the ledger rows in the window.
PickUsed ==
    /\ stage = "admit"
    /\ stage' = "picking"
    /\ used' = Used
    /\ UNCHANGED <<db, onEdge, push, todo, due, fifo, agent, left>>

\* Second query, a statement of its own: the offers.  With headroom left the
\* head of the queue is offered its claim (only the sweep assigns an authority, so
\* assigned_ca is still NULL), without it the tick ends.
PickReserved ==
    /\ stage = "picking"
    /\ LET h == Head(fifo) IN
       \/ /\ used + Cardinality(Reserved) < Budget
          /\ claim' = [claim EXCEPT ![h] = "offered"]
          /\ line' = SelectSeq(line, LAMBDA x : x # h)
          /\ fifo' = Tail(fifo)
          /\ stage' = IF fifo' = <<>> THEN "idle" ELSE "admit"
       \/ /\ used + Cardinality(Reserved) >= Budget
          /\ stage' = "idle" /\ fifo' = <<>>
          /\ UNCHANGED <<claim, line>>
    /\ used' = 0
    /\ UNCHANGED <<status, expired, optOut, joined, revert, rows, known>>
    /\ UNCHANGED <<onEdge, push, todo, due, agent, left>>

-----------------------------------------------------------------------------
(* The agent's completion call                                              *)

\* The condition of issuance_complete and of the transaction behind it.
Eligible(h) == status[h] = "gruen" \/ (status[h] = "gelb" /\ claim[h] = "offered")

\* The agent asked while its offer was open (may_issue_now), or renews, has the
\* certificate and reports it; issuance_complete finds the row eligible.  A call
\* that does not find it so is refused and changes nothing.
CompleteCheck(h) ==
    /\ agent[h] = "idle" /\ push["agent", h] = "none"
    /\ Eligible(h)
    /\ \/ status[h] = "gelb" /\ UNCHANGED left
       \/ status[h] = "gruen" /\ left > 0 /\ left' = left - 1
    /\ agent' = [agent EXCEPT ![h] = "checked"]
    /\ UNCHANGED <<db, onEdge, push, sweep>>

\* The ledger row of a completion: none if the host's last row is younger than
\* MIN_ISSUANCE_LOG_INTERVAL_SECS, which only a row inside the window can be.
NewRows(h) == IF rows[h] = 0 THEN {1} ELSE {0, 1}

\* Mutant: completion does not remember that the revert has to land.
MutCompleteRecord(h) ==
    /\ agent[h] = "checked"
    /\ agent' = [agent EXCEPT ![h] = "idle"]
    /\ push' = [push EXCEPT !["agent", h] = "sent"]
    /\ \/ /\ Eligible(h)
          /\ status' = [status EXCEPT ![h] = "gruen"]
          /\ claim' = [claim EXCEPT ![h] = "none"]
          /\ expired' = expired \ {h}
          /\ \E n \in NewRows(h) : rows' = [rows EXCEPT ![h] = @ + n]
          /\ UNCHANGED revert
       \/ /\ ~Eligible(h)
          /\ UNCHANGED <<status, claim, expired, revert, rows>>
    /\ UNCHANGED <<optOut, line, joined, known, onEdge, sweep, left>>

\* record_issuance_complete, one transaction that checks the row again.  The
\* handler does not look at its answer: the revert is pushed either way.
CompleteRecord(h) ==
    /\ agent[h] = "checked"
    /\ agent' = [agent EXCEPT ![h] = "idle"]
    /\ push' = [push EXCEPT !["agent", h] = "sent"]
    /\ \/ /\ Eligible(h)
          /\ status' = [status EXCEPT ![h] = "gruen"]
          /\ claim' = [claim EXCEPT ![h] = "none"]
          /\ expired' = expired \ {h}
          /\ revert' = revert \cup {h}
          /\ \E n \in NewRows(h) : rows' = [rows EXCEPT ![h] = @ + n]
       \/ /\ ~Eligible(h)
          /\ UNCHANGED <<status, claim, expired, revert, rows>>
    /\ UNCHANGED <<optOut, line, joined, known, onEdge, sweep, left>>

-----------------------------------------------------------------------------
(* Time and restarts                                                        *)

\* The 48 hours of an offer run out.
Expire(h) ==
    /\ claim[h] = "offered" /\ h \notin expired
    /\ expired' = expired \cup {h}
    /\ UNCHANGED <<status, claim, optOut, line, joined, revert, rows, known>>
    /\ UNCHANGED <<onEdge, push, sweep, agent, left>>

\* A ledger row of the host leaves the budget window.
Age(h) ==
    /\ rows[h] > 0
    /\ rows' = [rows EXCEPT ![h] = @ - 1]
    /\ UNCHANGED <<status, claim, expired, optOut, line, joined, revert, known>>
    /\ UNCHANGED <<onEdge, push, sweep, agent, left>>

\* The control plane restarts: the rows stay, the tick, the calls under way and
\* the pushes are gone.  An agent without an answer may call again.
CpRestart ==
    /\ left > 0 /\ left' = left - 1
    /\ push' = [p \in Caller \X Host |-> "none"]
    /\ stage' = "idle" /\ todo' = {} /\ due' = {} /\ fifo' = <<>> /\ used' = 0
    /\ joined' = {}
    /\ agent' = [h \in Host |-> "idle"]
    /\ UNCHANGED <<status, claim, expired, optOut, line, revert, rows, known, onEdge>>

-----------------------------------------------------------------------------
SweepStep ==
    \/ SweepStart \/ SweepReaffirm \/ SweepReverts \/ SweepLapse
    \/ PickUsed \/ PickReserved
    \/ \E h \in Host : SweepPromote(h) \/ SweepRevert(h)

HostStep(h) ==
    \/ Authorize(h) \/ AuthorizeOnly(h) \/ ToggleOptOut(h) \/ Reclaim(h)
    \/ CompleteCheck(h) \/ CompleteRecord(h)
    \/ Expire(h) \/ Age(h)

Next ==
    \/ SweepStep
    \/ \E h \in Host :
        \/ HostStep(h)
        \/ \E who \in Caller : Deliver(who, h) \/ Confirmed(who, h) \/ Fails(who, h)
    \/ EdgeRestart \/ CpRestart

Spec == Init /\ [][Next]_vars

\* The loop never stops and every call comes back: edge_admin_http_client has a
\* timeout.  The edge is reachable often enough that not every push of the sweep
\* for a host is lost.  Offers expire and ledger rows age because time passes.
\* Nothing is assumed of portals and agents.
Fairness ==
    /\ WF_vars(SweepStep)
    /\ \A h \in Host :
        /\ SF_vars(Deliver("sweep", h)) /\ SF_vars(Confirmed("sweep", h))
        /\ WF_vars(Expire(h))
    /\ WF_vars(\E h \in Host : Age(h))

FairSpec == Spec /\ Fairness

-----------------------------------------------------------------------------
\* Every host that waits for a certificate and has not opted out gets an offer,
\* however often other offers lapse: a lapse goes to the back of the queue and
\* frees its share of the budget (lapse_expired_claims, gelb_queue_fifo).
QueueServed ==
    \A h \in Host :
        []<>(status[h] = "gelb" /\ claim[h] # "offered" => h \in optOut)

\* A gelb host is gelb on the edge again and again: what an edge restart or a
\* portal's authorize call drops, the next tick's pushes restore.
GelbReaffirmed == \A h \in Host : []<>(status[h] = "gelb" => h \in onEdge)

\* Once a host has its own certificate the edge is told, even if the completion
\* call's push is lost or the control plane restarts before it is answered:
\* pending_revert is set with the status and cleared only by a push that landed.
GruenReachesEdge ==
    \A h \in Host : status[h] = "gruen" /\ push["agent", h] = "sent" ~> h \notin onEdge

\* ca_budget_usage says it counts offers with issuances "so the admission sweep
\* never over-commits a CA's real limit": an offer keeps the sum in the budget.
NeverOvercommits ==
    [][\A h \in Host :
          claim[h] # "offered" /\ claim'[h] = "offered"
              => Used' + Cardinality(Reserved') <= Budget]_vars

\* pending_revert_hostnames (#264): no host with a confirmed revert stays gelb on
\* the edge.
RevertIsFinal ==
    \A h \in Host : []<>(status[h] = "gruen" /\ h \notin revert => h \notin onEdge)

\* reclaim_cert_slot and lapse_expired_claims: a lapse goes to the "back of the
\* FIFO queue"; no host waits on while one that lapsed after it joined is offered.
LapsedGoesBack ==
    [][\A h, x \in Host :
          /\ h # x /\ claim[h] # "offered" /\ claim'[h] = "offered"
          /\ x \in ToSet(line) \ optOut /\ x \in ToSet(fifo)
          => h \in ToSet(line)]_vars

=============================================================================
