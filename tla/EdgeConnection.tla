--------------------------- MODULE EdgeConnection ---------------------------
(***************************************************************************)
(* The life of one inbound QUIC connection on the Edge: run_edge's accept  *)
(* loop, serve_agent_connection and serve_connection in                    *)
(* crates/edge/src/serve.rs.                                               *)
(*                                                                         *)
(* A connection's task serves the first control stream; if that registered *)
(* an Agent it keeps serving streams, then waits for the connection to     *)
(* close and evicts the registration it remembers.  The connection may     *)
(* close under the task at any point.  One routing token: the registry's   *)
(* own rules are EdgeRegistry's and AgentKeys' subject, here agents is the *)
(* set of live entries, each with the connection it routes to.             *)
(***************************************************************************)
EXTENDS Integers, FiniteSets

CONSTANTS
    Conn,      \* QUIC connections
    Cap,       \* ConnectionCap's limit (conn_cap)
    MaxReg     \* bound: registrations ever made

ASSUME ConnectionAssumption == Cap \in Nat \ {0} /\ MaxReg \in Nat

VARIABLES
    open,      \* connections that are not closed
    phase,     \* where each connection's task is
    result,    \* what serve_agent_connection will return
    refused,   \* connections answered NO (revoked token or Enforce)
    agents,    \* live registrations, [id, conn]
    nextReg,   \* registration ids handed out
    tokenRevoked, \* the routing token is revoked
    held       \* admission permits held, per connection's task

connVars == <<open, phase, result, refused, agents, nextReg, tokenRevoked, held>>

Phase == {"new", "shed", "first", "ack", "loop", "reack", "waitClosed",
          "grace", "done"}

(* serve_agent_connection's result: an error, no registration, or an id.   *)
Failed == -1
NoReg  == 0

ConnInit ==
    /\ open = {}
    /\ phase = [c \in Conn |-> "new"]
    /\ result = [c \in Conn |-> NoReg]
    /\ refused = {}
    /\ agents = {}
    /\ nextReg = 0
    /\ tokenRevoked = FALSE
    /\ held = {}

-----------------------------------------------------------------------------
(* Mutant: off by one.                                                     *)
MutCapHasRoom == Cardinality(held) <= Cap

(* ConnectionCap::try_acquire.                                             *)
CapHasRoom == Cardinality(held) < Cap

NextId == nextReg + 1

(* run_edge: a full cap sheds the connection before it gets a task.        *)
Accept(c) ==
    /\ phase[c] = "new"
    /\ IF CapHasRoom
       THEN /\ held' = held \cup {c}
            /\ open' = open \cup {c}
            /\ phase' = [phase EXCEPT ![c] = "first"]
       ELSE /\ phase' = [phase EXCEPT ![c] = "shed"]
            /\ UNCHANGED <<held, open>>
    /\ UNCHANGED <<result, refused, agents, nextReg, tokenRevoked>>

(* serve_connection, roles 'A' and 'V': the registration is in the agents  *)
(* map before OK is written.  A repinning 'V' takes every older entry away *)
(* and closes their connections.                                           *)
RegisterOn(c, repins) ==
    /\ ~tokenRevoked
    /\ nextReg < MaxReg
    /\ nextReg' = nextReg + 1
    /\ agents' = (IF repins THEN {} ELSE agents) \cup {[id |-> NextId, conn |-> c]}
    /\ open' = IF repins THEN open \ {e.conn : e \in agents} ELSE open
    /\ UNCHANGED <<refused, tokenRevoked, held>>

FirstRegister(c, repins) ==
    /\ phase[c] = "first"
    /\ c \in open
    /\ RegisterOn(c, repins)
    /\ result' = [result EXCEPT ![c] = NextId]
    /\ phase' = [phase EXCEPT ![c] = "ack"]

(* send.write_all(b"OK").await? : the registration id reaches the caller   *)
(* only if the write goes through; otherwise the error does.               *)
AckWritten(c) ==
    /\ phase[c] = "ack"
    /\ c \in open
    /\ phase' = [phase EXCEPT ![c] = "loop"]
    /\ UNCHANGED <<open, result, refused, agents, nextReg, tokenRevoked, held>>

AckFails(c) ==
    /\ phase[c] = "ack"
    /\ result' = [result EXCEPT ![c] = Failed]
    /\ phase' = [phase EXCEPT ![c] = "grace"]
    /\ UNCHANGED <<open, refused, agents, nextReg, tokenRevoked, held>>

(* A refused registration is answered NO and returns Ok(None).             *)
FirstRefused(c) ==
    /\ phase[c] = "first"
    /\ c \in open
    /\ tokenRevoked
    /\ refused' = refused \cup {c}
    /\ phase' = [phase EXCEPT ![c] = "waitClosed"]
    /\ UNCHANGED <<open, result, agents, nextReg, tokenRevoked, held>>

(* Any other role, served once: Ok(None).                                  *)
FirstServed(c) ==
    /\ phase[c] = "first"
    /\ c \in open
    /\ phase' = [phase EXCEPT ![c] = "waitClosed"]
    /\ UNCHANGED <<open, result, refused, agents, nextReg, tokenRevoked, held>>

(* No stream in time, a bad role byte, a failed read or write: Err.        *)
FirstFails(c) ==
    /\ phase[c] = "first"
    /\ result' = [result EXCEPT ![c] = Failed]
    /\ phase' = [phase EXCEPT ![c] = "grace"]
    /\ UNCHANGED <<open, refused, agents, nextReg, tokenRevoked, held>>

-----------------------------------------------------------------------------
(* serve_agent_connection's loop: one more control stream.  A second       *)
(* registration's id is returned to the loop, which drops it.              *)
LoopRegister(c, repins) ==
    /\ phase[c] = "loop"
    /\ c \in open
    /\ RegisterOn(c, repins)
    /\ phase' = [phase EXCEPT ![c] = "reack"]
    /\ UNCHANGED result

LoopAck(c) ==
    /\ phase[c] = "reack"
    /\ phase' = [phase EXCEPT ![c] = IF c \in open THEN "loop" ELSE "waitClosed"]
    /\ UNCHANGED <<open, result, refused, agents, nextReg, tokenRevoked, held>>

(* The loop ends on any error: the connection closed, a stream went bad,   *)
(* or no stream was opened for ROLE_DISPATCH_TIMEOUT.                      *)
LoopEnds(c) ==
    /\ phase[c] = "loop"
    /\ phase' = [phase EXCEPT ![c] = "waitClosed"]
    /\ UNCHANGED <<open, result, refused, agents, nextReg, tokenRevoked, held>>

(* Mutant: waits for the peer to close instead.                            *)
MutCloseFailed(c) ==
    /\ phase[c] = "grace"
    /\ phase' = [phase EXCEPT ![c] = "waitClosed"]
    /\ UNCHANGED <<open, result, refused, agents, nextReg, tokenRevoked, held>>

(* run_edge: a failed admission gets a short grace, then is closed.        *)
CloseFailed(c) ==
    /\ phase[c] = "grace"
    /\ open' = open \ {c}
    /\ phase' = [phase EXCEPT ![c] = "waitClosed"]
    /\ UNCHANGED <<result, refused, agents, nextReg, tokenRevoked, held>>

(* Mutants: the whole token is removed; the permit is not dropped.         *)
MutFinishRemovesAll(c) ==
    /\ phase[c] = "waitClosed"
    /\ c \notin open
    /\ agents' = {}
    /\ held' = held \ {c}
    /\ phase' = [phase EXCEPT ![c] = "done"]
    /\ UNCHANGED <<open, result, refused, nextReg, tokenRevoked>>
MutFinishKeepsPermit(c) ==
    /\ phase[c] = "waitClosed"
    /\ c \notin open
    /\ agents' = {e \in agents : e.id # result[c]}
    /\ phase' = [phase EXCEPT ![c] = "done"]
    /\ UNCHANGED <<open, result, refused, nextReg, tokenRevoked, held>>

(* conn.closed() resolves: remove_registration for the remembered id, and  *)
(* the task's end drops the permit.                                        *)
Finish(c) ==
    /\ phase[c] = "waitClosed"
    /\ c \notin open
    /\ agents' = {e \in agents : e.id # result[c]}
    /\ held' = held \ {c}
    /\ phase' = [phase EXCEPT ![c] = "done"]
    /\ UNCHANGED <<open, result, refused, nextReg, tokenRevoked>>

-----------------------------------------------------------------------------
(* The peer goes away, or the path dies and QUIC times the connection out. *)
PeerCloses(c) ==
    /\ c \in open
    /\ open' = open \ {c}
    /\ UNCHANGED <<phase, result, refused, agents, nextReg, tokenRevoked, held>>

(* revoke_token empties the agents map and closes no connection.           *)
Revoke ==
    /\ ~tokenRevoked
    /\ tokenRevoked' = TRUE
    /\ agents' = {}
    /\ UNCHANGED <<open, phase, result, refused, nextReg, held>>

TaskStep(c) ==
    \/ AckWritten(c) \/ AckFails(c)
    \/ FirstRefused(c) \/ FirstServed(c) \/ FirstFails(c)
    \/ LoopAck(c) \/ LoopEnds(c) \/ CloseFailed(c) \/ Finish(c)
    \/ \E repins \in BOOLEAN : FirstRegister(c, repins) \/ LoopRegister(c, repins)

ConnNext ==
    \/ \E c \in Conn : Accept(c) \/ TaskStep(c) \/ PeerCloses(c)
    \/ Revoke

ConnSpec == ConnInit /\ [][ConnNext]_connVars

(* Every wait of the task is bounded by a timeout, except conn.closed():   *)
(* a peer may keep its connection open for ever.                           *)
ConnFairSpec == ConnSpec /\ \A c \in Conn : WF_connVars(TaskStep(c))

-----------------------------------------------------------------------------
(* Type correctness.                                                       *)
ConnTypeOK ==
    /\ open \subseteq Conn
    /\ phase \in [Conn -> Phase]
    /\ result \in [Conn -> {Failed} \cup 0..MaxReg]
    /\ refused \subseteq Conn
    /\ agents \subseteq [id : 1..MaxReg, conn : Conn]
    /\ nextReg \in 0..MaxReg
    /\ tokenRevoked \in BOOLEAN
    /\ held \subseteq Conn

(* A permit is held exactly for a task's lifetime, and the cap bounds the  *)
(* open connections as well: no connection outlives its permit.            *)
PermitCoversConnection ==
    /\ held = {c \in Conn : phase[c] \notin {"new", "shed", "done"}}
    /\ open \subseteq held
    /\ Cardinality(held) <= Cap

(* #8: the end of one connection never takes down another Agent's          *)
(* registration; an open connection's entry goes only by revocation or     *)
(* with the repin that also closes it.                                     *)
OthersUndisturbed ==
    [][\A e \in agents : e \notin agents' => e.conn \notin open' \/ tokenRevoked']_connVars

(* Once a connection is closed, its task ends and its permit is free again.*)
ClosedFreesPermit == \A c \in Conn : c \notin open ~> c \notin held

(* A failed admission cannot sit on its permit: it is closed and freed.    *)
FailedAdmissionFreesPermit ==
    \A c \in Conn : result[c] = Failed ~> c \notin held

-----------------------------------------------------------------------------
(* "Evict exactly this dropped agent's registration so a later Client      *)
(* route() fails fast instead of hitting a dead handle (#2)": for a task   *)
(* whose registration was not acknowledged ...                             *)
UnackedLeavesNoRoute ==
    \A e \in agents : ~(phase[e.conn] = "done" /\ result[e.conn] = Failed)

(* ... and for one whose registration was.                                 *)
AckedLeavesNoRoute ==
    \A e \in agents : ~(phase[e.conn] = "done" /\ result[e.conn] > 0)

(* "every subsequent control stream the Agent opens on the same connection *)
(* until it closes (#40)": the loop ends only with the connection.         *)
LoopRunsUntilClosed ==
    \A c \in Conn : phase[c] = "waitClosed" /\ result[c] > 0 => c \notin open

(* "A failed admission (... revoked token ...) must not leave the          *)
(* connection parked here".                                                *)
RefusedFreesPermit == \A c \in Conn : c \in refused ~> c \notin held

=============================================================================
