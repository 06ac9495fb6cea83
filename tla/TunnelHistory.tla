--------------------------- MODULE TunnelHistory ----------------------------
(***************************************************************************)
(* One tunnel's durable session history and its signed receipts:           *)
(* crates/edge/src/tunnel_history.rs and the callers in state.rs           *)
(* (note_connected, note_relay, flush_token_bytes, close_tunnel_session,   *)
(* flush_tunnel_history).                                                  *)
(*                                                                         *)
(* Two tasks write the byte counters into the open session row: the flush  *)
(* loop, without registration_lock, and the teardown that closes the row,  *)
(* holding it.  Every SQLite statement is a step, a receipt and the chain  *)
(* head share one transaction, and the process may crash between any two   *)
(* steps: memory is lost, rows and receipts stay.                          *)
(***************************************************************************)
EXTENDS Integers, Sequences, FiniteSetsExt

CONSTANTS MaxRelay,   \* bound: bytes relayed
          MaxRows,    \* bound: session rows
          MaxCrash    \* bound: crashes

ASSUME HistoryAssumption == {MaxRelay, MaxRows, MaxCrash} \subseteq Nat

Writer == {"loop", "close"}

VARIABLES
    up,         \* the Edge process runs (boot repair done)
    live,       \* some transport serves the tunnel
    connected,  \* connected_since has the tunnel
    seen,       \* last_seen's age: "fresh" or "idle"
    bytes,      \* tunnel_bytes (0: no entry)
    flushed,    \* flushed_bytes (0: no entry)
    rows,       \* tunnel_sessions, oldest first
    receipts,   \* tunnel_receipts
    dbHead,     \* tunnel_receipts_head.last_seq
    memHead,    \* ReceiptEmitter.head
    lock,       \* registration_lock's holder, and how far it is
    pc, cur, delta,   \* each writer's place and locals in flush_token_bytes
    relayed,    \* history: bytes relayed
    missed,     \* history: receipts that were due and not written
    crashes

memVars   == <<up, live, connected, seen, bytes, flushed>>
store     == <<rows, receipts, dbHead>>
flushVars == <<pc, cur, delta>>
hist      == <<relayed, missed, crashes>>
vars      == <<memVars, store, memHead, lock, flushVars, hist>>

OpenRows == {i \in 1..Len(rows) : rows[i].open}
TheOpen  == CHOOSE i \in OpenRows : TRUE
CloseOpenRow == [i \in 1..Len(rows) |-> [rows[i] EXCEPT !.open = FALSE]]

(* saturating_sub: what of c the rows do not hold yet.                     *)
Unflushed(c) == IF c > flushed THEN c - flushed ELSE 0

(* add_session_bytes' WHERE clause.                                        *)
TakesBytes(r) == r.open

(* Mutant: only tunnels that have counted bytes are looked at.             *)
MutEvictable == ~live /\ seen = "idle" /\ bytes > 0

(* Idle for idle_evict_secs, and no transport serves the tunnel.           *)
Evictable == ~live /\ seen = "idle"

Init ==
    /\ up = TRUE /\ live = FALSE /\ connected = FALSE /\ seen = "fresh"
    /\ bytes = 0 /\ flushed = 0
    /\ rows = <<>> /\ receipts = <<>> /\ dbHead = 0
    /\ memHead = 0
    /\ lock = "free"
    /\ pc = [w \in Writer |-> "idle"]
    /\ cur = [w \in Writer |-> 0] /\ delta = [w \in Writer |-> 0]
    /\ relayed = 0 /\ missed = 0 /\ crashes = 0

-----------------------------------------------------------------------------
(* Mutant: attests the in-memory counter instead of the row's.             *)
MutEmitOk(kind, row) ==
    /\ receipts' = Append(receipts, [seq |-> memHead + 1, kind |-> kind, row |-> row,
                                     bytes |-> bytes, missedBefore |-> missed])
    /\ dbHead' = memHead + 1
    /\ memHead' = memHead + 1
    /\ UNCHANGED missed

(* emit: the receipt row and the head commit together, and only then does  *)
(* the in-memory head move.  A store error leaves all three alone.         *)
EmitOk(kind, row) ==
    LET seq == memHead + 1 IN
    /\ receipts' = Append(receipts, [seq |-> seq, kind |-> kind, row |-> row,
                                     bytes |-> rows[row].bytes,
                                     missedBefore |-> missed])
    /\ dbHead' = seq
    /\ memHead' = seq
    /\ UNCHANGED missed

(* Mutant: the in-memory head moves before the commit.                     *)
MutEmitFails ==
    /\ missed' = missed + 1
    /\ memHead' = memHead + 1
    /\ UNCHANGED <<receipts, dbHead>>

EmitFails ==
    /\ missed' = missed + 1
    /\ UNCHANGED <<receipts, dbHead, memHead>>

Emit(kind, row) == EmitOk(kind, row) \/ EmitFails

(* register_locked / park_tcp_agent through note_connected: a streak       *)
(* already running keeps its row, otherwise a row is inserted ...          *)
NoteConnected ==
    /\ up /\ lock = "free"
    /\ live' = TRUE /\ connected' = TRUE /\ seen' = "fresh"
    /\ IF OpenRows # {}
       THEN UNCHANGED <<rows, lock>>
       ELSE /\ Len(rows) < MaxRows
            /\ rows' = Append(rows, [open |-> TRUE, bytes |-> 0])
            /\ lock' = "emitOpen"
    /\ UNCHANGED <<up, bytes, flushed, receipts, dbHead, memHead, flushVars, hist>>

(* ... and attested.                                                       *)
AttestOpen ==
    /\ lock = "emitOpen"
    /\ Emit("open", TheOpen)
    /\ lock' = "free"
    /\ UNCHANGED <<memVars, rows, flushVars, relayed, crashes>>

(* note_relay, when a relay ends; it may end after the tunnel is gone.     *)
NoteRelay ==
    /\ up
    /\ relayed < MaxRelay
    /\ bytes' = bytes + 1
    /\ relayed' = relayed + 1
    /\ seen' = "fresh"
    /\ UNCHANGED <<up, live, connected, flushed, store, memHead, lock,
                   flushVars, missed, crashes>>

(* remove_registration or revoke_token ends the streak and enters          *)
(* close_tunnel_session under the lock.                                    *)
Teardown ==
    /\ up /\ lock = "free" /\ live
    /\ live' = FALSE /\ connected' = FALSE
    /\ lock' = "close"
    /\ pc' = [pc EXCEPT !["close"] = "read"]
    /\ UNCHANGED <<up, seen, bytes, flushed, store, memHead, cur, delta, hist>>

(* The last park of a fallback-only tunnel is delivered or reaped: no      *)
(* teardown path runs.                                                     *)
ParksVanish ==
    /\ up /\ lock = "free" /\ live
    /\ live' = FALSE
    /\ UNCHANGED <<up, connected, seen, bytes, flushed, store, memHead, lock,
                   flushVars, hist>>

-----------------------------------------------------------------------------
(* flush_token_bytes, step by step: read tunnel_bytes ...                  *)
AfterFlush(w) == IF w = "loop" THEN "evict" ELSE "closeRow"

FlushRead(w) ==
    /\ pc[w] = "read"
    /\ cur' = [cur EXCEPT ![w] = bytes]
    /\ pc' = [pc EXCEPT ![w] = IF bytes = 0 THEN AfterFlush(w) ELSE "delta"]
    /\ UNCHANGED <<memVars, store, memHead, lock, delta, hist>>

(* ... read flushed_bytes, saturating_sub ...                              *)
FlushDelta(w) ==
    /\ pc[w] = "delta"
    /\ LET d == Unflushed(cur[w]) IN
       /\ delta' = [delta EXCEPT ![w] = d]
       /\ pc' = [pc EXCEPT ![w] = IF d = 0 THEN AfterFlush(w) ELSE "add"]
    /\ UNCHANGED <<memVars, store, memHead, lock, cur, hist>>

(* ... add_session_bytes (no open row: the delta belongs to no streak) ... *)
FlushAdd(w) ==
    /\ pc[w] = "add"
    /\ rows' = [i \in 1..Len(rows) |->
                  IF TakesBytes(rows[i]) THEN [rows[i] EXCEPT !.bytes = @ + delta[w]]
                                  ELSE rows[i]]
    /\ pc' = [pc EXCEPT ![w] = "mark"]
    /\ UNCHANGED <<memVars, receipts, dbHead, memHead, lock, cur, delta, hist>>

(* ... and record the high-water mark.                                     *)
FlushMark(w) ==
    /\ pc[w] = "mark"
    /\ flushed' = cur[w]
    /\ pc' = [pc EXCEPT ![w] = AfterFlush(w)]
    /\ UNCHANGED <<up, live, connected, seen, bytes, store, memHead, lock,
                   cur, delta, hist>>

(* close_session: the UPDATE ...                                           *)
CloseRow ==
    /\ pc["close"] = "closeRow"
    /\ pc' = [pc EXCEPT !["close"] = "idle"]
    /\ rows' = CloseOpenRow
    /\ lock' = IF OpenRows # {} THEN "emitClose" ELSE "free"
    /\ UNCHANGED <<memVars, receipts, dbHead, memHead, cur, delta, hist>>

(* ... and emit_close.  After an idle eviction the in-memory entries go.   *)
AttestClose ==
    /\ lock \in {"emitClose", "emitEvict", "emitBoot"}
    /\ Emit("close", Len(rows))
    /\ lock' = "free"
    /\ IF lock = "emitEvict"
       THEN bytes' = 0 /\ flushed' = 0 /\ connected' = FALSE
       ELSE UNCHANGED <<bytes, flushed, connected>>
    /\ up' = TRUE
    /\ UNCHANGED <<live, seen, rows, flushVars, relayed, crashes>>

-----------------------------------------------------------------------------
(* run_tunnel_history_flush_loop: every FLUSH_INTERVAL_SECS a flush, then, *)
(* under the lock, the eviction of an idle tunnel with no live transport.  *)
LoopTick ==
    /\ up /\ pc["loop"] = "idle"
    /\ pc' = [pc EXCEPT !["loop"] = "read"]
    /\ UNCHANGED <<memVars, store, memHead, lock, cur, delta, hist>>

LoopEvict ==
    /\ pc["loop"] = "evict" /\ lock = "free"
    /\ pc' = [pc EXCEPT !["loop"] = "idle"]
    /\ IF ~Evictable
       THEN UNCHANGED <<bytes, flushed, connected, rows, lock>>
       ELSE IF OpenRows # {}
       THEN /\ rows' = CloseOpenRow
            /\ lock' = "emitEvict"
            /\ UNCHANGED <<bytes, flushed, connected>>
       ELSE /\ bytes' = 0 /\ flushed' = 0 /\ connected' = FALSE
            /\ UNCHANGED <<rows, lock>>
    /\ UNCHANGED <<up, live, seen, receipts, dbHead, memHead, cur, delta, hist>>

(* idle_evict_secs pass without activity.                                  *)
GrowsIdle ==
    /\ up /\ seen = "fresh"
    /\ seen' = "idle"
    /\ UNCHANGED <<up, live, connected, bytes, flushed, store, memHead, lock,
                   flushVars, hist>>

(* The process dies.  A receipt still due is never written.                *)
Crash ==
    /\ crashes < MaxCrash
    /\ crashes' = crashes + 1
    /\ up' = FALSE /\ live' = FALSE /\ connected' = FALSE /\ seen' = "idle"
    /\ bytes' = 0 /\ flushed' = 0
    /\ memHead' = 0
    /\ lock' = "free"
    /\ pc' = [w \in Writer |-> "idle"]
    /\ cur' = [w \in Writer |-> 0] /\ delta' = [w \in Writer |-> 0]
    /\ missed' = missed + (IF lock \in {"free", "close"} THEN 0 ELSE 1)
    /\ UNCHANGED <<store, relayed>>

(* Mutant: rows left open by the last process stay open.                   *)
MutBoot ==
    /\ ~up /\ lock = "free"
    /\ memHead' = dbHead
    /\ up' = TRUE
    /\ UNCHANGED <<live, connected, seen, bytes, flushed, store, lock,
                   flushVars, hist>>

(* Boot: install_receipts resumes the chain from the persisted head, then  *)
(* close_stale_open_sessions closes what the last process left open.       *)
Boot ==
    /\ ~up /\ lock = "free"
    /\ memHead' = dbHead
    /\ rows' = CloseOpenRow
    /\ IF OpenRows # {} THEN lock' = "emitBoot" /\ UNCHANGED up
                        ELSE up' = TRUE /\ UNCHANGED lock
    /\ UNCHANGED <<live, connected, seen, bytes, flushed, receipts, dbHead,
                   flushVars, hist>>

Flush(w) == FlushRead(w) \/ FlushDelta(w) \/ FlushAdd(w) \/ FlushMark(w)

Next ==
    \/ NoteConnected \/ AttestOpen \/ NoteRelay \/ Teardown \/ ParksVanish
    \/ \E w \in Writer : Flush(w)
    \/ CloseRow \/ AttestClose
    \/ LoopTick \/ LoopEvict \/ GrowsIdle
    \/ Crash \/ Boot

Spec == Init /\ [][Next]_vars

(* The flush loop's interval fires for ever, no step under the lock waits  *)
(* for anything but SQLite, and time passes.                               *)
FairSpec ==
    /\ Spec
    /\ WF_vars(LoopTick) /\ SF_vars(LoopEvict) /\ WF_vars(GrowsIdle)
    /\ WF_vars(AttestOpen) /\ WF_vars(AttestClose) /\ WF_vars(CloseRow)
    /\ WF_vars(Boot)
    /\ \A w \in Writer : WF_vars(Flush(w))

-----------------------------------------------------------------------------
Row == [open : BOOLEAN, bytes : Nat]
Receipt(n) == [seq : Nat, kind : {"open", "close"}, row : 1..n, bytes : Nat, missedBefore : Nat]

(* Type correctness.                                                       *)
TypeOK ==
    /\ {up, live, connected} \subseteq BOOLEAN
    /\ seen \in {"fresh", "idle"}
    /\ {bytes, flushed, relayed} \subseteq 0..MaxRelay
    /\ rows \in Seq(Row) /\ receipts \in Seq(Receipt(Len(rows)))
    /\ {dbHead, memHead, missed} \subseteq Nat /\ crashes \in 0..MaxCrash
    /\ lock \in {"free", "close", "emitOpen", "emitClose", "emitEvict", "emitBoot"}
    /\ pc \in [Writer -> {"idle", "read", "delta", "add", "mark", "evict", "closeRow"}]
    /\ cur \in [Writer -> 0..MaxRelay] /\ delta \in [Writer -> 0..MaxRelay]

(* #776: the open row's lifetime is exactly the in-memory streak's, across *)
(* teardowns, idle evictions, crashes and the boot repair; at most one row *)
(* is open, and it is the newest.                                          *)
RowIsStreak ==
    /\ OpenRows \subseteq {Len(rows)}
    /\ up /\ lock = "free" => (connected <=> OpenRows # {})

(* #782: the receipt chain never forks or skips, whatever the crash or     *)
(* store error: receipts are numbered 1..n and both heads name the last.   *)
ChainLinked ==
    /\ \A i \in 1..Len(receipts) : receipts[i].seq = i
    /\ dbHead = Len(receipts)
    /\ up => memHead = dbHead

(* #782: a close receipt attests exactly what its row says, and a row is   *)
(* attested closed at most once.                                           *)
ReceiptAgreesWithRow ==
    LET closes == {i \in 1..Len(receipts) : receipts[i].kind = "close"} IN
    /\ \A i \in closes : LET r == rows[receipts[i].row] IN ~r.open /\ r.bytes = receipts[i].bytes
    /\ \A i, j \in closes : i # j => receipts[i].row # receipts[j].row

(* A closed row is history: no late flush, boot repair or new session      *)
(* changes it.                                                             *)
ClosedRowFrozen ==
    [][\A i \in 1..Len(rows) : ~rows[i].open => rows'[i] = rows[i]]_vars

(* #776: a streak whose transports vanished without a teardown cannot      *)
(* count as uptime for ever.                                               *)
VanishedStreakEnds == connected /\ ~live ~> ~connected \/ live

-----------------------------------------------------------------------------
(* "the flush loop and the close paths write only tunnel_bytes -           *)
(* flushed_bytes (the delta since the last flush)": the rows together      *)
(* never hold more than was relayed.                                       *)
NoByteCountedTwice ==
    MapThenSumSet(LAMBDA i : rows[i].bytes, 1..Len(rows)) <= relayed

(* "a missed receipt is visible later as a seq gap": wherever a receipt    *)
(* was due and not written, the next one's number skips.  (missedBefore is *)
(* a history field: how many were missed when this one was written.)       *)
MissedReceiptIsGap ==
    \A i \in 1..Len(receipts) - 1 :
       receipts[i + 1].missedBefore > receipts[i].missedBefore =>
          receipts[i + 1].seq > receipts[i].seq + 1

=============================================================================
