-------------------------- MODULE EdgeTasksProofs ---------------------------
(***************************************************************************)
(* The Edge's long-lived tasks, of three kinds that share no state: those  *)
(* that keep the tunnel history (TunnelHistory), the relays that watch the *)
(* revocation signal (RevocationSignal) and the connections' own tasks     *)
(* (EdgeConnection).                                                       *)
(*                                                                         *)
(* For any number of flushes, streaks and restarts: the open row is the    *)
(* current streak, the receipt chain never forks, receipts agree with the  *)
(* rows they attest and closed rows are frozen.  For any number of tokens, *)
(* relays and revocations: no revocation is missed by a relay, no relay is *)
(* cut for another token's revocation, and no relay starts on a token      *)
(* whose revoke_token call has returned.  For any number of connections    *)
(* and any cap: a permit covers its connection, and a connection's end     *)
(* takes down its own registration only.                                   *)
(***************************************************************************)
EXTENDS RevocationSignal, EdgeConnection, TunnelHistory, FiniteSetTheorems, TLAPS

(* Row r has a close receipt.                                              *)
Attested(r) == \E i \in 1..Len(receipts) : receipts[i].kind = "close" /\ receipts[i].row = r

(* The counters and the locals of the flush: nothing is counted that was   *)
(* not relayed.                                                            *)
CountersOK ==
    /\ up \in BOOLEAN /\ live \in BOOLEAN /\ connected \in BOOLEAN /\ seen \in {"fresh", "idle"}
    /\ bytes \in 0..MaxRelay /\ flushed \in 0..MaxRelay /\ relayed \in 0..MaxRelay
    /\ bytes <= relayed
    /\ cur \in [Writer -> 0..MaxRelay] /\ delta \in [Writer -> 0..MaxRelay]
    /\ missed \in Nat /\ crashes \in 0..MaxCrash

(* registration_lock is held by the teardown exactly while its flush and   *)
(* its UPDATE run, which end a streak already off; and a process that is   *)
(* not up holds it for nothing but the boot repair.                        *)
LockFlow ==
    /\ lock \in {"free", "close", "emitOpen", "emitClose", "emitEvict", "emitBoot"}
    /\ pc \in [Writer -> {"idle", "read", "delta", "add", "mark", "evict", "closeRow"}]
    /\ lock = "close" <=> pc["close"] # "idle"
    /\ lock \in {"close", "emitClose"} => ~connected
    /\ lock = "emitOpen" => connected
    /\ lock = "emitBoot" => ~up
    /\ ~up => lock \in {"free", "emitBoot"} /\ ~connected /\ pc = [w \in Writer |-> "idle"]

(* The chain, also while the boot repair waits to extend it.               *)
ChainOK ==
    /\ ChainLinked /\ memHead \in Nat /\ dbHead \in Nat
    /\ lock = "emitBoot" => memHead = dbHead

(* The row the lock's holder is about to attest is there, is in the state  *)
(* the receipt will say, and has no close receipt yet.                     *)
RowsOK ==
    /\ rows \in Seq(Row) /\ receipts \in Seq(Receipt(Len(rows)))
    /\ RowIsStreak /\ ReceiptAgreesWithRow
    /\ lock = "emitOpen" => Len(rows) \in OpenRows
    /\ lock \in {"emitClose", "emitEvict", "emitBoot"} =>
          OpenRows = {} /\ Len(rows) > 0 /\ ~Attested(Len(rows))

(* The inductive invariant.  None of the three properties is inductive     *)
(* alone: what a receipt will say depends on how far the holder of the     *)
(* lock is, and on what the process that crashed had left.                 *)
HistInv == CountersOK /\ LockFlow /\ ChainOK /\ RowsOK

-----------------------------------------------------------------------------
(* A function on 1..n is a sequence of length n.                           *)
LEMMA FunctionIsSeq ==
  ASSUME NEW S, NEW n \in Nat, NEW f \in [1..n -> S]
  PROVE  f \in Seq(S) /\ Len(f) = n
  OBVIOUS

(* The UPDATE that closes the open row keeps every row's bytes.            *)
LEMMA ClosingRows ==
  ASSUME rows \in Seq(Row)
  PROVE  /\ CloseOpenRow \in Seq(Row) /\ Len(CloseOpenRow) = Len(rows)
         /\ \A i \in 1..Len(rows) :
               ~CloseOpenRow[i].open /\ CloseOpenRow[i].bytes = rows[i].bytes
         /\ \A i \in 1..Len(rows) : ~rows[i].open => CloseOpenRow[i] = rows[i]
  <1>1. Len(rows) \in Nat /\ \A i \in 1..Len(rows) : rows[i] \in Row
    OBVIOUS
  <1>2. CloseOpenRow \in [1..Len(rows) -> Row]
    BY Zenon, <1>1 DEF CloseOpenRow, Row
  <1>3. \A i \in 1..Len(rows) : CloseOpenRow[i] = [rows[i] EXCEPT !.open = FALSE]
    BY Zenon DEF CloseOpenRow
  <1>4. CloseOpenRow \in Seq(Row) /\ Len(CloseOpenRow) = Len(rows)
    BY Zenon, <1>1, <1>2, FunctionIsSeq
  <1>5. \A i \in 1..Len(rows) :
           ~CloseOpenRow[i].open /\ CloseOpenRow[i].bytes = rows[i].bytes
    BY Zenon, <1>1, <1>3 DEF Row
  <1>6. ASSUME NEW i \in 1..Len(rows), ~rows[i].open
        PROVE  CloseOpenRow[i] = rows[i]
    <2>1. rows[i] \in Row /\ rows[i].open = FALSE
      BY Zenon, <1>1, <1>6 DEF Row
    <2>2. [rows[i] EXCEPT !.open = rows[i].open] = rows[i]
      BY Zenon, <2>1 DEF Row
    <2> QED
      BY Zenon, <1>3, <2>1, <2>2
  <1> QED
    BY Zenon, <1>4, <1>5, <1>6

(* A step that writes no receipt and changes no closed row keeps what the  *)
(* receipts say.                                                           *)
LEMMA ReceiptsKept ==
  ASSUME HistInv, receipts' = receipts, rows' \in Seq(Row), Len(rows') >= Len(rows),
         \A i \in 1..Len(rows) : ~rows[i].open => rows'[i] = rows[i]
  PROVE  /\ receipts' \in Seq(Receipt(Len(rows'))) /\ ReceiptAgreesWithRow'
         /\ \A r : Attested(r)' <=> Attested(r)
         /\ \A r : Attested(r) => r \in 1..Len(rows) /\ ~rows[r].open
  <1>0. /\ receipts \in Seq(Receipt(Len(rows))) /\ Len(rows) \in Nat /\ Len(rows') \in Nat
        /\ \A i \in 1..Len(receipts) : receipts[i] \in Receipt(Len(rows))
    BY DEF HistInv, RowsOK
  <1>1. /\ receipts \in Seq(Receipt(Len(rows))) /\ Len(rows) \in Nat /\ Len(rows') \in Nat
        /\ \A i \in 1..Len(receipts) : receipts[i].row \in 1..Len(rows)
    BY Zenon, <1>0 DEF Receipt
  <1>2. Receipt(Len(rows)) \subseteq Receipt(Len(rows'))
    BY <1>1 DEF Receipt
  <1>3. receipts' \in Seq(Receipt(Len(rows')))
    BY <1>1, <1>2
  <1>4. \A i \in 1..Len(receipts) : receipts[i].kind = "close" =>
           LET r == rows[receipts[i].row] IN ~r.open /\ r.bytes = receipts[i].bytes
    BY Zenon DEF HistInv, RowsOK, ReceiptAgreesWithRow
  <1>5. \A i \in 1..Len(receipts) : receipts[i].kind = "close" =>
           LET r == rows'[receipts[i].row] IN ~r.open /\ r.bytes = receipts[i].bytes
    BY Zenon, <1>1, <1>4
  <1>6. ReceiptAgreesWithRow'
    <2>1. ReceiptAgreesWithRow
      BY Zenon DEF HistInv, RowsOK
    <2> QED
      BY <1>5, <2>1 DEF ReceiptAgreesWithRow
  <1> QED
    BY Zenon, <1>1, <1>3, <1>4, <1>6 DEF Attested

(* The flags and counters, action by action.                               *)
LEMMA CountersStep ==
  ASSUME HistInv, Next
  PROVE  CountersOK'
  <1>0. MaxRelay \in Nat /\ MaxCrash \in Nat /\ 0 \in 0..MaxRelay
    BY HistoryAssumption DEF HistoryAssumption
  <1> USE <1>0 DEF HistInv, CountersOK, memVars, flushVars, hist
  <1>1. CASE NoteConnected
    BY Zenon, <1>1 DEF NoteConnected
  <1>2. CASE AttestOpen
    BY <1>2 DEF AttestOpen, Emit, EmitOk, EmitFails
  <1>3. CASE NoteRelay
    BY <1>3 DEF NoteRelay
  <1>4. CASE Teardown
    BY Zenon, <1>4 DEF Teardown
  <1>5. CASE ParksVanish
    BY Zenon, <1>5 DEF ParksVanish
  <1>6. ASSUME NEW w \in Writer, Flush(w)
        PROVE  CountersOK'
    <2>1. CASE FlushRead(w)
      BY Zenon, <2>1 DEF FlushRead
    <2>2. CASE FlushDelta(w)
      <3>1. Unflushed(cur[w]) \in 0..MaxRelay
        BY DEF Unflushed
      <3> QED
        BY Zenon, <2>2, <3>1 DEF FlushDelta
    <2>3. CASE FlushAdd(w)
      BY Zenon, <2>3 DEF FlushAdd
    <2>4. CASE FlushMark(w)
      BY Zenon, <2>4 DEF FlushMark
    <2> QED
      BY Zenon, <1>6, <2>1, <2>2, <2>3, <2>4 DEF Flush
  <1>7. CASE CloseRow
    BY Zenon, <1>7 DEF CloseRow
  <1>8. CASE AttestClose
    <2>1. missed' \in Nat
      BY <1>8 DEF AttestClose, Emit, EmitOk, EmitFails
    <2>2. /\ up' = TRUE /\ UNCHANGED <<live, seen, cur, delta, relayed, crashes>>
          /\ \/ bytes' = 0 /\ flushed' = 0 /\ connected' = FALSE
             \/ bytes' = bytes /\ flushed' = flushed /\ connected' = connected
      BY Zenon, <1>8 DEF AttestClose
    <2>3. bytes' \in 0..MaxRelay /\ flushed' \in 0..MaxRelay /\ bytes' <= relayed'
      BY <2>2
    <2> QED
      BY Zenon, <2>1, <2>2, <2>3
  <1>9. CASE LoopTick
    BY Zenon, <1>9 DEF LoopTick
  <1>10. CASE LoopEvict
    <2>1. /\ UNCHANGED <<up, live, seen, cur, delta, relayed, missed, crashes>>
          /\ \/ bytes' = 0 /\ flushed' = 0 /\ connected' = FALSE
             \/ bytes' = bytes /\ flushed' = flushed /\ connected' = connected
      BY Zenon, <1>10 DEF LoopEvict
    <2>2. bytes' \in 0..MaxRelay /\ flushed' \in 0..MaxRelay /\ bytes' <= relayed'
      BY <2>1
    <2> QED
      BY Zenon, <2>1, <2>2
  <1>11. CASE GrowsIdle
    BY Zenon, <1>11 DEF GrowsIdle
  <1>12. CASE Crash
    <2>1. missed' \in Nat /\ crashes' \in 0..MaxCrash
      BY <1>12 DEF Crash
    <2>2. cur' \in [Writer -> 0..MaxRelay] /\ delta' \in [Writer -> 0..MaxRelay]
      BY Zenon, <1>12 DEF Crash
    <2>3. bytes' \in 0..MaxRelay /\ flushed' \in 0..MaxRelay /\ bytes' <= relayed'
      BY <1>12 DEF Crash
    <2> QED
      BY Zenon, <1>12, <2>1, <2>2, <2>3 DEF Crash
  <1>13. CASE Boot
    BY Zenon, <1>13 DEF Boot
  <1> QED
    BY Zenon, <1>1, <1>2, <1>3, <1>4, <1>5, <1>6, <1>7, <1>8, <1>9, <1>10, <1>11, <1>12, <1>13
       DEF Next

(* Who holds the lock, and how far the writers are.                        *)
LEMMA LockStep ==
  ASSUME HistInv, Next
  PROVE  LockFlow'
  <1> USE DEF HistInv, LockFlow, Writer, memVars, flushVars
  <1>1. CASE NoteConnected
    BY Zenon, <1>1 DEF NoteConnected
  <1>2. CASE AttestOpen
    BY Zenon, <1>2 DEF AttestOpen
  <1>3. CASE NoteRelay \/ ParksVanish \/ GrowsIdle
    BY <1>3 DEF NoteRelay, ParksVanish, GrowsIdle
  <1>4. CASE Teardown
    BY Zenon, <1>4 DEF Teardown
  <1>5. ASSUME NEW w \in Writer, Flush(w)
        PROVE  LockFlow'
    <2>1. UNCHANGED <<up, connected, lock>>
      BY Zenon, <1>5 DEF Flush, FlushRead, FlushDelta, FlushAdd, FlushMark
    <2>2. /\ pc[w] # "idle"
          /\ \E p \in {"delta", "add", "mark", "evict", "closeRow"} : pc' = [pc EXCEPT ![w] = p]
      BY Zenon, <1>5 DEF Flush, FlushRead, FlushDelta, FlushAdd, FlushMark, AfterFlush
    <2> QED
      BY <2>1, <2>2
  <1>6. CASE CloseRow
    BY Zenon, <1>6 DEF CloseRow
  <1>7. CASE AttestClose
    BY Zenon, <1>7 DEF AttestClose
  <1>8. CASE LoopTick
    BY Zenon, <1>8 DEF LoopTick
  <1>9. CASE LoopEvict
    BY Zenon, <1>9 DEF LoopEvict
  <1>10. CASE Crash
    BY Zenon, <1>10 DEF Crash
  <1>11. CASE Boot
    BY Zenon, <1>11 DEF Boot
  <1> QED
    BY Zenon, <1>1, <1>2, <1>3, <1>4, <1>5, <1>6, <1>7, <1>8, <1>9, <1>10, <1>11 DEF Next

(* A step that leaves the store alone.                                     *)
LEMMA StoreKept ==
  ASSUME HistInv, UNCHANGED store
  PROVE  /\ rows' \in Seq(Row) /\ receipts' \in Seq(Receipt(Len(rows'))) /\ dbHead' \in Nat
         /\ OpenRows' = OpenRows /\ ReceiptAgreesWithRow'
         /\ \A r : Attested(r)' <=> Attested(r)
         /\ rows' = rows /\ dbHead' = dbHead /\ receipts' = receipts
  <1>1. rows' = rows /\ receipts' = receipts /\ dbHead' = dbHead
    BY Zenon DEF store
  <1>2. rows \in Seq(Row) /\ receipts \in Seq(Receipt(Len(rows))) /\ dbHead \in Nat
    BY Zenon DEF HistInv, RowsOK, ChainOK
  <1>3. ReceiptAgreesWithRow' /\ OpenRows' = OpenRows
    BY Zenon, <1>1 DEF HistInv, RowsOK, ReceiptAgreesWithRow, OpenRows
  <1>4. \A r : Attested(r)' <=> Attested(r)
    BY Zenon, <1>1 DEF Attested
  <1> QED
    BY Zenon, <1>1, <1>2, <1>3, <1>4

-----------------------------------------------------------------------------
(* A receipt is written with the number after the head, and both heads     *)
(* move to it; a failed one moves neither.                                 *)
LEMMA EmitExtends ==
  ASSUME HistInv, memHead = dbHead, NEW k \in {"open", "close"}, NEW r \in 1..Len(rows),
         Emit(k, r), rows' = rows
  PROVE  /\ ChainLinked' /\ memHead' = dbHead' /\ dbHead' \in Nat
         /\ receipts' \in Seq(Receipt(Len(rows)))
         /\ \/ receipts' = receipts
            \/ /\ Len(receipts') = Len(receipts) + 1
               /\ \A i \in 1..Len(receipts) : receipts'[i] = receipts[i]
               /\ LET new == receipts'[Len(receipts) + 1]
                  IN  new.kind = k /\ new.row = r /\ new.bytes = rows[r].bytes
  <1> DEFINE new == [seq |-> memHead + 1, kind |-> k, row |-> r, bytes |-> rows[r].bytes,
                     missedBefore |-> missed]
  <1>1. /\ receipts \in Seq(Receipt(Len(rows))) /\ dbHead \in Nat /\ memHead \in Nat
        /\ dbHead = Len(receipts) /\ \A i \in 1..Len(receipts) : receipts[i].seq = i
    BY Zenon DEF HistInv, RowsOK, ChainOK, ChainLinked
  <1>2. rows[r] \in Row /\ missed \in Nat
    BY DEF HistInv, RowsOK, CountersOK
  <1>3. new \in Receipt(Len(rows))
    BY <1>1, <1>2 DEF Receipt, Row
  <1>4. CASE EmitFails
    <2>1. UNCHANGED <<receipts, dbHead, memHead>>
      BY Zenon, <1>4 DEF EmitFails
    <2> QED
      BY Zenon, <1>1, <2>1 DEF ChainLinked
  <1>5. CASE EmitOk(k, r)
    <2>1. receipts' = Append(receipts, new) /\ dbHead' = memHead + 1 /\ memHead' = memHead + 1
      BY Zenon, <1>5 DEF EmitOk
    <2>2. new.seq = memHead + 1 /\ new.kind = k /\ new.row = r /\ new.bytes = rows[r].bytes
      BY Zenon
    <2> HIDE DEF new
    <2>3. /\ receipts' \in Seq(Receipt(Len(rows))) /\ Len(receipts') = Len(receipts) + 1
          /\ \A i \in 1..Len(receipts) : receipts'[i] = receipts[i]
          /\ receipts'[Len(receipts) + 1] = new
      BY <1>1, <1>3, <2>1
    <2>4. \A i \in 1..Len(receipts') : receipts'[i].seq = i
      BY <1>1, <2>2, <2>3
    <2> QED
      BY <1>1, <2>1, <2>2, <2>3, <2>4 DEF ChainLinked
  <1> QED
    BY Zenon, <1>4, <1>5 DEF Emit

(* The rows a holder of the lock attests exist, and the heads agree.       *)
LEMMA AttestedRows ==
  ASSUME HistInv
  PROVE  /\ lock = "emitOpen" => TheOpen = Len(rows) /\ TheOpen \in 1..Len(rows)
         /\ lock \in {"emitClose", "emitEvict", "emitBoot"} => Len(rows) \in 1..Len(rows)
         /\ lock \in {"emitOpen", "emitClose", "emitEvict", "emitBoot"} => memHead = dbHead
  <1>1. rows \in Seq(Row) /\ Len(rows) \in Nat
    BY DEF HistInv, RowsOK
  <1>2. ASSUME lock = "emitOpen"
        PROVE  TheOpen = Len(rows) /\ TheOpen \in 1..Len(rows)
    <2>1. Len(rows) \in OpenRows /\ OpenRows \subseteq {Len(rows)}
      BY Zenon, <1>2 DEF HistInv, RowsOK, RowIsStreak
    <2>2. TheOpen \in OpenRows
      BY Zenon, <2>1 DEF TheOpen
    <2> QED
      BY Zenon, <2>1, <2>2 DEF OpenRows
  <1>3. lock \in {"emitClose", "emitEvict", "emitBoot"} => Len(rows) \in 1..Len(rows)
    BY <1>1 DEF HistInv, RowsOK
  <1>4. lock \in {"emitOpen", "emitClose", "emitEvict", "emitBoot"} => memHead = dbHead
    BY Zenon DEF HistInv, LockFlow, ChainOK, ChainLinked
  <1> QED
    BY Zenon, <1>2, <1>3, <1>4

(* The chain: only a receipt moves it, a crash forgets the head in memory  *)
(* and boot takes it from the store.                                       *)
LEMMA ChainStep ==
  ASSUME HistInv, Next
  PROVE  ChainOK'
  <1>1. CASE AttestOpen
    <2>1. Emit("open", TheOpen) /\ rows' = rows /\ lock = "emitOpen" /\ lock' = "free"
      BY Zenon, <1>1 DEF AttestOpen
    <2>2. ChainLinked' /\ memHead' = dbHead' /\ dbHead' \in Nat
      BY Zenon, <2>1, AttestedRows, EmitExtends
    <2> QED
      BY Zenon, <2>1, <2>2 DEF ChainOK
  <1>2. CASE AttestClose
    <2>1. /\ Emit("close", Len(rows)) /\ rows' = rows /\ lock' = "free"
          /\ lock \in {"emitClose", "emitEvict", "emitBoot"}
      BY Zenon, <1>2 DEF AttestClose
    <2>2. ChainLinked' /\ memHead' = dbHead' /\ dbHead' \in Nat
      BY Zenon, <2>1, AttestedRows, EmitExtends
    <2> QED
      BY Zenon, <2>1, <2>2 DEF ChainOK
  <1>3. CASE Crash
    <2>1. receipts' = receipts /\ dbHead' = dbHead /\ memHead' = 0 /\ up' = FALSE /\ lock' = "free"
      BY Zenon, <1>3 DEF Crash, store
    <2> QED
      BY Zenon, <2>1 DEF HistInv, ChainOK, ChainLinked
  <1>4. CASE Boot
    <2>1. receipts' = receipts /\ dbHead' = dbHead /\ memHead' = dbHead
      BY Zenon, <1>4 DEF Boot
    <2> QED
      BY Zenon, <2>1 DEF HistInv, ChainOK, ChainLinked
  <1>5. ASSUME UNCHANGED <<receipts, dbHead, memHead, up>>, lock' = "emitBoot" => lock = "emitBoot"
        PROVE  ChainOK'
    BY Zenon, <1>5 DEF HistInv, ChainOK, ChainLinked
  <1>6. ASSUME NEW w \in Writer, Flush(w)
        PROVE  ChainOK'
    BY Zenon, <1>5, <1>6 DEF Flush, FlushRead, FlushDelta, FlushAdd, FlushMark, memVars, store
  <1>7. CASE CloseRow \/ LoopEvict \/ NoteConnected \/ Teardown
    BY Zenon, <1>5, <1>7 DEF CloseRow, LoopEvict, NoteConnected, Teardown, memVars, store
  <1>8. CASE NoteRelay \/ ParksVanish \/ LoopTick \/ GrowsIdle
    BY Zenon, <1>5, <1>8 DEF NoteRelay, ParksVanish, LoopTick, GrowsIdle, memVars, store
  <1> QED
    BY Zenon, <1>1, <1>2, <1>3, <1>4, <1>6, <1>7, <1>8 DEF Next

-----------------------------------------------------------------------------
(* The rows and what the receipts say of them, in the steps that write a   *)
(* row: a new session ...                                                  *)
LEMMA NoteConnectedRows ==
  ASSUME HistInv, NoteConnected
  PROVE  RowsOK'
  <1>1. /\ up /\ lock = "free" /\ connected' = TRUE /\ receipts' = receipts
        /\ rows \in Seq(Row) /\ Len(rows) \in Nat /\ OpenRows \subseteq {Len(rows)}
    BY DEF NoteConnected, HistInv, RowsOK, RowIsStreak
  <1>2. CASE OpenRows # {}
    <2>1. UNCHANGED store /\ lock' = "free"
      BY Zenon, <1>1, <1>2 DEF NoteConnected, store
    <2> QED
      BY Zenon, <1>1, <1>2, <2>1, StoreKept DEF RowsOK, RowIsStreak
  <1>3. CASE OpenRows = {}
    <2> DEFINE new == [open |-> TRUE, bytes |-> 0]
    <2>1. rows' = Append(rows, new) /\ lock' = "emitOpen"
      BY Zenon, <1>3 DEF NoteConnected
    <2>2. new \in Row /\ new.open = TRUE
      BY Zenon DEF Row
    <2> HIDE DEF new
    <2>3. /\ rows' \in Seq(Row) /\ Len(rows') = Len(rows) + 1 /\ rows'[Len(rows) + 1] = new
          /\ \A i \in 1..Len(rows) : rows'[i] = rows[i]
      BY <1>1, <2>1, <2>2
    <2>4. receipts' \in Seq(Receipt(Len(rows'))) /\ ReceiptAgreesWithRow'
      BY <1>1, <2>3, ReceiptsKept
    <2>5. OpenRows' = {Len(rows')}
      BY <1>1, <1>3, <2>2, <2>3 DEF OpenRows
    <2> QED
      BY Zenon, <2>1, <2>3, <2>4, <2>5 DEF RowsOK, RowIsStreak
  <1> QED
    BY Zenon, <1>2, <1>3

(* ... a flush, which adds to the open row only ...                        *)
LEMMA FlushAddRows ==
  ASSUME HistInv, NEW w \in Writer, FlushAdd(w)
  PROVE  RowsOK'
  <1>1. /\ rows \in Seq(Row) /\ Len(rows) \in Nat /\ delta[w] \in Nat
        /\ \A i \in 1..Len(rows) : rows[i] \in Row
    BY HistoryAssumption DEF HistoryAssumption, HistInv, RowsOK, CountersOK
  <1>2. /\ rows' \in [1..Len(rows) -> Row]
        /\ \A i \in 1..Len(rows) : rows'[i].open = rows[i].open
        /\ \A i \in 1..Len(rows) : ~rows[i].open => rows'[i] = rows[i]
    <2>1. /\ DOMAIN rows' = 1..Len(rows)
          /\ rows' = [i \in 1..Len(rows) |-> rows'[i]]
          /\ \A i \in 1..Len(rows) :
                rows'[i] = IF rows[i].open THEN [rows[i] EXCEPT !.bytes = @ + delta[w]]
                           ELSE rows[i]
      BY Zenon DEF FlushAdd, TakesBytes
    <2>2. ASSUME NEW i \in 1..Len(rows)
          PROVE  /\ rows'[i] \in Row /\ rows'[i].open = rows[i].open
                 /\ ~rows[i].open => rows'[i] = rows[i]
      <3>1. [rows[i] EXCEPT !.bytes = @ + delta[w]] \in Row
            /\ [rows[i] EXCEPT !.bytes = @ + delta[w]].open = rows[i].open
        BY <1>1 DEF Row
      <3> QED
        BY Zenon, <1>1, <2>1, <3>1
    <2> QED
      BY Zenon, <2>1, <2>2
  <1>3. rows' \in Seq(Row) /\ Len(rows') = Len(rows)
    BY Zenon, <1>1, <1>2, FunctionIsSeq
  <1>4. UNCHANGED <<receipts, up, connected, lock>>
    BY Zenon DEF FlushAdd, memVars
  <1>5. /\ receipts' \in Seq(Receipt(Len(rows'))) /\ ReceiptAgreesWithRow'
        /\ \A r : Attested(r)' <=> Attested(r)
    BY <1>1, <1>2, <1>3, <1>4, ReceiptsKept
  <1>6. OpenRows' = OpenRows
    BY Zenon, <1>2, <1>3 DEF OpenRows
  <1> QED
    BY Zenon, <1>3, <1>4, <1>5, <1>6 DEF HistInv, RowsOK, RowIsStreak

(* ... the UPDATEs that close the open row: no receipt says so yet ...     *)
LEMMA ClosingKeepsRows ==
  ASSUME HistInv, rows' = CloseOpenRow, receipts' = receipts,
         OpenRows = {} => lock' = lock \/ lock' = "free",
         OpenRows # {} => lock' \in {"emitClose", "emitEvict", "emitBoot"},
         lock \in {"free", "close"},
         up' /\ lock' = "free" => ~connected'
  PROVE  RowsOK'
  <1>1. rows \in Seq(Row) /\ Len(rows) \in Nat /\ OpenRows \subseteq {Len(rows)}
    BY DEF HistInv, RowsOK, RowIsStreak
  <1>2. /\ rows' \in Seq(Row) /\ Len(rows') = Len(rows)
        /\ \A i \in 1..Len(rows) : ~rows'[i].open
        /\ \A i \in 1..Len(rows) : ~rows[i].open => rows'[i] = rows[i]
    BY Zenon, <1>1, ClosingRows
  <1>3. /\ receipts' \in Seq(Receipt(Len(rows'))) /\ ReceiptAgreesWithRow'
        /\ \A r : Attested(r)' <=> Attested(r)
        /\ \A r : Attested(r) => r \in 1..Len(rows) /\ ~rows[r].open
    BY <1>1, <1>2, ReceiptsKept
  <1>4. OpenRows' = {}
    BY Zenon, <1>2 DEF OpenRows
  <1>5. OpenRows # {} => Len(rows') > 0 /\ ~Attested(Len(rows))'
    BY <1>1, <1>2, <1>3 DEF OpenRows
  <1> QED
    BY Zenon, <1>2, <1>3, <1>4, <1>5 DEF RowsOK, RowIsStreak

(* ... and the receipts.                                                   *)
LEMMA AttestOpenRows ==
  ASSUME HistInv, AttestOpen
  PROVE  RowsOK'
  <1>1. /\ lock = "emitOpen" /\ lock' = "free" /\ Emit("open", TheOpen)
        /\ rows' = rows /\ up' = up /\ connected' = connected
    BY Zenon DEF AttestOpen, memVars
  <1>2. /\ TheOpen \in 1..Len(rows) /\ memHead = dbHead /\ connected = TRUE
        /\ Len(rows) \in OpenRows /\ OpenRows \subseteq {Len(rows)} /\ rows \in Seq(Row)
    BY Zenon, <1>1, AttestedRows DEF HistInv, RowsOK, RowIsStreak, LockFlow, CountersOK
  <1>3. /\ receipts' \in Seq(Receipt(Len(rows)))
        /\ \/ receipts' = receipts
           \/ /\ Len(receipts') = Len(receipts) + 1
              /\ \A i \in 1..Len(receipts) : receipts'[i] = receipts[i]
              /\ receipts'[Len(receipts) + 1].kind = "open"
    BY Zenon, <1>1, <1>2, EmitExtends
  <1>4. ReceiptAgreesWithRow'
    <2>1. receipts \in Seq(Receipt(Len(rows))) /\ Len(receipts) \in Nat
      BY DEF HistInv, RowsOK
    <2> QED
      BY <1>1, <1>3, <2>1 DEF HistInv, RowsOK, ReceiptAgreesWithRow
  <1>5. OpenRows' = OpenRows
    BY Zenon, <1>1 DEF OpenRows
  <1> QED
    BY Zenon, <1>1, <1>2, <1>3, <1>4, <1>5 DEF RowsOK, RowIsStreak

(* The close receipt is the first of its row.                              *)
LEMMA AttestCloseRows ==
  ASSUME HistInv, AttestClose
  PROVE  RowsOK'
  <1>1. /\ lock \in {"emitClose", "emitEvict", "emitBoot"} /\ lock' = "free"
        /\ Emit("close", Len(rows)) /\ rows' = rows
        /\ lock = "emitEvict" => ~connected'
        /\ lock # "emitEvict" => connected' = connected
    BY Zenon DEF AttestClose
  <1>2. /\ Len(rows) \in 1..Len(rows) /\ memHead = dbHead /\ rows \in Seq(Row)
        /\ OpenRows = {} /\ ~Attested(Len(rows))
    BY Zenon, <1>1, AttestedRows DEF HistInv, RowsOK
  <1>3. ~connected'
    BY Zenon, <1>1 DEF HistInv, LockFlow
  <1>4. /\ receipts' \in Seq(Receipt(Len(rows)))
        /\ \/ receipts' = receipts
           \/ /\ Len(receipts') = Len(receipts) + 1
              /\ \A i \in 1..Len(receipts) : receipts'[i] = receipts[i]
              /\ LET new == receipts'[Len(receipts) + 1]
                 IN  new.kind = "close" /\ new.row = Len(rows)
                     /\ new.bytes = rows[Len(rows)].bytes
    BY Zenon, <1>1, <1>2, EmitExtends
  <1>5. ReceiptAgreesWithRow'
    <2>1. receipts \in Seq(Receipt(Len(rows))) /\ Len(receipts) \in Nat
      BY DEF HistInv, RowsOK
    <2>2. ~rows[Len(rows)].open
      BY Zenon, <1>2 DEF OpenRows
    <2>3. \A i \in 1..Len(receipts) : receipts[i].kind = "close" => receipts[i].row # Len(rows)
      BY Zenon, <1>2 DEF Attested
    <2>4. /\ \A i \in 1..Len(receipts) : receipts[i].kind = "close" =>
                LET r == rows[receipts[i].row] IN ~r.open /\ r.bytes = receipts[i].bytes
          /\ \A i, j \in 1..Len(receipts) :
                receipts[i].kind = "close" /\ receipts[j].kind = "close" /\ i # j =>
                   receipts[i].row # receipts[j].row
      BY Zenon DEF HistInv, RowsOK, ReceiptAgreesWithRow
    <2>5. CASE receipts' = receipts
      BY <1>1, <2>4, <2>5 DEF ReceiptAgreesWithRow
    <2>6. CASE receipts' # receipts
      <3>1. /\ \A i \in 1..Len(receipts') : i \in 1..Len(receipts) \/ i = Len(receipts) + 1
            /\ \A i \in 1..Len(receipts) : receipts'[i] = receipts[i]
            /\ receipts'[Len(receipts) + 1].row = Len(rows)
            /\ receipts'[Len(receipts) + 1].bytes = rows[Len(rows)].bytes
        BY <1>4, <2>1, <2>6
      <3>2. \A i \in 1..Len(receipts') : receipts'[i].kind = "close" =>
               LET r == rows[receipts'[i].row] IN ~r.open /\ r.bytes = receipts'[i].bytes
        BY Zenon, <2>2, <2>4, <3>1
      <3>3. \A i, j \in 1..Len(receipts') :
               receipts'[i].kind = "close" /\ receipts'[j].kind = "close" /\ i # j =>
                  receipts'[i].row # receipts'[j].row
        BY <2>3, <2>4, <3>1
      <3> QED
        BY Zenon, <1>1, <3>2, <3>3 DEF ReceiptAgreesWithRow
    <2> QED
      BY Zenon, <2>5, <2>6
  <1>6. OpenRows' = {}
    BY Zenon, <1>1, <1>2 DEF OpenRows
  <1> QED
    BY Zenon, <1>1, <1>2, <1>3, <1>4, <1>5, <1>6 DEF RowsOK, RowIsStreak

(* The rows, action by action.                                             *)
LEMMA RowsStep ==
  ASSUME HistInv, Next
  PROVE  RowsOK'
  <1>1. CASE CloseRow
    <2>1. /\ rows' = CloseOpenRow /\ receipts' = receipts /\ connected' = connected /\ up' = up
          /\ lock' = IF OpenRows # {} THEN "emitClose" ELSE "free"
      BY Zenon, <1>1 DEF CloseRow, memVars
    <2>2. lock = "close" /\ ~connected
      BY Zenon, <1>1 DEF CloseRow, HistInv, LockFlow
    <2> QED
      BY Zenon, <2>1, <2>2, ClosingKeepsRows
  <1>2. CASE LoopEvict
    <2>1. /\ lock = "free" /\ receipts' = receipts /\ dbHead' = dbHead /\ up' = up
          /\ \/ UNCHANGED <<rows, lock, connected>>
             \/ OpenRows # {} /\ rows' = CloseOpenRow /\ lock' = "emitEvict"
             \/ OpenRows = {} /\ rows' = rows /\ lock' = lock /\ connected' = FALSE
      BY Zenon, <1>2 DEF LoopEvict
    <2>2. CASE rows' = rows /\ lock' = lock
      <3>1. UNCHANGED store
        BY Zenon, <2>1, <2>2 DEF store
      <3> QED
        BY <2>1, <2>2, <3>1, StoreKept DEF HistInv, RowsOK, RowIsStreak
    <2>3. CASE OpenRows # {} /\ rows' = CloseOpenRow /\ lock' = "emitEvict"
      BY Zenon, <2>1, <2>3, ClosingKeepsRows
    <2> QED
      BY Zenon, <2>1, <2>2, <2>3
  <1>3. CASE Boot
    <2>1. /\ ~up /\ lock = "free" /\ rows' = CloseOpenRow /\ receipts' = receipts
          /\ connected' = connected
          /\ OpenRows # {} => lock' = "emitBoot"
          /\ OpenRows = {} => lock' = lock
      BY Zenon, <1>3 DEF Boot
    <2>2. ~connected
      BY Zenon, <2>1 DEF HistInv, LockFlow
    <2> QED
      BY Zenon, <2>1, <2>2, ClosingKeepsRows
  <1>4. CASE Crash
    <2>1. UNCHANGED store /\ lock' = "free" /\ up' = FALSE
      BY Zenon, <1>4 DEF Crash
    <2> QED
      BY Zenon, <2>1, StoreKept DEF HistInv, RowsOK, RowIsStreak
  <1>5. CASE Teardown
    <2>1. UNCHANGED store /\ lock' = "close"
      BY Zenon, <1>5 DEF Teardown
    <2> QED
      BY Zenon, <2>1, StoreKept DEF HistInv, RowsOK, RowIsStreak
  <1>6. ASSUME UNCHANGED store, UNCHANGED <<up, connected, lock>>
        PROVE  RowsOK'
    BY Zenon, <1>6, StoreKept DEF HistInv, RowsOK, RowIsStreak
  <1>7. ASSUME NEW w \in Writer, Flush(w)
        PROVE  RowsOK'
    <2>1. CASE FlushAdd(w)
      BY Zenon, <2>1, FlushAddRows
    <2>2. CASE FlushRead(w) \/ FlushDelta(w) \/ FlushMark(w)
      BY Zenon, <1>6, <2>2 DEF FlushRead, FlushDelta, FlushMark, memVars
    <2> QED
      BY Zenon, <1>7, <2>1, <2>2 DEF Flush
  <1>8. CASE NoteRelay \/ ParksVanish \/ LoopTick \/ GrowsIdle
    BY Zenon, <1>6, <1>8 DEF NoteRelay, ParksVanish, LoopTick, GrowsIdle, memVars
  <1> QED
    BY Zenon, <1>1, <1>2, <1>3, <1>4, <1>5, <1>7, <1>8, NoteConnectedRows, AttestOpenRows,
       AttestCloseRows DEF Next

(* An empty store, nothing connected.                                      *)
LEMMA HistInit == Init => HistInv
  <1> SUFFICES ASSUME Init PROVE HistInv
    BY Zenon
  <1>1. MaxRelay \in Nat /\ MaxCrash \in Nat
    BY Zenon, HistoryAssumption DEF HistoryAssumption
  <1>2. CountersOK
    <2>1. /\ bytes \in 0..MaxRelay /\ flushed \in 0..MaxRelay /\ relayed \in 0..MaxRelay
          /\ bytes <= relayed /\ missed \in Nat /\ crashes \in 0..MaxCrash
      BY <1>1 DEF Init
    <2>2. cur \in [Writer -> 0..MaxRelay] /\ delta \in [Writer -> 0..MaxRelay]
      BY <1>1 DEF Init
    <2> QED
      BY Zenon, <2>1, <2>2 DEF Init, CountersOK
  <1>3. LockFlow
    BY Zenon DEF Init, LockFlow, Writer
  <1>4. ChainOK
    BY DEF Init, ChainOK, ChainLinked
  <1>5. RowsOK
    <2>1. rows = <<>> /\ receipts = <<>> /\ lock = "free" /\ connected = FALSE
      BY Zenon DEF Init
    <2>2. rows \in Seq(Row) /\ receipts \in Seq(Receipt(Len(rows))) /\ OpenRows = {}
      BY <2>1 DEF OpenRows
    <2>3. ReceiptAgreesWithRow
      BY <2>1 DEF ReceiptAgreesWithRow
    <2> QED
      BY Zenon, <2>1, <2>2, <2>3 DEF RowsOK, RowIsStreak
  <1> QED
    BY Zenon, <1>2, <1>3, <1>4, <1>5 DEF HistInv

(* HistInv is inductive.                                                   *)
LEMMA HistInvariant == Spec => []HistInv
  <1>1. HistInv /\ UNCHANGED vars => HistInv'
    <2> SUFFICES ASSUME HistInv, UNCHANGED vars PROVE HistInv'
      BY Zenon
    <2>1. UNCHANGED store /\ UNCHANGED <<up, live, connected, seen, bytes, flushed, memHead,
                                         lock, pc, cur, delta, relayed, missed, crashes>>
      BY Zenon DEF vars, memVars, flushVars, hist
    <2>2. CountersOK' /\ LockFlow'
      BY Zenon, <2>1 DEF HistInv, CountersOK, LockFlow
    <2>3. ChainOK'
      BY Zenon, <2>1, StoreKept DEF HistInv, ChainOK, ChainLinked
    <2>4. RowsOK'
      BY Zenon, <2>1, StoreKept DEF HistInv, RowsOK, RowIsStreak
    <2> QED
      BY Zenon, <2>2, <2>3, <2>4 DEF HistInv
  <1>2. HistInv /\ [Next]_vars => HistInv'
    BY Zenon, <1>1, CountersStep, LockStep, ChainStep, RowsStep DEF HistInv
  <1> QED
    BY HistInit, <1>2, PTL DEF Spec

(* #776: the open row's lifetime is the in-memory streak's, through any    *)
(* number of teardowns, evictions, crashes and boot repairs.               *)
THEOREM RowsAreStreaks == Spec => []RowIsStreak
  <1>1. HistInv => RowIsStreak
    BY Zenon DEF HistInv, RowsOK
  <1> QED
    BY <1>1, HistInvariant, PTL

(* #782: the receipt chain never forks or skips a number.                  *)
THEOREM ChainNeverForks == Spec => []ChainLinked
  <1>1. HistInv => ChainLinked
    BY Zenon DEF HistInv, ChainOK
  <1> QED
    BY <1>1, HistInvariant, PTL

(* #782: a close receipt agrees with its row for ever, and a row has one.  *)
THEOREM ReceiptsAgree == Spec => []ReceiptAgreesWithRow
  <1>1. HistInv => ReceiptAgreesWithRow
    BY Zenon DEF HistInv, RowsOK
  <1> QED
    BY <1>1, HistInvariant, PTL

(* The history keeps its types.                                            *)
THEOREM HistoryTypes == Spec => []TypeOK
  <1>1. HistInv => TypeOK
    BY Zenon DEF HistInv, CountersOK, LockFlow, ChainOK, RowsOK, TypeOK
  <1> QED
    BY <1>1, HistInvariant, PTL

(* Only the open row is ever written.                                      *)
LEMMA FrozenStep ==
  ASSUME HistInv, Next, NEW i \in 1..Len(rows), ~rows[i].open
  PROVE  rows'[i] = rows[i]
  <1>1. rows \in Seq(Row) /\ Len(rows) \in Nat
    BY DEF HistInv, RowsOK
  <1>2. CASE rows' = CloseOpenRow
    BY Zenon, <1>1, <1>2, ClosingRows
  <1>3. CASE NoteConnected
    <2>1. rows' = rows \/ rows' = Append(rows, [open |-> TRUE, bytes |-> 0])
      BY Zenon, <1>3 DEF NoteConnected
    <2> QED
      BY <1>1, <2>1
  <1>4. ASSUME NEW w \in Writer, FlushAdd(w)
        PROVE  rows'[i] = rows[i]
    BY Zenon, <1>4 DEF FlushAdd, TakesBytes
  <1>5. CASE rows' = rows
    BY Zenon, <1>5
  <1> QED
    BY Zenon, <1>2, <1>3, <1>4, <1>5
       DEF Next, AttestOpen, NoteRelay, Teardown, ParksVanish, Flush, FlushRead, FlushDelta,
           FlushMark, CloseRow, AttestClose, LoopTick, LoopEvict, GrowsIdle, Crash, Boot,
           store

(* A closed row is history: no late flush, boot repair or new session ever *)
(* changes it.                                                             *)
THEOREM ClosedRowsFrozen == Spec => ClosedRowFrozen
  <1> DEFINE A == \A i \in 1..Len(rows) : ~rows[i].open => rows'[i] = rows[i]
  <1>1. HistInv /\ [Next]_vars => [A]_vars
    BY Zenon, FrozenStep
  <1> QED
    BY <1>1, HistInvariant, PTL DEF Spec, ClosedRowFrozen

-----------------------------------------------------------------------------
(* What NoMissedRevocation needs to be inductive: a receiver never marks a *)
(* tick as seen that has not been sent, a call under way leaves room for   *)
(* its tick, and a revoked token is registered only while its own          *)
(* revoke_token call is about to tear it down.                             *)
SignalInv ==
    /\ SignalTypeOK
    /\ \A r \in Relay : seenTick[r] <= tick
    /\ NoMissedRevocation
    /\ CutOnlyRevoked
    /\ step # "idle" => tick < MaxTick
    /\ \A t \in registered \cap revoked : revoking = t /\ step = "teardown"

(* At start nothing is revoked and no relay waits.                         *)
LEMMA SignalInitInv == SignalInit => SignalInv
  <1> SUFFICES ASSUME SignalInit PROVE SignalInv
    OBVIOUS
  <1>1. SignalTypeOK
    BY SignalAssumption DEF SignalInit, SignalTypeOK, RelayState
  <1>2. NoMissedRevocation /\ CutOnlyRevoked
    <2>1. \A r \in Relay : relay[r] = "idle"
      BY Zenon DEF SignalInit
    <2> QED
      BY Zenon, <2>1 DEF NoMissedRevocation, CutOnlyRevoked
  <1> QED
    BY <1>1, <1>2 DEF SignalInit, SignalInv

(* Every step of the revoker, of the registry and of a relay keeps it.     *)
LEMMA SignalStep == SignalInv /\ [SignalNext]_signalVars => SignalInv'
  <1> SUFFICES ASSUME SignalInv, [SignalNext]_signalVars
               PROVE  SignalInv'
    BY Zenon
  <1> USE SignalAssumption DEF SignalAssumption, SignalInv, SignalTypeOK, NoMissedRevocation,
                               CutOnlyRevoked, RelayState, revoker
  <1>1. ASSUME NEW t \in Token, Register(t)
        PROVE  SignalInv'
    BY Zenon, <1>1 DEF Register
  <1>2. ASSUME NEW t \in Token, RevokeInsert(t)
        PROVE  SignalInv'
    BY Zenon, <1>2 DEF RevokeInsert
  <1>3. CASE RevokeTeardown
    BY Zenon, <1>3 DEF RevokeTeardown
  <1>4. CASE RevokeTick
    BY <1>4 DEF RevokeTick
  <1>5. ASSUME NEW r \in Relay, Route(r)
        PROVE  SignalInv'
    BY Zenon, <1>5 DEF Route
  <1>6. ASSUME NEW r \in Relay, Subscribe(r)
        PROVE  SignalInv'
    BY <1>6 DEF Subscribe
  <1>7. ASSUME NEW r \in Relay, CheckRevoked(r)
        PROVE  SignalInv'
    BY Zenon, <1>7 DEF CheckRevoked
  <1>8. ASSUME NEW r \in Relay, Changed(r)
        PROVE  SignalInv'
    BY <1>8 DEF Changed
  <1>9. ASSUME NEW r \in Relay, RelayEnds(r)
        PROVE  SignalInv'
    BY Zenon, <1>9 DEF RelayEnds
  <1>10. CASE UNCHANGED signalVars
    BY Zenon, <1>10 DEF signalVars
  <1> QED
    BY Zenon, <1>1, <1>2, <1>3, <1>4, <1>5, <1>6, <1>7, <1>8, <1>9, <1>10 DEF SignalNext

(* The inductive invariant holds in every reachable state.                 *)
LEMMA SignalInvariant == SignalSpec => []SignalInv
  BY SignalInitInv, SignalStep, PTL DEF SignalSpec

(* #554: a relay that sleeps in changed() on a tick it has seen sleeps for *)
(* a token that is not revoked or whose own revocation has yet to tick.    *)
THEOREM RevocationNotMissed == SignalSpec => []NoMissedRevocation
  <1>1. SignalInv => NoMissedRevocation
    BY Zenon DEF SignalInv
  <1> QED
    BY <1>1, SignalInvariant, PTL

(* The shared tick of another token's revocation never cuts a relay.       *)
THEOREM OnlyRevokedAreCut == SignalSpec => []CutOnlyRevoked
  <1>1. SignalInv => CutOnlyRevoked
    BY Zenon DEF SignalInv
  <1> QED
    BY <1>1, SignalInvariant, PTL

(* No relay finds a route for a token once revoke_token has returned.      *)
THEOREM RouteGoneAfterRevoke == SignalSpec => NoRouteAfterRevoke
  <1> DEFINE A == \A r \in Relay :
                     relay[r] = "idle" /\ relay'[r] = "routed" /\ RelayToken[r] \in revoked =>
                        revoking = RelayToken[r]
  <1>1. SignalInv /\ [SignalNext]_signalVars => [A]_signalVars
    <2> SUFFICES ASSUME SignalInv, SignalNext, NEW r \in Relay,
                        relay[r] = "idle", relay'[r] = "routed", RelayToken[r] \in revoked
                 PROVE  revoking = RelayToken[r]
      BY Zenon DEF A, signalVars
    <2>1. CASE Route(r)
      BY Zenon, <2>1 DEF Route, SignalInv
    <2>2. CASE \E q \in Relay : q # r /\ Route(q)
      BY Zenon, <2>2 DEF Route, SignalInv, SignalTypeOK
    <2>3. CASE \E q \in Relay : Subscribe(q) \/ CheckRevoked(q) \/ Changed(q) \/ RelayEnds(q)
      BY Zenon, <2>3 DEF Subscribe, CheckRevoked, Changed, RelayEnds, SignalInv, SignalTypeOK
    <2>4. CASE UNCHANGED relay
      BY Zenon, <2>4
    <2> QED
      BY Zenon, <2>1, <2>2, <2>3, <2>4
         DEF SignalNext, Register, RevokeInsert, RevokeTeardown, RevokeTick
  <1> QED
    BY <1>1, SignalInvariant, PTL DEF SignalSpec, NoRouteAfterRevoke

-----------------------------------------------------------------------------
(* An id is remembered by the task that was given it, and by no other.     *)
IdsRemembered ==
    /\ \A e \in agents : e.id <= nextReg
    /\ \A c \in Conn : result[c] <= nextReg
    /\ \A e \in agents, c \in Conn : e.id = result[c] => e.conn = c

(* The inductive invariant: PermitCoversConnection needs the permits to be *)
(* countable, OthersUndisturbed needs IdsRemembered.                       *)
ConnInv ==
    /\ ConnTypeOK /\ IsFiniteSet(held)
    /\ PermitCoversConnection
    /\ IdsRemembered

(* No connection yet.                                                      *)
LEMMA ConnInitInv == ConnInit => ConnInv
  <1> SUFFICES ASSUME ConnInit PROVE ConnInv
    OBVIOUS
  <1> USE ConnectionAssumption DEF ConnectionAssumption, ConnInit
  <1>1. ConnTypeOK
    <2>1. nextReg \in 0..MaxReg /\ result \in [Conn -> {Failed} \cup 0..MaxReg]
      BY DEF NoReg
    <2>2. phase \in [Conn -> Phase]
      BY Zenon DEF Phase
    <2> QED
      BY Zenon, <2>1, <2>2 DEF ConnTypeOK
  <1>2. IsFiniteSet(held) /\ Cardinality(held) = 0
    BY Zenon, FS_EmptySet
  <1>3. PermitCoversConnection
    BY <1>2 DEF PermitCoversConnection
  <1>4. IdsRemembered
    BY DEF IdsRemembered, NoReg
  <1> QED
    BY Zenon, <1>1, <1>2, <1>3, <1>4 DEF ConnInv

(* A task moves on without touching its permit or any registration.        *)
LEMMA TaskMoves ==
  ASSUME ConnInv, NEW c \in Conn, phase[c] \notin {"new", "shed", "done"},
         NEW p \in Phase \ {"new", "shed", "done"}, phase' = [phase EXCEPT ![c] = p],
         result' = result \/ result' = [result EXCEPT ![c] = Failed],
         open' \subseteq open, refused' \subseteq Conn,
         UNCHANGED <<agents, nextReg, tokenRevoked, held>>
  PROVE  ConnInv'
  <1> USE DEF ConnInv
  <1>1. result' \in [Conn -> {Failed} \cup 0..MaxReg]
    BY Zenon DEF ConnTypeOK
  <1>2. ConnTypeOK'
    BY Zenon, <1>1 DEF ConnTypeOK
  <1>3. PermitCoversConnection'
    BY Zenon DEF PermitCoversConnection, ConnTypeOK
  <1>4. IdsRemembered'
    BY DEF IdsRemembered, ConnTypeOK, Failed
  <1> QED
    BY Zenon, <1>2, <1>3, <1>4

(* A registration gets a fresh id; a repin takes the older entries away.   *)
LEMMA RegistrationKeeps ==
  ASSUME ConnInv, NEW c \in Conn, NEW repins \in BOOLEAN,
         phase[c] \notin {"new", "shed", "done"}, RegisterOn(c, repins),
         NEW p \in Phase \ {"new", "shed", "done"}, phase' = [phase EXCEPT ![c] = p],
         result' = result \/ result' = [result EXCEPT ![c] = NextId]
  PROVE  ConnInv'
  <1> USE ConnectionAssumption DEF ConnectionAssumption, ConnInv
  <1> DEFINE new == [id |-> NextId, conn |-> c]
  <1>1. /\ nextReg' = nextReg + 1 /\ NextId = nextReg + 1 /\ nextReg' \in 0..MaxReg
        /\ agents' \subseteq agents \cup {new} /\ open' \subseteq open
        /\ UNCHANGED <<refused, tokenRevoked, held>> /\ nextReg \in Nat
    BY DEF RegisterOn, NextId, ConnTypeOK
  <1>2. new \in [id : 1..MaxReg, conn : Conn] /\ new.id = nextReg + 1 /\ new.conn = c
    BY <1>1
  <1> HIDE DEF new
  <1>3. result' \in [Conn -> {Failed} \cup 0..MaxReg]
    BY Zenon, <1>1 DEF ConnTypeOK
  <1>4. ConnTypeOK'
    BY Zenon, <1>1, <1>2, <1>3 DEF ConnTypeOK
  <1>5. PermitCoversConnection'
    BY Zenon, <1>1 DEF PermitCoversConnection, ConnTypeOK
  <1>6. IdsRemembered'
    <2>1. \A e \in agents : e.id \in Int /\ e.id <= nextReg
      BY DEF IdsRemembered, ConnTypeOK
    <2>2. \A d \in Conn : result[d] \in Int /\ result[d] <= nextReg
      BY DEF IdsRemembered, ConnTypeOK, Failed
    <2>3. \A d \in Conn : \/ result'[d] = result[d]
                          \/ d = c /\ result'[d] = nextReg + 1
      BY Zenon, <1>1 DEF ConnTypeOK
    <2> QED
      BY <1>1, <1>2, <2>1, <2>2, <2>3 DEF IdsRemembered
  <1> QED
    BY Zenon, <1>1, <1>4, <1>5, <1>6

(* The permit: acquired with the task, and dropped with it.                *)
LEMMA AcceptKeeps ==
  ASSUME ConnInv, NEW c \in Conn, Accept(c)
  PROVE  ConnInv'
  <1> USE ConnectionAssumption DEF ConnectionAssumption, ConnInv
  <1>1. phase[c] = "new" /\ c \notin held /\ UNCHANGED <<result, refused, agents, nextReg, tokenRevoked>>
    BY Zenon DEF Accept, PermitCoversConnection
  <1>2. IdsRemembered'
    BY Zenon, <1>1 DEF IdsRemembered
  <1>3. CASE CapHasRoom
    <2>1. /\ held' = held \cup {c} /\ open' = open \cup {c}
          /\ phase' = [phase EXCEPT ![c] = "first"]
      BY Zenon, <1>3 DEF Accept
    <2>2. IsFiniteSet(held') /\ Cardinality(held') = Cardinality(held) + 1
      BY Zenon, <1>1, <2>1, FS_AddElement
    <2>3. Cardinality(held') <= Cap
      BY <1>3, <2>2, FS_CardinalityType DEF CapHasRoom
    <2>4. ConnTypeOK'
      BY Zenon, <1>1, <2>1 DEF ConnTypeOK, Phase
    <2>5. PermitCoversConnection'
      BY Zenon, <2>1, <2>3 DEF PermitCoversConnection, ConnTypeOK
    <2> QED
      BY Zenon, <1>2, <2>2, <2>4, <2>5
  <1>4. CASE ~CapHasRoom
    <2>1. phase' = [phase EXCEPT ![c] = "shed"] /\ held' = held /\ open' = open
      BY Zenon, <1>4 DEF Accept
    <2>2. ConnTypeOK'
      BY Zenon, <1>1, <2>1 DEF ConnTypeOK, Phase
    <2>3. PermitCoversConnection'
      BY Zenon, <1>1, <2>1 DEF PermitCoversConnection, ConnTypeOK
    <2> QED
      BY Zenon, <1>2, <2>1, <2>2, <2>3
  <1> QED
    BY Zenon, <1>3, <1>4

LEMMA FinishKeeps ==
  ASSUME ConnInv, NEW c \in Conn, Finish(c)
  PROVE  ConnInv'
  <1> USE ConnectionAssumption DEF ConnectionAssumption, ConnInv
  <1>1. /\ phase[c] = "waitClosed" /\ c \notin open /\ agents' \subseteq agents
        /\ held' = held \ {c} /\ phase' = [phase EXCEPT ![c] = "done"]
        /\ UNCHANGED <<open, result, refused, nextReg, tokenRevoked>>
    BY Zenon DEF Finish
  <1>2. IsFiniteSet(held') /\ Cardinality(held') <= Cardinality(held)
    BY Zenon, <1>1, FS_Subset
  <1>3. Cardinality(held) \in Nat /\ Cardinality(held') \in Nat /\ Cardinality(held) <= Cap
    BY Zenon, <1>2, FS_CardinalityType DEF PermitCoversConnection
  <1>4. ConnTypeOK' /\ IdsRemembered'
    BY Zenon, <1>1 DEF ConnTypeOK, IdsRemembered, Phase
  <1>5. PermitCoversConnection'
    BY <1>1, <1>2, <1>3 DEF PermitCoversConnection, ConnTypeOK
  <1> QED
    BY Zenon, <1>2, <1>4, <1>5

(* Nothing happens, or the environment acts: a connection is lost, or the  *)
(* token is revoked.                                                       *)
LEMMA EnvironmentKeeps ==
  ASSUME ConnInv, UNCHANGED <<phase, result, refused, nextReg, held>>,
         open' \subseteq open, agents' \subseteq agents, tokenRevoked' \in BOOLEAN
  PROVE  ConnInv'
  <1> USE DEF ConnInv
  <1>1. ConnTypeOK'
    BY Zenon DEF ConnTypeOK
  <1>2. PermitCoversConnection'
    BY Zenon DEF PermitCoversConnection
  <1>3. IdsRemembered'
    BY Zenon DEF IdsRemembered
  <1> QED
    BY Zenon, <1>1, <1>2, <1>3

(* A step of a connection's task: one case per action of TaskStep.         *)
LEMMA TaskStepKeeps ==
  ASSUME ConnInv, NEW c \in Conn, TaskStep(c)
  PROVE  ConnInv'
  <1> USE DEF Phase
  <1>0. refused \subseteq Conn /\ ConnTypeOK
    BY Zenon DEF ConnInv, ConnTypeOK
  <1>1. CASE AckWritten(c)
    BY Zenon, <1>0, <1>1, TaskMoves DEF AckWritten
  <1>2. CASE AckFails(c)
    BY Zenon, <1>0, <1>2, TaskMoves DEF AckFails
  <1>3. CASE FirstRefused(c)
    BY Zenon, <1>0, <1>3, TaskMoves DEF FirstRefused
  <1>4. CASE FirstServed(c)
    BY Zenon, <1>0, <1>4, TaskMoves DEF FirstServed
  <1>5. CASE FirstFails(c)
    BY Zenon, <1>0, <1>5, TaskMoves DEF FirstFails
  <1>6. CASE LoopAck(c)
    BY Zenon, <1>0, <1>6, TaskMoves DEF LoopAck
  <1>7. CASE LoopEnds(c)
    BY Zenon, <1>0, <1>7, TaskMoves DEF LoopEnds
  <1>8. CASE CloseFailed(c)
    BY Zenon, <1>0, <1>8, TaskMoves DEF CloseFailed
  <1>9. CASE Finish(c)
    BY Zenon, <1>9, FinishKeeps
  <1>10. ASSUME NEW repins \in BOOLEAN, FirstRegister(c, repins)
         PROVE  ConnInv'
    BY Zenon, <1>10, RegistrationKeeps DEF FirstRegister
  <1>11. ASSUME NEW repins \in BOOLEAN, LoopRegister(c, repins)
         PROVE  ConnInv'
    BY Zenon, <1>11, RegistrationKeeps DEF LoopRegister
  <1> QED
    BY Zenon, <1>1, <1>2, <1>3, <1>4, <1>5, <1>6, <1>7, <1>8, <1>9, <1>10, <1>11
       DEF TaskStep

(* Every step of the Edge keeps the invariant.                             *)
LEMMA ConnStep == ConnInv /\ [ConnNext]_connVars => ConnInv'
  <1> SUFFICES ASSUME ConnInv, [ConnNext]_connVars PROVE ConnInv'
    OBVIOUS
  <1>0. tokenRevoked \in BOOLEAN
    BY Zenon DEF ConnInv, ConnTypeOK
  <1>1. ASSUME NEW c \in Conn, Accept(c) PROVE ConnInv'
    BY Zenon, <1>1, AcceptKeeps
  <1>2. ASSUME NEW c \in Conn, TaskStep(c) PROVE ConnInv'
    BY Zenon, <1>2, TaskStepKeeps
  <1>3. ASSUME NEW c \in Conn, PeerCloses(c) PROVE ConnInv'
    <2>1. /\ open' \subseteq open /\ agents' \subseteq agents
          /\ UNCHANGED <<phase, result, refused, nextReg, held, tokenRevoked>>
      BY Zenon, <1>3 DEF PeerCloses
    <2> QED
      BY Zenon, <1>0, <2>1, EnvironmentKeeps
  <1>4. CASE Revoke
    <2>1. /\ open' \subseteq open /\ agents' \subseteq agents
          /\ UNCHANGED <<phase, result, refused, nextReg, held>>
      BY Zenon, <1>4 DEF Revoke
    <2>2. tokenRevoked' \in BOOLEAN
      BY Zenon, <1>4 DEF Revoke
    <2> QED
      BY Zenon, <2>1, <2>2, EnvironmentKeeps
  <1>5. CASE UNCHANGED connVars
    <2>1. /\ open' \subseteq open /\ agents' \subseteq agents
          /\ UNCHANGED <<phase, result, refused, nextReg, held, tokenRevoked>>
      BY Zenon, <1>5 DEF connVars
    <2> QED
      BY Zenon, <1>0, <2>1, EnvironmentKeeps
  <1> QED
    BY Zenon, <1>1, <1>2, <1>3, <1>4, <1>5 DEF ConnNext

LEMMA ConnInvariant == ConnSpec => []ConnInv
  BY PTL, ConnInitInv, ConnStep DEF ConnSpec

(* run_edge never serves more connections than conn_cap allows: a permit   *)
(* is held exactly while a task runs, and no connection outlives it.       *)
THEOREM PermitsCoverConnections == ConnSpec => []PermitCoversConnection
  <1>1. ConnInv => PermitCoversConnection
    BY Zenon DEF ConnInv
  <1> QED
    BY PTL, <1>1, ConnInvariant

(* #8: the eviction at the end of serve_agent_connection's task takes away *)
(* only what that connection registered.                                   *)
THEOREM OthersStayUp == ConnSpec => OthersUndisturbed
  <1>1. ConnInv /\ [ConnNext]_connVars
          => [\A e \in agents : e \notin agents' => e.conn \notin open' \/ tokenRevoked']_connVars
    <2> SUFFICES ASSUME ConnInv, ConnNext, NEW e \in agents, e \notin agents'
                 PROVE  e.conn \notin open' \/ tokenRevoked'
      BY Zenon
    <2>1. CASE Revoke
      BY Zenon, <2>1 DEF Revoke
    <2>2. ASSUME NEW c \in Conn, Finish(c) PROVE e.conn \notin open'
      BY Zenon, <2>2 DEF Finish, ConnInv, IdsRemembered
    <2>3. ASSUME NEW c \in Conn, NEW repins \in BOOLEAN, RegisterOn(c, repins)
          PROVE  e.conn \notin open'
      BY Zenon, <2>3 DEF RegisterOn
    <2> QED
      BY Zenon, <2>1, <2>2, <2>3
         DEF ConnNext, TaskStep, Accept, AckWritten, AckFails, FirstRefused, FirstServed,
             FirstFails, LoopAck, LoopEnds, CloseFailed, PeerCloses, FirstRegister, LoopRegister
  <1> QED
    BY PTL, <1>1, ConnInvariant DEF ConnSpec, OthersUndisturbed

=============================================================================
