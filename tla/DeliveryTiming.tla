-------------------------- MODULE DeliveryTiming ---------------------------
(***************************************************************************)
(* A slow consumer never fails the session: on a path that keeps up, the   *)
(* watchdog of delivery.rs:763-794 does not give up, for any idle timeout  *)
(* and any patience of the local sides with Patience + Every < Idle.       *)
(***************************************************************************)
EXTENDS DeliveryProofs

(* A record tagged tag waits for room on the path.                         *)
Putting(s, tag) == writing[s].phase = "put" /\ writing[s].rec.tag = tag

(* The end of s's stream is about to go out, on the path or taken by p.    *)
FinUnderWay(s, p) ==
    /\ Carries /\ Listens(p) /\ finSent[s] =>
          Putting(s, "FIN") \/ HasFin(wire[s]) \/ Closed(p)
    /\ Putting(s, "FIN") => localOpen[s]

(* So is the FIN_ACK p owes s; and p flushes only one.                     *)
AckUnderWay(s, p) ==
    /\ Carries /\ Running(s) /\ Running(p) /\ theirFin[p] =>
          \/ Has(toOutbound[p], "ACK") \/ Putting(p, "FIN_ACK")
          \/ Has(wire[p], "FIN_ACK") \/ confirmed[s]
    /\ finAckOut[p] => theirFin[p] /\ ~Has(toOutbound[p], "ACK") /\ ~Writing(p, "FIN_ACK")

AbortUnderWay(p) == Running(p) /\ delivering[p] = "aborting" => Has(toOutbound[p], "ABORT")

(* p reports no more than it has delivered.                                *)
ReportInv(p) ==
    /\ reported[p] <= received[p]
    /\ Writing(p, "PROGRESS") => writing[p].rec.n <= received[p]

(* How long p may have left its peer without a record: until the next      *)
(* PROGRESS tick once there is something to report, and before that for as *)
(* long as the delivery in hand takes.                                     *)
Silence(p) == IF received[p] > reported[p] THEN Patience + Every - due[p] ELSE stall[p]

(* The clock of a waiting side s: its own delivery, or the silence of p.   *)
Clocks(s, p) ==
    path = "up" /\ Waiting(s) =>
        /\ delivering[s] # "no" => quiet[s] <= stall[s]
        /\ delivering[s] = "no" =>
            /\ quiet[s] <= Patience + Every
            /\ wire[p] = <<>> /\ writing[p] # Nothing => quiet[s] = 0
            /\ wire[p] = <<>> /\ Listens(p) /\ ~theirFin[p] => quiet[s] <= Silence(p)

TimingPair(s, p) ==
    /\ FinUnderWay(s, p) /\ AckUnderWay(s, p) /\ AbortUnderWay(p) /\ ReportInv(p)
    /\ Clocks(s, p)

TimingInv == NoFalseTimeout /\ \A s, p \in Side : s # p => TimingPair(s, p)

-----------------------------------------------------------------------------
(* What a path or a queue still has behind one more entry.                 *)
LEMMA KeptByAppend ==
    ASSUME NEW S, NEW q \in Seq(S), NEW r \in S
    PROVE  /\ Append(q, r) # <<>>
           /\ \A tag : Has(Append(q, r), tag) <=> (Has(q, tag) \/ r.tag = tag)
           /\ HasFin(Append(q, r)) <=> (HasFin(q) \/ (r.tag = "FIN" /\ r.normal))
  <1>. DEFINE p == Append(q, r)
  <1>1. /\ p # <<>> /\ Len(p) = Len(q) + 1 /\ p[Len(q) + 1] = r
        /\ Len(q) \in Nat /\ \A i \in 1..Len(q) : p[i] = q[i]
    OBVIOUS
  <1>. HIDE DEF p
  <1>2. 1..Len(p) = 1..Len(q) \cup {Len(q) + 1}
    BY <1>1
  <1>3. \A tag : Has(p, tag) <=> (Has(q, tag) \/ r.tag = tag)
    BY Zenon, <1>1, <1>2 DEF Has
  <1>4. HasFin(p) <=> (HasFin(q) \/ (r.tag = "FIN" /\ r.normal))
    BY Zenon, <1>1, <1>2 DEF HasFin
  <1>. QED  BY Zenon, <1>1, <1>3, <1>4 DEF p

(* What a path or a queue still has once its head is taken.                *)
LEMMA KeptByTail ==
    ASSUME NEW S, NEW q \in Seq(S), q # <<>>
    PROVE  /\ \A tag : Has(q, tag) <=> (Has(Tail(q), tag) \/ Head(q).tag = tag)
           /\ HasFin(q) => HasFin(Tail(q)) \/ (Head(q).tag = "FIN" /\ Head(q).normal)
  <1>. DEFINE p == Tail(q)
  <1>1. /\ Len(q) \in Nat \ {0} /\ Len(p) = Len(q) - 1 /\ Head(q) = q[1]
    OBVIOUS
  <1>2. \A i \in 1..Len(p) : p[i] = q[i + 1]
    OBVIOUS
  <1>. HIDE DEF p
  <1>3. 1 \in 1..Len(q) /\ \A i \in 1..Len(p) : i + 1 \in 1..Len(q)
    BY <1>1
  <1>4. \A i \in 1..Len(q) : i = 1 \/ (i - 1 \in 1..Len(p) /\ (i - 1) + 1 = i)
    BY <1>1
  <1>5. \A i \in 1..Len(q) : i = 1 \/ (i - 1 \in 1..Len(p) /\ p[i - 1] = q[i])
    BY Zenon, <1>2, <1>4
  <1>6. \A tag : Has(q, tag) <=> (Has(p, tag) \/ Head(q).tag = tag)
    BY Zenon, <1>1, <1>2, <1>3, <1>5 DEF Has
  <1>7. HasFin(q) => HasFin(p) \/ (Head(q).tag = "FIN" /\ Head(q).normal)
    BY Zenon, <1>1, <1>5 DEF HasFin
  <1>. QED  BY Zenon, <1>6, <1>7 DEF p

(* The clocks of a session are in their ranges.                            *)
LEMMA ClockTypes ==
    ASSUME TypeOK, NEW x \in Side
    PROVE  /\ Every \in Nat \ {0} /\ Idle \in Nat /\ Patience \in Nat /\ Patience + Every < Idle
           /\ quiet[x] \in Nat /\ quiet[x] <= Idle /\ stall[x] \in Nat /\ stall[x] <= Patience
           /\ due[x] \in Nat /\ due[x] <= Every /\ received[x] \in Nat /\ reported[x] \in Nat
           /\ Silence(x) \in Nat /\ Silence(x) <= Patience + Every
  <1>1. Every \in Nat \ {0} /\ Idle \in Nat /\ Patience \in Nat /\ Patience + Every < Idle
    BY DeliveryAssumption DEF DeliveryAssumption, Every
  <1>2. /\ quiet[x] \in 0..Idle /\ stall[x] \in 0..Patience /\ due[x] \in 0..Every
        /\ received[x] \in Nat /\ reported[x] \in Nat
    BY Zenon DEF TypeOK
  <1>3. Silence(x) \in Nat /\ Silence(x) <= Patience + Every
    BY <1>1, <1>2 DEF Silence
  <1>. QED  BY <1>1, <1>2, <1>3

(* A record read, a delivery or a flushed FIN restarts the wait: with its  *)
(* clock at zero a side is never late.                                     *)
LEMMA ClocksZero ==
    ASSUME TypeOK', NEW s \in Side, NEW p \in Side, quiet'[s] = 0
    PROVE  Clocks(s, p)'
  <1>1. Every \in Nat \ {0} /\ Patience \in Nat
    BY DeliveryAssumption DEF DeliveryAssumption, Every
  <1>2. stall'[s] \in 0..Patience /\ stall'[p] \in 0..Patience /\ due'[p] \in 0..Every
    BY Zenon DEF TypeOK
  <1>3. 0 <= stall'[s] /\ 0 <= Patience + Every /\ 0 <= Silence(p)'
    BY <1>1, <1>2 DEF Silence
  <1>. QED  BY Zenon, <1>3 DEF Clocks

(* On a path that carries records a write leaves one there.                *)
LEMMA WritesShows ==
    ASSUME TypeOK, NEW s \in Side, NEW r \in Record, Writes(s, r), Carries, Running(Peer(s))
    PROVE  wire'[s] # <<>>
  <1>1. wire[s] \in Seq(Record) /\ wire \in [Side -> Seq(Record)]
    BY Zenon DEF TypeOK
  <1>2. CASE Room(s)
    <2>1. wire'[s] = Append(wire[s], r)
      BY Zenon, <1>1, <1>2 DEF Writes, With
    <2>. QED  BY Zenon, <1>1, <2>1, KeptByAppend
  <1>3. CASE ~Room(s)
    <2>1. wire' = wire /\ ~(Len(wire[s]) < Capacity)
      BY Zenon, <1>3 DEF Writes, Room
    <2>2. wire[s] # <<>>
      BY <1>1, <2>1, DeliveryAssumption DEF DeliveryAssumption
    <2>. QED  BY Zenon, <2>1, <2>2
  <1>. QED  BY Zenon, <1>2, <1>3

(* The two pairs of a session, whichever side acts.                        *)
LEMMA TimingUnpacked ==
    ASSUME Inv, TimingInv, NEW x \in Side, NEW y \in Side, x # y
    PROVE  /\ FinUnderWay(x, y) /\ AckUnderWay(x, y) /\ AbortUnderWay(y) /\ ReportInv(y)
           /\ Clocks(x, y) /\ Peer(x) = y /\ Peer(y) = x /\ Side = {x, y} /\ TypeOK
  <1>1. Peer(x) = y /\ Peer(y) = x /\ Side = {x, y}
    BY Zenon, PeerFacts
  <1>. QED  BY Zenon, <1>1 DEF Inv, TimingInv, TimingPair

(* A write keeps the records under way and shows the peer a record.        *)
LEMMA WriteTiming ==
    ASSUME Inv, TypeOK', TimingInv, NEW s \in Side, NEW r \in Record, Writes(s, r),
           writing[s] = Nothing \/ writing[s] = Put(r),
           r.tag = "FIN" => r.normal /\ localOpen[s],
           r.tag = "FIN_ACK" => ~finAckOut[s],
           r.tag = "PROGRESS" => r.n <= received[s],
           \A x \in Side : finSent'[x] => finSent[x] \/ (x = s /\ r.tag = "FIN"),
           toOutbound'[Peer(s)] = toOutbound[Peer(s)],
           \A tag : Has(toOutbound'[s], tag) => Has(toOutbound[s], tag),
           Has(toOutbound[s], "ACK") => Has(toOutbound'[s], "ACK") \/ r.tag = "FIN_ACK",
           Has(toOutbound[s], "ABORT") => Has(toOutbound'[s], "ABORT"),
           due'[Peer(s)] = due[Peer(s)],
           localOpen' = localOpen, finAckOut' = finAckOut, reported' = reported,
           received' = received, theirFin' = theirFin, confirmed' = confirmed,
           delivering' = delivering, stall' = stall, quiet' = quiet,
           outcome' = outcome, path' = path
    PROVE  TimingInv'
  <1>1. NoFalseTimeout'
    BY Zenon DEF TimingInv, NoFalseTimeout
  <1>2. ASSUME NEW x \in Side, NEW y \in Side, x # y
        PROVE  TimingPair(x, y)'
    <2>1. /\ FinUnderWay(x, y) /\ AckUnderWay(x, y) /\ AbortUnderWay(y) /\ ReportInv(y)
          /\ Clocks(x, y) /\ Peer(x) = y /\ Peer(y) = x /\ Side = {x, y} /\ TypeOK
      BY Zenon, <1>2, TimingUnpacked
    <2>2. FinInv(x)
      BY Zenon, <1>2, Unpacked
    <2>3. CASE s = x
      <3>1. /\ wire'[y] = wire[y] /\ writing'[y] = writing[y]
            /\ \/ /\ Carries /\ Running(y) /\ wire'[x] = Append(wire[x], r)
                  /\ writing'[x] = Flush(r)
               \/ ~(Carries /\ Running(y)) /\ wire'[x] = wire[x] /\ writing'[x] = Flush(r)
               \/ wire'[x] = wire[x] /\ writing'[x] = Put(r)
        BY Zenon, <1>2, <2>1, <2>3, WriteCases
      <3>2. /\ toOutbound'[y] = toOutbound[y] /\ due'[y] = due[y]
            /\ Carries' = Carries /\ Running(x)' = Running(x) /\ Running(y)' = Running(y)
            /\ Listens(y)' = Listens(y) /\ Closed(y)' = Closed(y)
        BY Zenon, <2>1, <2>3 DEF Carries, Running, Listens, Closed
      <3>3. FinUnderWay(x, y)'
        <4>0. Putting(x, "FIN")' => localOpen'[x]
          BY <2>3, <3>1 DEF Putting, Put, Flush
        <4>1. SUFFICES ASSUME Carries, Running(y), Listens(y), finSent'[x]
                       PROVE  Putting(x, "FIN")' \/ HasFin(wire'[x]) \/ Closed(y)
          BY Zenon, <3>2, <4>0 DEF FinUnderWay, Listens
        <4>2. r.tag = "FIN" \/ HasFin(wire[x]) \/ Closed(y)
          <5>1. Putting(x, "FIN") => r.tag = "FIN"
            BY <2>3 DEF Putting, Put, Nothing
          <5>. QED  BY Zenon, <2>1, <2>3, <4>1, <5>1 DEF FinUnderWay
        <4>3. CASE wire'[x] = Append(wire[x], r)
          <5>1. wire[x] \in Seq(Record)
            BY Zenon, <2>1 DEF TypeOK
          <5>2. HasFin(Append(wire[x], r)) <=> (HasFin(wire[x]) \/ (r.tag = "FIN" /\ r.normal))
            BY Zenon, <5>1, KeptByAppend
          <5>. QED  BY Zenon, <4>2, <4>3, <5>2
        <4>4. CASE wire'[x] = wire[x] /\ writing'[x] = Put(r)
          <5>1. writing'[x].phase = "put" /\ writing'[x].rec = r
            BY <4>4 DEF Put
          <5>. QED  BY Zenon, <4>2, <4>4, <5>1 DEF Putting
        <4>. QED  BY Zenon, <3>1, <4>1, <4>3, <4>4
      <3>4. AckUnderWay(x, y)' /\ AbortUnderWay(y)' /\ ReportInv(y)'
        BY Zenon, <2>1, <3>1, <3>2 DEF AckUnderWay, AbortUnderWay, ReportInv, Putting, Writing
      <3>5. Waiting(x)' => Waiting(x)
        BY Zenon, <2>2 DEF Waiting, Running, FinInv
      <3>6. Clocks(x, y)'
        BY Zenon, <2>1, <3>1, <3>2, <3>5 DEF Clocks, Silence
      <3>. QED  BY Zenon, <3>3, <3>4, <3>6 DEF TimingPair
    <2>4. CASE s = y
      <3>1. /\ wire'[x] = wire[x] /\ writing'[x] = writing[x]
            /\ \/ /\ Carries /\ Running(x) /\ wire'[y] = Append(wire[y], r)
                  /\ writing'[y] = Flush(r)
               \/ ~(Carries /\ Running(x)) /\ wire'[y] = wire[y] /\ writing'[y] = Flush(r)
               \/ wire'[y] = wire[y] /\ writing'[y] = Put(r)
        BY Zenon, <1>2, <2>1, <2>4, WriteCases
      <3>2. /\ finSent'[x] => finSent[x]
            /\ Carries' = Carries /\ Running(x)' = Running(x) /\ Running(y)' = Running(y)
            /\ Listens(y)' = Listens(y) /\ Closed(y)' = Closed(y)
        BY Zenon, <1>2, <2>4 DEF Carries, Running, Listens, Closed
      <3>3. /\ writing'[y].rec = r /\ writing'[y].phase # "none"
            /\ writing'[y] = Put(r) => writing'[y].phase = "put"
            /\ \A tag : Putting(y, tag) => r.tag = tag
            /\ \A tag : Writing(y, tag)' => r.tag = tag
        BY <2>4, <3>1 DEF Put, Flush, Nothing, Putting, Writing
      <3>4. FinUnderWay(x, y)' /\ AbortUnderWay(y)'
        BY Zenon, <2>1, <2>4, <3>1, <3>2 DEF FinUnderWay, AbortUnderWay, Putting
      <3>5. ReportInv(y)'
        BY Zenon, <2>1, <2>4, <3>3 DEF ReportInv
      <3>6. AckUnderWay(x, y)'
        <4>1. finAckOut'[y] => theirFin'[y] /\ ~Has(toOutbound'[y], "ACK") /\ ~Writing(y, "FIN_ACK")'
          BY Zenon, <2>1, <2>4, <3>3 DEF AckUnderWay
        <4>2. ASSUME Carries, Running(x), Running(y), theirFin[y]
              PROVE  \/ Has(toOutbound'[y], "ACK") \/ Putting(y, "FIN_ACK")'
                     \/ Has(wire'[y], "FIN_ACK") \/ confirmed[x]
          <5>1. Has(toOutbound'[y], "ACK") \/ r.tag = "FIN_ACK" \/ Has(wire[y], "FIN_ACK") \/ confirmed[x]
            BY Zenon, <2>1, <2>4, <3>3, <4>2 DEF AckUnderWay
          <5>2. CASE wire'[y] = Append(wire[y], r)
            <6>1. wire[y] \in Seq(Record)
              BY Zenon, <2>1 DEF TypeOK
            <6>2. Has(Append(wire[y], r), "FIN_ACK") <=> (Has(wire[y], "FIN_ACK") \/ r.tag = "FIN_ACK")
              BY Zenon, <6>1, KeptByAppend
            <6>. QED  BY Zenon, <5>1, <5>2, <6>2
          <5>3. CASE wire'[y] = wire[y] /\ writing'[y] = Put(r)
            BY Zenon, <3>3, <5>1, <5>3 DEF Putting
          <5>. QED  BY Zenon, <3>1, <4>2, <5>2, <5>3
        <4>. QED  BY Zenon, <3>2, <4>1, <4>2 DEF AckUnderWay
      <3>7. Clocks(x, y)'
        <4>1. SUFFICES ASSUME path' = "up", Waiting(x)'
                       PROVE  Clocks(x, y)'
          BY Zenon DEF Clocks
        <4>2. Waiting(x) /\ Carries /\ Running(x)
          BY Zenon, <3>2, <4>1 DEF Waiting, Carries
        <4>3. wire'[y] # <<>>
          BY Zenon, <2>1, <2>4, <4>2, WritesShows
        <4>. QED  BY Zenon, <2>1, <4>1, <4>2, <4>3 DEF Clocks
      <3>. QED  BY Zenon, <3>4, <3>5, <3>6, <3>7 DEF TimingPair
    <2>. QED  BY Zenon, <2>1, <2>3, <2>4
  <1>. QED  BY Zenon, <1>1, <1>2 DEF TimingInv

(* The flush returned: the peer may have read the record already, and has  *)
(* not waited since.                                                       *)
LEMMA WriteDoneTiming ==
    ASSUME Inv, TypeOK', TimingInv, NEW s \in Side, WriteDone(s)
    PROVE  TimingInv'
  <1>1. NoFalseTimeout'
    BY Zenon DEF TimingInv, NoFalseTimeout, WriteDone
  <1>2. /\ finSent' = finSent /\ due' = due /\ toOutbound' = toOutbound /\ outcome' = outcome
        /\ wire' = wire /\ path' = path /\ received' = received /\ theirFin' = theirFin
        /\ confirmed' = confirmed /\ delivering' = delivering /\ stall' = stall
    BY Zenon DEF WriteDone, inVars
  <1>3. /\ writing'[s] = Nothing /\ writing[s].phase = "flush"
        /\ localOpen'[s] = (localOpen[s] /\ writing[s].rec.tag # "FIN")
        /\ quiet'[s] = (IF writing[s].rec.tag = "FIN" THEN 0 ELSE quiet[s])
        /\ finAckOut'[s] = (finAckOut[s] \/ writing[s].rec.tag = "FIN_ACK")
        /\ reported'[s] = (IF writing[s].rec.tag = "PROGRESS" THEN writing[s].rec.n ELSE reported[s])
        /\ \A z \in Side \ {s} : /\ writing'[z] = writing[z] /\ localOpen'[z] = localOpen[z]
                                 /\ quiet'[z] = quiet[z] /\ finAckOut'[z] = finAckOut[z]
                                 /\ reported'[z] = reported[z]
    <2>1. /\ DOMAIN writing = Side /\ DOMAIN localOpen = Side /\ DOMAIN quiet = Side
          /\ DOMAIN finAckOut = Side /\ DOMAIN reported = Side
      BY Zenon DEF Inv, TypeOK
    <2>. QED  BY Zenon, <2>1 DEF WriteDone
  <1>4. /\ ~Writing(s, "FIN_ACK")' /\ ~Writing(s, "PROGRESS")'
        /\ \A tag : ~Putting(s, tag) /\ ~Putting(s, tag)'
    BY <1>3 DEF Writing, Nothing, Putting
  <1>5. ASSUME NEW x \in Side, NEW y \in Side, x # y
        PROVE  TimingPair(x, y)'
    <2>1. /\ FinUnderWay(x, y) /\ AckUnderWay(x, y) /\ AbortUnderWay(y) /\ ReportInv(y)
          /\ Clocks(x, y) /\ Peer(x) = y /\ Peer(y) = x /\ Side = {x, y} /\ TypeOK
      BY Zenon, <1>5, TimingUnpacked
    <2>2. FinInv(y) /\ AckInv(x, y)
      BY Zenon, <1>5, Unpacked
    <2>3. /\ Carries' = Carries /\ Running(x)' = Running(x) /\ Running(y)' = Running(y)
          /\ Listens(y)' = Listens(y) /\ Closed(y)' = Closed(y)
      BY Zenon, <1>2 DEF Carries, Running, Listens, Closed
    <2>4. AbortUnderWay(y)'
      BY Zenon, <1>2, <2>1, <2>3 DEF AbortUnderWay
    <2>5. CASE s = x
      <3>1. /\ writing'[y] = writing[y] /\ quiet'[y] = quiet[y]
            /\ finAckOut'[y] = finAckOut[y] /\ reported'[y] = reported[y]
        BY Zenon, <1>3, <1>5, <2>5
      <3>2. FinUnderWay(x, y)'
        BY Zenon, <1>2, <1>4, <2>1, <2>3, <2>5 DEF FinUnderWay
      <3>3. AckUnderWay(x, y)' /\ ReportInv(y)'
        BY Zenon, <1>2, <2>1, <2>3, <3>1 DEF AckUnderWay, ReportInv, Putting, Writing
      <3>4. Clocks(x, y)'
        <4>1. CASE writing[x].rec.tag = "FIN"
          <5>1. quiet'[x] = 0
            BY Zenon, <1>3, <2>5, <4>1
          <5>. QED  BY Zenon, <5>1, ClocksZero
        <4>2. CASE writing[x].rec.tag # "FIN"
          <5>1. quiet'[x] = quiet[x] /\ (Waiting(x)' => Waiting(x))
            BY Zenon, <1>2, <1>3, <2>3, <2>5, <4>2 DEF Waiting
          <5>. QED  BY Zenon, <1>2, <2>1, <2>3, <3>1, <5>1 DEF Clocks, Silence
        <4>. QED  BY Zenon, <4>1, <4>2
      <3>. QED  BY Zenon, <2>4, <3>2, <3>3, <3>4 DEF TimingPair
    <2>6. CASE s = y
      <3>1. /\ writing'[x] = writing[x] /\ quiet'[x] = quiet[x] /\ localOpen'[x] = localOpen[x]
        BY Zenon, <1>3, <1>5, <2>6
      <3>2. FinUnderWay(x, y)'
        BY Zenon, <1>2, <2>1, <2>3, <3>1 DEF FinUnderWay, Putting
      <3>3. AckUnderWay(x, y)'
        <4>1. Writing(y, "FIN_ACK") => theirFin[y] /\ ~Has(toOutbound[y], "ACK")
          BY Zenon, <2>2 DEF FinInv, AckInv
        <4>2. writing[y].rec.tag = "FIN_ACK" => Writing(y, "FIN_ACK")
          BY Zenon, <1>3, <2>6 DEF Writing
        <4>3. finAckOut'[y] => theirFin'[y] /\ ~Has(toOutbound'[y], "ACK") /\ ~Writing(y, "FIN_ACK")'
          BY Zenon, <1>2, <1>3, <1>4, <2>1, <2>6, <4>1, <4>2 DEF AckUnderWay
        <4>. QED  BY Zenon, <1>2, <1>4, <2>1, <2>3, <2>6, <4>3 DEF AckUnderWay
      <3>4. ReportInv(y)'
        <4>1. writing[y].rec.tag = "PROGRESS" => Writing(y, "PROGRESS")
          BY Zenon, <1>3, <2>6 DEF Writing
        <4>. QED  BY Zenon, <1>2, <1>3, <1>4, <2>1, <2>6, <4>1 DEF ReportInv
      <3>5. Clocks(x, y)'
        <4>1. writing[y] # Nothing
          BY <1>3, <2>6 DEF Nothing
        <4>2. CASE path = "up" /\ Waiting(x) /\ delivering[x] = "no" /\ wire[y] = <<>>
          <5>1. quiet'[x] = 0
            BY Zenon, <2>1, <3>1, <4>1, <4>2 DEF Clocks
          <5>. QED  BY Zenon, <5>1, ClocksZero
        <4>3. CASE ~(path = "up" /\ Waiting(x) /\ delivering[x] = "no" /\ wire[y] = <<>>)
          <5>1. Waiting(x)' = Waiting(x)
            BY Zenon, <1>2, <2>3, <3>1 DEF Waiting
          <5>. QED  BY Zenon, <1>2, <2>1, <3>1, <4>3, <5>1 DEF Clocks
        <4>. QED  BY Zenon, <4>2, <4>3
      <3>. QED  BY Zenon, <2>4, <3>2, <3>3, <3>4, <3>5 DEF TimingPair
    <2>. QED  BY Zenon, <2>1, <2>5, <2>6
  <1>. QED  BY Zenon, <1>1, <1>5 DEF TimingInv

(* A pump that returns: its peer keeps its clock and what is on its path.  *)
LEMMA EndsTiming ==
    ASSUME Inv, TypeOK', TimingInv, NEW s \in Side, NEW o \in {"ok"} \cup Errors, Ends(s, o),
           o = "AckTimeout" => path # "up", NEW r \in Record,
           wire' = Unread(s, wire) \/ wire' = Unread(s, With(s, r))
    PROVE  TimingInv'
  <1>1. NoFalseTimeout'
    <2>1. /\ path' = path /\ outcome'[s] = o
          /\ \A z \in Side \ {s} : outcome'[z] = outcome[z]
      <3>1. DOMAIN outcome = Side
        BY Zenon DEF Inv, TypeOK
      <3>. QED  BY Zenon, <3>1 DEF Ends
    <2>. QED  BY Zenon, <2>1 DEF TimingInv, NoFalseTimeout
  <1>2. wire'[s] \in {wire[s], Append(wire[s], r)} /\ wire[s] \in Seq(Record)
    <2>1. With(s, r)[s] \in {wire[s], Append(wire[s], r)}
          /\ With(s, r) \in [Side -> Seq(Record)]
      BY SMTT(30) DEF Inv, TypeOK, With
    <2>2. wire \in [Side -> Seq(Record)]
      BY Zenon DEF Inv, TypeOK
    <2>. QED  BY Zenon, <2>1, <2>2, PeerFacts DEF Unread
  <1>3. (wire'[s] = <<>> => wire[s] = <<>>) /\ (HasFin(wire[s]) => HasFin(wire'[s]))
    <2>1. Append(wire[s], r) # <<>> /\ (HasFin(wire[s]) => HasFin(Append(wire[s], r)))
      BY Zenon, <1>2, KeptByAppend
    <2>. QED  BY Zenon, <1>2, <2>1
  <1>4. /\ finSent' = finSent /\ finAckOut' = finAckOut /\ localOpen' = localOpen
        /\ reported' = reported /\ writing' = writing /\ path' = path
        /\ received' = received /\ theirFin' = theirFin /\ confirmed' = confirmed
        /\ toOutbound'[s] = <<>> /\ ~Running(s)'
        /\ \A z \in Side \ {s} : /\ delivering'[z] = delivering[z] /\ quiet'[z] = quiet[z]
                                 /\ stall'[z] = stall[z] /\ toOutbound'[z] = toOutbound[z]
                                 /\ due'[z] = due[z] /\ Running(z)' = Running(z)
    <2>1. /\ DOMAIN delivering = Side /\ DOMAIN quiet = Side /\ DOMAIN stall = Side
          /\ DOMAIN toOutbound = Side /\ DOMAIN due = Side /\ DOMAIN outcome = Side
      BY Zenon DEF Inv, TypeOK
    <2>2. o # "open"
      BY Zenon DEF Errors
    <2>. QED  BY Zenon, <2>1, <2>2 DEF Ends, Running
  <1>5. ASSUME NEW x \in Side, NEW y \in Side, x # y
        PROVE  TimingPair(x, y)'
    <2>1. /\ FinUnderWay(x, y) /\ AckUnderWay(x, y) /\ AbortUnderWay(y) /\ ReportInv(y)
          /\ Clocks(x, y) /\ Peer(x) = y /\ Peer(y) = x /\ Side = {x, y} /\ TypeOK
      BY Zenon, <1>5, TimingUnpacked
    <2>2. ReportInv(y)' /\ Carries' = Carries
      BY Zenon, <1>4, <2>1 DEF ReportInv, Writing, Carries
    <2>3. CASE s = x
      <3>1. /\ delivering'[y] = delivering[y] /\ toOutbound'[y] = toOutbound[y]
            /\ Running(y)' = Running(y) /\ Listens(y)' = Listens(y) /\ Closed(y)' = Closed(y)
        BY Zenon, <1>4, <1>5, <2>3 DEF Listens, Closed
      <3>2. FinUnderWay(x, y)' /\ AckUnderWay(x, y)' /\ AbortUnderWay(y)'
        BY Zenon, <1>3, <1>4, <2>1, <2>2, <2>3, <3>1
        DEF FinUnderWay, AckUnderWay, AbortUnderWay, Putting, Writing
      <3>3. Clocks(x, y)'
        BY Zenon, <1>4, <2>3 DEF Clocks, Waiting
      <3>. QED  BY Zenon, <2>2, <3>2, <3>3 DEF TimingPair
    <2>4. CASE s = y
      <3>1. ~Listens(y)' /\ ~Running(y)' /\ ~Has(toOutbound'[y], "ACK")
        BY Zenon, <1>4, <2>4, HasEmpty DEF Listens
      <3>2. FinUnderWay(x, y)' /\ AckUnderWay(x, y)' /\ AbortUnderWay(y)'
        BY Zenon, <1>4, <2>1, <3>1 DEF FinUnderWay, AckUnderWay, AbortUnderWay, Writing, Putting
      <3>3. delivering'[x] = delivering[x] /\ quiet'[x] = quiet[x] /\ stall'[x] = stall[x]
            /\ Waiting(x)' = Waiting(x)
        BY Zenon, <1>4, <1>5, <2>4 DEF Waiting
      <3>4. Clocks(x, y)'
        BY Zenon, <1>3, <1>4, <2>1, <2>4, <3>1, <3>3 DEF Clocks
      <3>. QED  BY Zenon, <2>2, <3>2, <3>4 DEF TimingPair
    <2>. QED  BY Zenon, <2>1, <2>3, <2>4
  <1>. QED  BY Zenon, <1>1, <1>5 DEF TimingInv

(* A record is read: the reader's wait starts again.                       *)
LEMMA AcceptTiming ==
    ASSUME Inv, TypeOK', TimingInv, NEW s \in Side, Readable(s),
           Verdict(s, Head(wire[Peer(s)])) = "open", Accept(s, Head(wire[Peer(s)]))
    PROVE  TimingInv'
  <1>. DEFINE q == wire[Peer(s)]
              r == Head(wire[Peer(s)])
  <1>1. NoFalseTimeout'
    BY Zenon DEF TimingInv, NoFalseTimeout, Accept
  <1>2. /\ q \in Seq(Record) /\ q # <<>> /\ r \in Record /\ r = Head(q)
    BY Zenon, PeerFacts, HeadFacts
  <1>3. r.tag = "FIN" => r.normal
    <2>1. r.tag = "FIN" /\ ~r.normal => Verdict(s, r) = "PeerEnded"
      BY Zenon DEF Verdict
    <2>. QED  BY Zenon, <2>1
  <1>4. /\ finSent' = finSent /\ finAckOut' = finAckOut /\ localOpen' = localOpen
        /\ reported' = reported /\ writing' = writing /\ path' = path /\ due' = due
        /\ received' = received /\ theirFin' = theirFin /\ stall' = stall
        /\ toOutbound' = toOutbound /\ outcome' = outcome
        /\ wire'[Peer(s)] = Tail(q) /\ wire'[s] = wire[s] /\ quiet'[s] = 0
        /\ delivering[s] = "no" /\ delivering'[s] # "aborting"
        /\ r.tag = "FIN" => delivering'[s] = "end"
        /\ r.tag = "FIN_ACK" => confirmed'[s]
        /\ confirmed[s] => confirmed'[s]
        /\ \A z \in Side \ {s} : /\ delivering'[z] = delivering[z] /\ quiet'[z] = quiet[z]
                                 /\ confirmed'[z] = confirmed[z]
    <2>1. /\ DOMAIN delivering = Side /\ DOMAIN quiet = Side
          /\ DOMAIN confirmed = Side /\ DOMAIN wire = Side
      BY Zenon DEF Inv, TypeOK
    <2>. QED  BY Zenon, <2>1, PeerFacts DEF Accept, outVars, Readable, Reading
  <1>. HIDE DEF q, r
  <1>5. /\ \A tag : Has(q, tag) <=> (Has(Tail(q), tag) \/ r.tag = tag)
        /\ HasFin(q) => HasFin(Tail(q)) \/ r.tag = "FIN"
    BY Zenon, <1>2, KeptByTail
  <1>6. ASSUME NEW x \in Side, NEW y \in Side, x # y
        PROVE  TimingPair(x, y)'
    <2>1. /\ FinUnderWay(x, y) /\ AckUnderWay(x, y) /\ AbortUnderWay(y) /\ ReportInv(y)
          /\ Clocks(x, y) /\ Peer(x) = y /\ Peer(y) = x /\ Side = {x, y} /\ TypeOK
      BY Zenon, <1>6, TimingUnpacked
    <2>2. /\ ReportInv(y)' /\ Carries' = Carries /\ Running(x)' = Running(x)
          /\ Running(y)' = Running(y)
      BY Zenon, <1>4, <2>1 DEF ReportInv, Writing, Carries, Running
    <2>3. CASE s = x
      <3>1. delivering'[y] = delivering[y] /\ Listens(y)' = Listens(y) /\ Closed(y)' = Closed(y)
        BY Zenon, <1>4, <1>6, <2>2, <2>3 DEF Listens, Closed
      <3>2. FinUnderWay(x, y)' /\ AbortUnderWay(y)'
        BY Zenon, <1>4, <2>1, <2>2, <2>3, <3>1 DEF FinUnderWay, AbortUnderWay, Putting
      <3>3. Has(wire[y], "FIN_ACK") => Has(wire'[y], "FIN_ACK") \/ confirmed'[x]
        BY Zenon, <1>4, <1>5, <2>1, <2>3 DEF q
      <3>4. AckUnderWay(x, y)'
        BY Zenon, <1>4, <2>1, <2>2, <2>3, <3>3 DEF AckUnderWay, Putting, Writing
      <3>5. Clocks(x, y)'
        BY Zenon, <1>4, <2>3, ClocksZero
      <3>. QED  BY Zenon, <2>2, <3>2, <3>4, <3>5 DEF TimingPair
    <2>4. CASE s = y
      <3>1. /\ confirmed'[x] = confirmed[x] /\ delivering'[x] = delivering[x]
            /\ quiet'[x] = quiet[x] /\ wire'[y] = wire[y]
            /\ Listens(y)' = Listens(y) /\ (Closed(y) => Closed(y)')
            /\ HasFin(wire[x]) => HasFin(wire'[x]) \/ Closed(y)'
        BY Zenon, <1>4, <1>5, <1>6, <2>1, <2>2, <2>4 DEF Listens, Closed, q
      <3>2. FinUnderWay(x, y)' /\ AckUnderWay(x, y)' /\ AbortUnderWay(y)'
        BY Zenon, <1>4, <2>1, <2>2, <2>4, <3>1
        DEF FinUnderWay, AckUnderWay, AbortUnderWay, Putting, Writing
      <3>3. Waiting(x)' = Waiting(x)
        BY Zenon, <1>4, <2>2, <3>1 DEF Waiting
      <3>4. Clocks(x, y)'
        BY Zenon, <1>4, <2>1, <3>1, <3>3 DEF Clocks, Silence
      <3>. QED  BY Zenon, <2>2, <3>2, <3>4 DEF TimingPair
    <2>. QED  BY Zenon, <2>1, <2>3, <2>4
  <1>. QED  BY Zenon, <1>1, <1>6 DEF TimingInv

(* A delivery gives p something to report, or its FIN_ACK to send; a       *)
(* failed one gives it an abort to send. The wait of its own side starts   *)
(* again.                                                                  *)
LEMMA LocalTiming ==
    ASSUME Inv, TypeOK', TimingInv, NEW s \in Side, Delivered(s) \/ DeliverFails(s)
    PROVE  TimingInv'
  <1>. DEFINE C == [tag : {"ACK", "ABORT"}, n : Nat]
              q == toOutbound[s]
  <1>1. NoFalseTimeout'
    BY Zenon DEF TimingInv, NoFalseTimeout, Delivered, DeliverFails
  <1>2. /\ finSent' = finSent /\ finAckOut' = finAckOut /\ localOpen' = localOpen
        /\ reported' = reported /\ writing' = writing /\ path' = path /\ due' = due
        /\ confirmed' = confirmed /\ outcome' = outcome /\ wire' = wire
        /\ Running(s) /\ delivering[s] \in {"data", "end"}
    BY Zenon DEF Delivered, DeliverFails, outVars
  <1>3. /\ quiet'[s] = 0 /\ stall'[s] = 0
        /\ \A z \in Side \ {s} : /\ delivering'[z] = delivering[z] /\ quiet'[z] = quiet[z]
                                 /\ stall'[z] = stall[z] /\ received'[z] = received[z]
                                 /\ theirFin'[z] = theirFin[z] /\ toOutbound'[z] = toOutbound[z]
    <2>1. /\ DOMAIN delivering = Side /\ DOMAIN quiet = Side /\ DOMAIN stall = Side
          /\ DOMAIN received = Side /\ DOMAIN theirFin = Side /\ DOMAIN toOutbound = Side
      BY Zenon DEF Inv, TypeOK
    <2>2. CASE Delivered(s)
      BY Zenon, <2>1, <2>2 DEF Delivered
    <2>3. CASE DeliverFails(s)
      BY Zenon, <2>1, <2>3 DEF DeliverFails
    <2>. QED  BY Zenon, <2>2, <2>3
  <1>4. /\ q \in Seq(C) /\ AckCmd(received[s]) \in C /\ Abort \in C
        /\ AckCmd(received[s]).tag = "ACK" /\ Abort.tag = "ABORT"
    BY Zenon DEF Inv, TypeOK, AckCmd, Abort
  <1>. HIDE DEF C
  <1>5. /\ Has(Append(q, AckCmd(received[s])), "ACK")
        /\ Has(Append(q, Abort), "ABORT")
        /\ Has(Append(q, Abort), "ACK") <=> Has(q, "ACK")
    BY Zenon, <1>4, KeptByAppend
  <1>6. ASSUME NEW x \in Side, NEW y \in Side, x # y
        PROVE  TimingPair(x, y)'
    <2>1. /\ FinUnderWay(x, y) /\ AckUnderWay(x, y) /\ AbortUnderWay(y) /\ ReportInv(y)
          /\ Clocks(x, y) /\ Peer(x) = y /\ Peer(y) = x /\ Side = {x, y} /\ TypeOK
      BY Zenon, <1>6, TimingUnpacked
    <2>2. Carries' = Carries /\ Running(x)' = Running(x) /\ Running(y)' = Running(y)
      BY Zenon, <1>2 DEF Carries, Running
    <2>3. CASE s = x
      <3>1. /\ delivering'[y] = delivering[y] /\ theirFin'[y] = theirFin[y]
            /\ toOutbound'[y] = toOutbound[y] /\ received'[y] = received[y]
            /\ Listens(y)' = Listens(y) /\ Closed(y)' = Closed(y)
        BY Zenon, <1>3, <1>6, <2>2, <2>3 DEF Listens, Closed
      <3>2. FinUnderWay(x, y)' /\ AckUnderWay(x, y)' /\ AbortUnderWay(y)' /\ ReportInv(y)'
        BY Zenon, <1>2, <2>1, <2>2, <3>1
        DEF FinUnderWay, AckUnderWay, AbortUnderWay, ReportInv, Putting, Writing
      <3>3. Clocks(x, y)'
        BY Zenon, <1>3, <2>3, ClocksZero
      <3>. QED  BY Zenon, <3>2, <3>3 DEF TimingPair
    <2>4. CASE s = y
      <3>1. ~theirFin[y] /\ ~finAckOut[y] /\ Waiting(x)' = Waiting(x)
            /\ delivering'[x] = delivering[x] /\ quiet'[x] = quiet[x] /\ stall'[x] = stall[x]
        <4>1. ~theirFin[y]
          BY Zenon, <1>2, <1>6, <2>4, Unpacked DEF CloseInv
        <4>. QED  BY Zenon, <1>2, <1>3, <1>6, <2>1, <2>2, <2>4, <4>1 DEF AckUnderWay, Waiting
      <3>2. CASE DeliverFails(s)
        <4>1. /\ delivering'[y] = "aborting" /\ theirFin' = theirFin /\ received' = received
              /\ toOutbound'[y] = Append(q, Abort) /\ ~Listens(y)'
          BY Zenon, <2>1, <2>4, <3>2 DEF DeliverFails, TypeOK, Listens
        <4>2. FinUnderWay(x, y)' /\ AckUnderWay(x, y)' /\ AbortUnderWay(y)' /\ ReportInv(y)'
          BY Zenon, <1>2, <1>5, <2>1, <3>1, <4>1
          DEF FinUnderWay, AckUnderWay, AbortUnderWay, ReportInv, Writing, Putting
        <4>3. Clocks(x, y)'
          BY Zenon, <1>2, <2>1, <3>1, <4>1 DEF Clocks
        <4>. QED  BY Zenon, <4>2, <4>3 DEF TimingPair
      <3>3. CASE Delivered(s) /\ delivering[s] = "end"
        <4>1. /\ delivering'[y] = "no" /\ theirFin'[y] /\ received'[y] = received[y]
              /\ toOutbound'[y] = Append(q, AckCmd(received[s])) /\ Closed(y)'
          BY Zenon, <2>1, <2>4, <3>3 DEF Delivered, TypeOK, Closed
        <4>2. FinUnderWay(x, y)' /\ AckUnderWay(x, y)' /\ AbortUnderWay(y)' /\ ReportInv(y)'
          BY Zenon, <1>2, <1>5, <2>1, <3>1, <4>1
          DEF FinUnderWay, AckUnderWay, AbortUnderWay, ReportInv, Writing, Putting
        <4>3. Clocks(x, y)'
          BY Zenon, <1>2, <2>1, <3>1, <4>1 DEF Clocks
        <4>. QED  BY Zenon, <4>2, <4>3 DEF TimingPair
      <3>4. CASE Delivered(s) /\ delivering[s] = "data"
        <4>1. /\ delivering'[y] = "no" /\ theirFin'[y] = theirFin[y]
              /\ received'[y] = received[y] + 1 /\ delivering[y] = "data"
              /\ toOutbound' = toOutbound /\ Closed(y)' = Closed(y) /\ Listens(y)' = Listens(y)
          <5>1. /\ delivering'[y] = "no" /\ theirFin'[y] = (theirFin[y] \/ delivering[y] = "end")
                /\ received'[y] = received[y] + 1 /\ delivering[y] = "data"
                /\ toOutbound' = toOutbound
            BY Zenon, <2>1, <2>4, <3>4 DEF Delivered, TypeOK
          <5>2. theirFin'[y] = theirFin[y]
            BY Zenon, <2>1, <3>1, <5>1 DEF TypeOK
          <5>. QED  BY Zenon, <2>2, <5>1, <5>2 DEF Closed, Listens
        <4>2. FinUnderWay(x, y)' /\ AckUnderWay(x, y)' /\ AbortUnderWay(y)'
          BY Zenon, <1>2, <2>1, <2>2, <3>1, <4>1 DEF FinUnderWay, AckUnderWay, AbortUnderWay, Putting
        <4>3. /\ received'[y] > reported'[y] /\ reported'[y] <= received'[y]
              /\ \A n \in Nat : n <= received[y] => n <= received'[y]
          BY <1>2, <2>1, <4>1, ClockTypes DEF ReportInv
        <4>4. ReportInv(y)'
          <5>1. writing[y].rec.n \in Nat
            BY Zenon, <2>1, PairTypes, RecordType
          <5>. QED  BY Zenon, <1>2, <2>1, <4>3, <5>1 DEF ReportInv, Writing
        <4>5. quiet[x] <= Silence(y) => quiet'[x] <= Silence(y)'
          <5>1. Silence(y)' = Patience + Every - due[y]
            BY Zenon, <1>2, <4>3 DEF Silence
          <5>2. Silence(y) <= Patience + Every - due[y] /\ Patience + Every - due[y] \in Nat
            BY <2>1, ClockTypes DEF Silence
          <5>. QED  BY <2>1, <3>1, <5>1, <5>2, ClockTypes
        <4>6. Clocks(x, y)'
          BY Zenon, <1>2, <2>1, <3>1, <4>1, <4>5 DEF Clocks
        <4>. QED  BY Zenon, <4>2, <4>4, <4>6 DEF TimingPair
      <3>. QED  BY Zenon, <1>2, <3>2, <3>3, <3>4
    <2>. QED  BY Zenon, <2>1, <2>3, <2>4
  <1>. QED  BY Zenon, <1>1, <1>6 DEF TimingInv

(* Steps of the path, of the watchdog, and of a PROGRESS tick with nothing *)
(* to report: the clock restarts or the path no longer keeps up.           *)
LEMMA FrameTiming ==
    ASSUME Inv, TypeOK', TimingInv,
           UNCHANGED <<finSent, localOpen, finAckOut, reported, writing, toOutbound, received,
                       theirFin, confirmed, delivering, outcome>>,
           Carries' => Carries /\ wire' = wire, path' = "up" => path = "up",
           \A x, y \in Side : x # y => Clocks(x, y)'
    PROVE  TimingInv'
  <1>1. NoFalseTimeout'
    BY Zenon DEF TimingInv, NoFalseTimeout
  <1>2. ASSUME NEW x \in Side, NEW y \in Side, x # y
        PROVE  TimingPair(x, y)'
    <2>1. /\ FinUnderWay(x, y) /\ AckUnderWay(x, y) /\ AbortUnderWay(y) /\ ReportInv(y)
      BY Zenon, <1>2, TimingUnpacked
    <2>2. AbortUnderWay(y)' /\ ReportInv(y)'
      BY Zenon, <2>1 DEF AbortUnderWay, Running, ReportInv, Writing
    <2>3. FinUnderWay(x, y)'
      BY Zenon, <2>1 DEF FinUnderWay, Listens, Running, Closed, Putting
    <2>4. AckUnderWay(x, y)'
      BY Zenon, <2>1 DEF AckUnderWay, Running, Putting, Writing
    <2>. QED  BY Zenon, <1>2, <2>2, <2>3, <2>4 DEF TimingPair
  <1>. QED  BY Zenon, <1>1, <1>2 DEF TimingInv

(* Time passes for a waiting side with nothing in hand only while its peer *)
(* holds a record, with its next PROGRESS tick still to come: the FIN has  *)
(* been taken, and anything else the peer had to say it would have said.   *)
LEMMA TickWaits ==
    ASSUME Inv, TimingInv, Tick, NEW x \in Side, NEW y \in Side, x # y,
           Waiting(x), delivering[x] = "no"
    PROVE  /\ wire[y] = <<>> /\ writing[y] = Nothing /\ Hands(y) /\ ProgressRuns(y)
           /\ due[y] # 0 /\ stall[y] # Patience /\ Listens(y) /\ ~theirFin[y]
  <1>1. /\ FinUnderWay(x, y) /\ AckUnderWay(x, y) /\ AbortUnderWay(y)
        /\ Peer(x) = y /\ Peer(y) = x /\ TypeOK
    BY Zenon, TimingUnpacked
  <1>2. path = "up" /\ Carries /\ ~Ready(x) /\ ~Ready(y)
    BY Zenon DEF Tick, Carries
  <1>3. Running(x) /\ Reading(x) /\ ~confirmed[x] /\ finSent[x] /\ ~localOpen[x]
    BY Zenon DEF Waiting, Reading, InboundDone
  <1>4. wire[y] = <<>> /\ Running(y)
    BY Zenon, <1>1, <1>2, <1>3 DEF Ready, Readable, EndVisible
  <1>5. Room(y)
    <2>1. Len(wire[y]) < Capacity
      BY <1>4, DeliveryAssumption DEF DeliveryAssumption
    <2>. QED  BY Zenon, <2>1 DEF Room
  <1>6. ~Has(wire[y], "FIN_ACK")
    BY Zenon, <1>4, HasEmpty
  <1>7. ~finAckOut[y]
    <2>1. Putting(y, "FIN_ACK") => Writing(y, "FIN_ACK")
      BY Zenon DEF Putting, Writing
    <2>. QED  BY Zenon, <1>1, <1>2, <1>3, <1>4, <1>6, <2>1 DEF AckUnderWay
  <1>8. OutboundRuns(y) /\ ProgressRuns(y)
    BY Zenon, <1>4, <1>7 DEF OutboundRuns, ProgressRuns
  <1>9. writing[y] = Nothing
    BY Zenon, <1>2, <1>5, <1>8 DEF Ready
  <1>10. toOutbound[y] = <<>> /\ due[y] # 0
    BY Zenon, <1>2, <1>7, <1>8, <1>9 DEF Ready, Selecting
  <1>11. ~Putting(y, "FIN_ACK")
    BY <1>9 DEF Putting, Nothing
  <1>12. ~theirFin[y] /\ delivering[y] # "aborting"
    BY Zenon, <1>1, <1>2, <1>3, <1>4, <1>6, <1>10, <1>11, HasEmpty DEF AckUnderWay, AbortUnderWay
  <1>13. delivering[y] # "no"
    <2>1. SUFFICES ASSUME delivering[y] = "no"
                   PROVE  FALSE
      BY Zenon
    <2>2. wire[x] = <<>>
      BY Zenon, <1>1, <1>2, <1>4, <1>12, <2>1 DEF Ready, Readable, Reading, InboundDone
    <2>3. ~HasFin(wire[x])
      BY Zenon, <2>2, HasEmpty
    <2>4. Putting(x, "FIN")
      BY Zenon, <1>1, <1>2, <1>3, <1>4, <1>12, <2>1, <2>3 DEF FinUnderWay, Listens, Closed
    <2>. QED  BY Zenon, <1>1, <1>3, <2>4 DEF FinUnderWay
  <1>14. stall[y] # Patience
    BY Zenon, <1>2, <1>4, <1>13 DEF Ready
  <1>. QED  BY Zenon, <1>4, <1>8, <1>9, <1>10, <1>12, <1>13, <1>14 DEF Hands, Listens

(* A tick of the clocks keeps them within their bounds.                    *)
LEMMA TickTiming ==
    ASSUME Inv, TypeOK', TimingInv, Tick
    PROVE  TimingInv'
  <1>1. /\ finSent' = finSent /\ localOpen' = localOpen /\ finAckOut' = finAckOut
        /\ reported' = reported /\ writing' = writing /\ toOutbound' = toOutbound
        /\ received' = received /\ theirFin' = theirFin /\ confirmed' = confirmed
        /\ delivering' = delivering /\ outcome' = outcome /\ wire' = wire /\ path' = path
    BY Zenon DEF Tick
  <1>2. \A z \in Side :
          /\ due'[z] = IF ProgressRuns(z) /\ due[z] > 0 THEN due[z] - 1 ELSE due[z]
          /\ quiet'[z] = IF Waiting(z) /\ quiet[z] < Idle THEN quiet[z] + 1 ELSE quiet[z]
          /\ stall'[z] = IF Hands(z) THEN stall[z] + 1 ELSE stall[z]
    BY Zenon DEF Tick
  <1>3. ASSUME NEW x \in Side, NEW y \in Side, x # y
        PROVE  Clocks(x, y)'
    <2>1. TypeOK /\ Clocks(x, y)
      BY Zenon, <1>3, TimingUnpacked
    <2>2. SUFFICES ASSUME path = "up", Waiting(x)
                   PROVE  Clocks(x, y)'
      BY Zenon, <1>1 DEF Clocks, Waiting, Running
    <2>3. quiet'[x] <= quiet[x] + 1 /\ quiet[x] \in Nat /\ quiet'[x] \in Nat
      BY <1>2, <2>1, ClockTypes
    <2>4. CASE delivering[x] # "no"
      <3>1. stall'[x] = stall[x] + 1 /\ stall[x] \in Nat
        BY Zenon, <1>2, <2>1, <2>2, <2>4, ClockTypes DEF Hands, Waiting
      <3>2. quiet[x] <= stall[x]
        BY Zenon, <2>1, <2>2, <2>4 DEF Clocks
      <3>3. quiet'[x] <= stall'[x]
        BY <2>3, <3>1, <3>2
      <3>. QED  BY Zenon, <1>1, <2>4, <3>3 DEF Clocks
    <2>5. CASE delivering[x] = "no"
      <3>1. /\ wire[y] = <<>> /\ writing[y] = Nothing /\ Hands(y) /\ ProgressRuns(y)
            /\ due[y] # 0 /\ stall[y] # Patience /\ Listens(y) /\ ~theirFin[y]
        BY Zenon, <1>3, <2>2, <2>5, TickWaits
      <3>3. quiet[x] <= Silence(y)
        BY Zenon, <2>1, <2>2, <2>5, <3>1 DEF Clocks
      <3>4. stall'[y] = stall[y] + 1 /\ due'[y] = due[y] - 1
        BY <1>2, <2>1, <3>1, ClockTypes
      <3>5. /\ due[y] \in Nat /\ stall[y] \in Nat /\ stall[y] <= Patience /\ due[y] <= Every
            /\ Patience \in Nat /\ Every \in Nat
        BY Zenon, <2>1, ClockTypes
      <3>6. Silence(y)' = Silence(y) + 1 /\ Silence(y)' <= Patience + Every /\ Silence(y) \in Nat
        <4>1. Silence(y)' = IF received[y] > reported[y] THEN Patience + Every - due'[y] ELSE stall'[y]
          BY Zenon, <1>1 DEF Silence
        <4>2. stall[y] + 1 <= Patience /\ due[y] >= 1
          BY <3>1, <3>5
        <4>. QED  BY <3>4, <3>5, <4>1, <4>2 DEF Silence
      <3>7. quiet'[x] <= Silence(y)' /\ quiet'[x] <= Patience + Every
        BY <2>3, <3>3, <3>5, <3>6
      <3>. QED  BY Zenon, <1>1, <2>5, <3>1, <3>7 DEF Clocks
    <2>. QED  BY Zenon, <2>4, <2>5
  <1>. QED  BY Zenon, <1>1, <1>3, FrameTiming DEF Carries

(* Every step keeps the bounds.                                            *)
LEMMA TimingStep == Inv /\ Inv' /\ TimingInv /\ [Next]_vars => TimingInv'
  <1>. SUFFICES ASSUME Inv, Inv', TimingInv, [Next]_vars
                PROVE  TimingInv'
    BY Zenon
  <1>0. TypeOK /\ TypeOK'
    BY Zenon DEF Inv
  <1>1. ASSUME NEW s \in Side, TakeFinAck(s)
        PROVE  TimingInv'
    <2>. DEFINE C == [tag : {"ACK", "ABORT"}, n : Nat]
                q == toOutbound[s]
                r == FinAck(Head(q).n)
    <2>1. /\ q \in Seq(C) /\ q # <<>> /\ Head(q).tag = "ACK" /\ q = toOutbound[s]
          /\ toOutbound'[s] = Tail(q) /\ toOutbound'[Peer(s)] = toOutbound[Peer(s)]
          /\ writing[s] = Nothing /\ Writes(s, r)
      BY Zenon, <1>0, <1>1, PeerFacts DEF TakeFinAck, TypeOK, Selecting
    <2>. HIDE DEF C, q
    <2>2. \A tag : Has(q, tag) <=> (Has(Tail(q), tag) \/ tag = "ACK")
      BY Zenon, <2>1, KeptByTail
    <2>3. Head(q) \in C
      BY <2>1
    <2>4. r \in Record /\ r.tag = "FIN_ACK"
      BY Zenon, <2>3, RecordFacts DEF FinAck, C
    <2>5. ~finAckOut[s]
      BY Zenon, <2>1, <2>2, PeerFacts, TimingUnpacked DEF AckUnderWay
    <2>. HIDE DEF r
    <2>6. /\ finSent' = finSent /\ localOpen' = localOpen /\ finAckOut' = finAckOut
          /\ reported' = reported /\ due' = due /\ received' = received /\ theirFin' = theirFin
          /\ confirmed' = confirmed /\ delivering' = delivering /\ stall' = stall
          /\ quiet' = quiet /\ outcome' = outcome /\ path' = path
      BY Zenon, <1>1 DEF TakeFinAck, inVars
    <2>7. /\ \A tag : Has(toOutbound'[s], tag) => Has(toOutbound[s], tag)
          /\ Has(toOutbound[s], "ABORT") => Has(toOutbound'[s], "ABORT")
      BY Zenon, <2>1, <2>2
    <2>. QED  BY Zenon, <1>0, <2>1, <2>4, <2>5, <2>6, <2>7, WriteTiming
  <1>2. ASSUME NEW s \in Side, NEW r \in Record, Writes(s, r),
               writing[s] = Nothing \/ writing[s] = Put(r),
               r.tag = "FIN" => r.normal /\ localOpen[s],
               r.tag = "FIN_ACK" => ~finAckOut[s],
               r.tag = "PROGRESS" => r.n <= received[s],
               \A x \in Side : finSent'[x] => finSent[x] \/ (x = s /\ r.tag = "FIN"),
               due'[Peer(s)] = due[Peer(s)],
               UNCHANGED <<localOpen, finAckOut, reported, inVars, toOutbound, quiet, outcome, path>>
        PROVE  TimingInv'
    BY Zenon, <1>0, <1>2, WriteTiming DEF inVars
  <1>3. ASSUME NEW s \in Side, ProgressTick(s)
        PROVE  TimingInv'
    <2>1. /\ writing[s] = Nothing /\ finSent' = finSent /\ due'[Peer(s)] = due[Peer(s)]
          /\ UNCHANGED <<localOpen, finAckOut, reported, inVars, toOutbound, quiet, outcome, path>>
          /\ due' = [due EXCEPT ![s] = Every]
      BY Zenon, <1>0, <1>3, PeerFacts DEF ProgressTick, Selecting, TypeOK
    <2>2. CASE Writes(s, Progress(received[s]))
      <3>1. /\ Progress(received[s]) \in Record /\ Progress(received[s]).tag = "PROGRESS"
            /\ Progress(received[s]).n = received[s]
        BY Zenon, <1>0, RecordFacts DEF TypeOK, Progress
      <3>2. Progress(received[s]).n <= received[s]
        BY <1>0, <3>1, ClockTypes
      <3>. QED  BY Zenon, <1>2, <2>1, <2>2, <3>1, <3>2
    <2>3. CASE ~(received[s] > reported[s]) /\ writing' = writing /\ wire' = wire
      <3>1. ASSUME NEW x \in Side, NEW y \in Side, x # y
            PROVE  Clocks(x, y)'
        <4>1. Clocks(x, y)
          BY Zenon, <3>1, TimingUnpacked
        <4>2. Silence(y)' = Silence(y)
          <5>1. received' = received /\ reported' = reported /\ stall' = stall
            BY Zenon, <2>1 DEF inVars
          <5>2. CASE y = s
            BY Zenon, <2>3, <5>1, <5>2 DEF Silence
          <5>3. CASE y # s
            <6>1. due'[y] = due[y]
              BY Zenon, <1>0, <2>1, <5>3 DEF TypeOK
            <6>. QED  BY Zenon, <5>1, <6>1 DEF Silence
          <5>. QED  BY Zenon, <5>2, <5>3
        <4>. QED  BY Zenon, <2>1, <2>3, <4>1, <4>2 DEF Clocks, Waiting, Running, Listens, inVars
      <3>. QED  BY Zenon, <1>0, <2>1, <2>3, <3>1, FrameTiming DEF inVars, Carries
    <2>. QED  BY Zenon, <1>3, <2>2, <2>3 DEF ProgressTick
  <1>4. ASSUME NEW s \in Side, ReadLocal(s)
        PROVE  TimingInv'
    <2>1. Data(sent[s]) \in Record /\ Data(sent[s]).tag = "DATA"
      BY Zenon, <1>0, RecordFacts DEF TypeOK, Data
    <2>2. writing[s] = Nothing
      BY Zenon, <1>4 DEF ReadLocal, SelectsLocal, Selecting
    <2>. QED  BY Zenon, <1>2, <1>4, <2>1, <2>2 DEF ReadLocal
  <1>5. ASSUME NEW s \in Side, LocalEnds(s)
        PROVE  TimingInv'
    <2>1. Fin(sent[s]) \in Record /\ Fin(sent[s]).tag = "FIN" /\ Fin(sent[s]).normal
      BY Zenon, <1>0, RecordFacts DEF TypeOK, Fin
    <2>2. writing[s] = Nothing /\ localOpen[s]
      BY Zenon, <1>5 DEF LocalEnds, SelectsLocal, Selecting
    <2>3. \A x \in Side : finSent'[x] => finSent[x] \/ x = s
      BY Zenon, <1>0, <1>5 DEF LocalEnds, TypeOK
    <2>. QED  BY Zenon, <1>2, <1>5, <2>1, <2>2, <2>3 DEF LocalEnds
  <1>6. ASSUME NEW s \in Side, WritePut(s)
        PROVE  TimingInv'
    <2>. DEFINE r == writing[s].rec
    <2>1. /\ writing[s] = Put(r) /\ r \in Record /\ writing[s].phase = "put"
          /\ r.tag = "FIN" => r = Fin(sent[s])
      BY Zenon, <1>6, PutFacts DEF WritePut
    <2>2. Putting(s, r.tag) /\ Writing(s, r.tag)
      BY Zenon, <2>1 DEF Putting, Writing
    <2>3. /\ r.tag = "FIN" => r.normal /\ localOpen[s]
          /\ r.tag = "FIN_ACK" => ~finAckOut[s]
          /\ r.tag = "PROGRESS" => r.n <= received[s]
      <3>1. /\ FinUnderWay(s, Peer(s)) /\ AckUnderWay(Peer(s), s) /\ ReportInv(s)
        BY Zenon, PeerFacts, TimingUnpacked
      <3>2. Fin(sent[s]).normal
        BY Zenon DEF Fin
      <3>. QED  BY Zenon, <2>1, <2>2, <3>1, <3>2 DEF FinUnderWay, AckUnderWay, ReportInv
    <2>4. Writes(s, r)
      BY Zenon, <1>6 DEF WritePut
    <2>. HIDE DEF r
    <2>. QED  BY Zenon, <1>2, <1>6, <2>1, <2>3, <2>4 DEF WritePut
  <1>7. ASSUME NEW s \in Side, WriteDone(s)
        PROVE  TimingInv'
    BY Zenon, <1>0, <1>7, WriteDoneTiming
  <1>8. ASSUME NEW s \in Side, NEW o \in {"ok"} \cup Errors, o # "AckTimeout" \/ path # "up",
               Ends(s, o), wire' = Unread(s, wire) \/ wire' = Unread(s, With(s, AbortFin(sent[s])))
        PROVE  TimingInv'
    <2>1. AbortFin(sent[s]) \in Record
      BY Zenon, <1>0, RecordFacts DEF TypeOK
    <2>. QED  BY Zenon, <1>0, <1>8, <2>1, EndsTiming
  <1>9. ASSUME NEW s \in Side, TakeAbort(s) \/ LocalAborts(s) \/ WriteFails(s) \/ AbortGrace(s)
                                 \/ ReadEnds(s) \/ Join(s)
        PROVE  TimingInv'
    <2>1. CASE EndsWithFin(s)
      BY Zenon, <1>8, <2>1 DEF EndsWithFin, Errors
    <2>. QED
      BY Zenon, <1>8, <1>9, <2>1
      DEF TakeAbort, LocalAborts, WriteFails, AbortGrace, ReadEnds, Join, Errors
  <1>10. ASSUME NEW s \in Side, Watchdog(s)
        PROVE  TimingInv'
    <2>1. CASE /\ quiet' = [quiet EXCEPT ![s] = 0]
               /\ UNCHANGED <<outVars, inVars, toOutbound, outcome, wire, path>>
      <3>1. ASSUME NEW x \in Side, NEW y \in Side, x # y
            PROVE  Clocks(x, y)'
        <4>1. CASE x = s
          <5>1. quiet'[x] = 0
            BY Zenon, <1>0, <2>1, <4>1 DEF TypeOK
          <5>. QED  BY Zenon, <1>0, <5>1, ClocksZero
        <4>2. CASE x # s
          <5>1. quiet'[x] = quiet[x]
            BY Zenon, <1>0, <2>1, <4>2 DEF TypeOK
          <5>2. Clocks(x, y)
            BY Zenon, <3>1, TimingUnpacked
          <5>. QED  BY Zenon, <2>1, <5>1, <5>2 DEF Clocks, Silence, Waiting, Running, Listens, outVars, inVars
        <4>. QED  BY Zenon, <4>1, <4>2
      <3>. QED  BY Zenon, <1>0, <2>1, <3>1, FrameTiming DEF outVars, inVars, Carries
    <2>2. CASE delivering[s] \notin {"data", "end"} /\ Ends(s, "AckTimeout") /\ wire' = Unread(s, wire)
      <3>1. path # "up"
        <4>1. SUFFICES ASSUME path = "up"
                       PROVE  FALSE
          BY Zenon
        <4>2. Waiting(s) /\ quiet[s] = Idle
          BY Zenon, <1>10 DEF Watchdog
        <4>3. quiet[s] <= stall[s] \/ quiet[s] <= Patience + Every
          BY Zenon, <4>1, <4>2, PeerFacts, TimingUnpacked DEF Clocks
        <4>. QED  BY <1>0, <4>2, <4>3, ClockTypes
      <3>. QED  BY Zenon, <1>8, <2>2, <3>1 DEF Errors
    <2>. QED  BY Zenon, <1>10, <2>1, <2>2 DEF Watchdog
  <1>11. ASSUME NEW s \in Side, ReadRecord(s)
        PROVE  TimingInv'
    <2>. DEFINE v == Verdict(s, Head(wire[Peer(s)]))
    <2>1. Readable(s) /\ v \in {"open", "PeerEnded"}
      BY Zenon, <1>11, PeerFacts, HeadFacts DEF ReadRecord
    <2>2. CASE v = "open" /\ Accept(s, Head(wire[Peer(s)]))
      BY Zenon, <1>0, <2>1, <2>2, AcceptTiming
    <2>3. CASE v = "PeerEnded" /\ Ends(s, v) /\ wire' = Unread(s, wire)
      BY Zenon, <1>8, <2>3 DEF Errors
    <2>. QED  BY Zenon, <1>11, <2>1, <2>2, <2>3 DEF ReadRecord
  <1>12. ASSUME NEW s \in Side, LocalSide(s)
        PROVE  TimingInv'
    BY Zenon, <1>0, <1>12, LocalTiming DEF LocalSide
  <1>13. ASSUME Cut \/ BlackHole \/ Delay
        PROVE  TimingInv'
    <2>1. path' # "up" /\ (Carries' => Carries /\ wire' = wire)
      BY Zenon, <1>13 DEF Cut, BlackHole, Delay, Carries
    <2>2. \A x, y \in Side : x # y => Clocks(x, y)'
      BY Zenon, <2>1 DEF Clocks
    <2>. QED  BY Zenon, <1>0, <1>13, <2>1, <2>2, FrameTiming DEF Cut, BlackHole, Delay, outVars, inVars
  <1>14. CASE Tick
    BY Zenon, <1>0, <1>14, TickTiming
  <1>15. CASE UNCHANGED vars
    <2>1. ASSUME NEW x \in Side, NEW y \in Side, x # y
          PROVE  Clocks(x, y)'
      <3>1. Clocks(x, y)
        BY Zenon, <2>1, TimingUnpacked
      <3>. QED  BY Zenon, <1>15, <3>1 DEF Clocks, Silence, Waiting, Running, Listens, vars, outVars, inVars
    <2>. QED  BY Zenon, <1>0, <1>15, <2>1, FrameTiming DEF vars, outVars, inVars, Carries
  <1>. QED
    BY Zenon, <1>1, <1>3, <1>4, <1>5, <1>6, <1>7, <1>9, <1>10, <1>11, <1>12, <1>13, <1>14, <1>15
    DEF Next, OutboundStep, LocalInput, InboundStep

(* The watchdog never gives up on a path that keeps up, however slow the   *)
(* peer's consumer (delivery.rs:34-42), for every idle timeout, patience,  *)
(* capacity and amount of input.                                           *)
THEOREM SlowConsumerSurvives == Spec => []NoFalseTimeout
  <1>1. Init => TimingInv
    <2>1. SUFFICES ASSUME Init
                   PROVE  TimingInv
      BY Zenon
    <2>2. NoFalseTimeout
      BY Zenon, <2>1 DEF Init, NoFalseTimeout
    <2>3. ASSUME NEW x \in Side, NEW y \in Side, x # y
          PROVE  TimingPair(x, y)
      <3>1. /\ ~finSent[x] /\ localOpen[x] /\ ~theirFin[y] /\ ~finAckOut[y] /\ delivering[y] = "no"
            /\ reported[y] = 0 /\ received[y] = 0 /\ writing[y].phase = "none"
            /\ writing[x].phase = "none"
        BY Zenon, <2>1 DEF Init, Nothing
      <3>2. ReportInv(y)
        BY <3>1 DEF ReportInv, Writing
      <3>. QED
        BY Zenon, <3>1, <3>2
        DEF TimingPair, FinUnderWay, AckUnderWay, AbortUnderWay, Clocks, Waiting, Putting
    <2>. QED  BY Zenon, <2>2, <2>3 DEF TimingInv
  <1>2. TimingInv => NoFalseTimeout
    BY Zenon DEF TimingInv
  <1>. QED  BY <1>1, <1>2, TimingStep, InvHolds, PTL DEF Spec
=============================================================================
