-------------------------- MODULE DeliveryProofs ---------------------------
(***************************************************************************)
(* The delivery protocol keeps its promise, for any amount of input, any   *)
(* capacity of the path and any clocks: Delivery implements                *)
(* DeliveryPromise, and an end that speaks the protocol is never accused   *)
(* of breaking it.                                                         *)
(***************************************************************************)
EXTENDS DeliveryLemmas

(***************************************************************************)
(* The steps keep the invariant: what outbound writes (a FIN_ACK or        *)
(* PROGRESS record, payload, the normal end), the return of a flush, and   *)
(* what inbound takes off the path and delivers.                           *)
(***************************************************************************)
(* A FIN_ACK or a PROGRESS record goes out, in one step or in two.         *)
LEMMA WriteOtherInv ==
    ASSUME Inv, TypeOK', NEW s \in Side, NEW r \in Record, Writes(s, r),
           r.tag \in {"FIN_ACK", "PROGRESS"}, writing[s] = Nothing \/ writing[s] = Put(r),
           sent' = sent, finSent' = finSent, localOpen' = localOpen, received' = received,
           theirFin' = theirFin, confirmed' = confirmed, delivering' = delivering,
           outcome' = outcome, path' = path, toOutbound'[Peer(s)] = toOutbound[Peer(s)],
           OneOf(toOutbound'[s], "ACK", received[s]),
           Has(toOutbound'[s], "ACK") => Has(toOutbound[s], "ACK") /\ r.tag # "FIN_ACK",
           r.tag = "FIN_ACK" =>
              /\ theirFin[s] /\ r.n = received[s]
              /\ ~confirmed[Peer(s)] /\ ~Has(wire[s], "FIN_ACK")
    PROVE  Inv'
  <1>1. HonestPeerNeverBlamed'
    BY Zenon DEF Inv, HonestPeerNeverBlamed
  <1>2. ASSUME NEW x \in Side, NEW y \in Side, x # y
        PROVE  PairInv(x, y)'
    <2>1. /\ FinInv(x) /\ WireInv(x, y) /\ CloseInv(x, y) /\ AckInv(x, y)
          /\ Peer(x) = y /\ Peer(y) = x /\ Side = {x, y} /\ AckInv(y, x)
      BY Zenon, <1>2, Unpacked
    <2>2. TypeOK
      BY Zenon DEF Inv
    <2>3. /\ wire[x] \in Seq(Record) /\ Taken(y) \in Nat /\ Offered(x) \in Nat
          /\ wire[y] \in Seq(Record)
          /\ OneOf(wire[x], "FIN_ACK", received[x]) /\ OneOf(wire[y], "FIN_ACK", received[y])
      BY Zenon, <2>1, <2>2, PairTypes DEF AckInv
    <2>4. ~Stream(r) /\ r.tag # "DATA" /\ r.tag # "FIN"
      BY Zenon DEF Stream
    <2>5. CASE x = s
      <3>1. /\ wire'[y] = wire[y] /\ writing'[y] = writing[y]
            /\ wire'[x] \in {wire[x], Append(wire[x], r)}
            /\ writing'[x] \in {Flush(r), Put(r)}
        BY Zenon, <1>2, <2>1, <2>2, <2>5, WriteCases
      <3>2. /\ toOutbound'[y] = toOutbound[y]
        BY Zenon, <2>1, <2>5
      <3>3. /\ Streams(wire[x], Taken(y), Offered(x)) => Streams(wire'[x], Taken(y), Offered(x))
            /\ Full(wire[x], Taken(y), Offered(x)) => Full(wire'[x], Taken(y), Offered(x))
            /\ HasFin(wire'[x]) => HasFin(wire[x])
            /\ NoStream(wire[x]) => NoStream(wire'[x])
        <4>1. CASE wire'[x] = wire[x]
          BY Zenon, <4>1
        <4>2. CASE wire'[x] = Append(wire[x], r)
          <5>1. /\ HasFin(wire'[x]) => HasFin(wire[x])
                /\ NoStream(wire[x]) => NoStream(wire'[x])
            BY <2>3, <2>4, <4>2, HasAppend
          <5>. QED  BY Zenon, <2>3, <2>4, <4>2, <5>1, StreamsOther, FullAppend
        <4>. QED  BY Zenon, <3>1, <4>1, <4>2
      <3>4. FinInv(x)'
        BY <2>1, <2>4, <2>5, <3>1 DEF FinInv, Writing, Flush, Put, Nothing
      <3>5. Offered(x)' = Offered(x) /\ Taken(y)' = Taken(y)
        BY <2>4, <2>5, <3>1 DEF Offered, Taken, Flush, Put, Nothing, Data
      <3>6. WireInv(x, y)'
        BY Zenon, <2>1, <3>3, <3>5 DEF WireInv, Carries, Listens, Running, Closed
      <3>7. CloseInv(x, y)'
        BY <2>1, <2>4, <3>1, <3>3 DEF CloseInv, Closed, Flush, Put
      <3>8. AckInv(x, y)'
        BY Zenon, <2>1, <3>1, <3>2 DEF AckInv, Writing
      <3>. QED  BY Zenon, <3>4, <3>6, <3>7, <3>8 DEF PairInv
    <2>6. CASE y = s
      <3>1. /\ wire'[x] = wire[x] /\ writing'[x] = writing[x]
            /\ \/ wire'[y] = wire[y] /\ writing'[y] \in {Flush(r), Put(r)}
               \/ wire'[y] = Append(wire[y], r) /\ writing'[y] = Flush(r)
        BY Zenon, <1>2, <2>1, <2>2, <2>6, WriteCases
      <3>2. /\ OneOf(wire'[y], "FIN_ACK", received[y])
            /\ Has(wire'[y], "FIN_ACK") => Has(wire[y], "FIN_ACK") \/ r.tag = "FIN_ACK"
        <4>1. CASE wire'[y] = wire[y]
          BY Zenon, <2>3, <4>1
        <4>2. CASE wire'[y] = Append(wire[y], r)
          <5>1. r.tag # "FIN_ACK" \/ (~Has(wire[y], "FIN_ACK") /\ r.n = received[y])
            BY Zenon, <2>6
          <5>. QED  BY <2>3, <4>2, <5>1, HasAppend
        <4>. QED  BY Zenon, <3>1, <4>1, <4>2
      <3>3. FinInv(x)'
        BY Zenon, <2>1, <3>1 DEF FinInv, Writing
      <3>4. WireInv(x, y)'
        BY Zenon, <2>1, <3>1 DEF WireInv, Carries, Listens, Running, Closed, Taken, Offered
      <3>5. CloseInv(x, y)'
        BY Zenon, <2>1, <3>1 DEF CloseInv, Closed
      <3>6. AckInv(x, y)'
        <4>1. writing'[y].rec = r /\ (writing'[y].phase = "put" => wire'[y] = wire[y])
          BY <3>1 DEF Flush, Put
        <4>. QED  BY Zenon, <2>1, <2>6, <3>2, <4>1 DEF AckInv, Writing
      <3>. QED  BY <3>3, <3>4, <3>5, <3>6 DEF PairInv
    <2>. QED  BY Zenon, <2>1, <2>5, <2>6
  <1>. QED  BY Zenon, <1>1, <1>2 DEF Inv

(* A side that writes anything but a FIN_ACK changes nothing its peer has  *)
(* to keep to.                                                             *)
LEMMA WriterPair ==
    ASSUME Inv, NEW x \in Side, NEW y \in Side, x # y,
           NEW r \in Record, r.tag # "FIN_ACK", writing'[y] \in {Flush(r), Put(r)},
           wire'[y] \in {wire[y], Append(wire[y], r)},
           wire'[x] = wire[x], writing'[x] = writing[x], finSent'[x] = finSent[x],
           sent' = sent, localOpen' = localOpen, received' = received,
           theirFin' = theirFin, confirmed' = confirmed, delivering' = delivering,
           outcome' = outcome, path' = path, toOutbound' = toOutbound
    PROVE  PairInv(x, y)'
  <1>1. /\ FinInv(x) /\ WireInv(x, y) /\ CloseInv(x, y) /\ AckInv(x, y)
    BY Zenon, Unpacked
  <1>2. /\ wire[y] \in Seq(Record) /\ OneOf(wire[y], "FIN_ACK", received[y])
    BY Zenon, <1>1, PairTypes DEF AckInv, Inv
  <1>3. /\ OneOf(wire'[y], "FIN_ACK", received[y])
        /\ Has(wire'[y], "FIN_ACK") <=> Has(wire[y], "FIN_ACK")
    <2>1. CASE wire'[y] = wire[y]
      BY Zenon, <1>2, <2>1
    <2>2. CASE wire'[y] = Append(wire[y], r)
      BY <1>2, <2>2, HasAppend
    <2>. QED  BY Zenon, <2>1, <2>2
  <1>4. writing'[y].rec = r
    BY DEF Flush, Put
  <1>5. FinInv(x)'
    BY Zenon, <1>1 DEF FinInv, Writing
  <1>6. WireInv(x, y)'
    BY Zenon, <1>1 DEF WireInv, Carries, Listens, Running, Closed, Taken, Offered
  <1>7. CloseInv(x, y)'
    BY Zenon, <1>1 DEF CloseInv, Closed
  <1>8. AckInv(x, y)'
    BY Zenon, <1>1, <1>3, <1>4 DEF AckInv, Writing
  <1>. QED  BY Zenon, <1>5, <1>6, <1>7, <1>8 DEF PairInv

(* A DATA record goes out: the peer can take it before the writer counts.  *)
LEMMA WriteDataInv ==
    ASSUME Inv, TypeOK', NEW s \in Side, Writes(s, Data(sent[s])), ~finSent[s],
           writing[s] = Nothing \/ writing[s] = Put(Data(sent[s])),
           sent' = sent, finSent' = finSent, localOpen' = localOpen, received' = received,
           theirFin' = theirFin, confirmed' = confirmed, delivering' = delivering,
           outcome' = outcome, path' = path, toOutbound' = toOutbound
    PROVE  Inv'
  <1>. DEFINE r == Data(sent[s])
  <1>0. r \in Record /\ r.tag = "DATA" /\ Stream(r)
    BY Zenon, RecordFacts DEF Inv, TypeOK, Data
  <1>1. HonestPeerNeverBlamed'
    BY Zenon DEF Inv, HonestPeerNeverBlamed
  <1>2. ASSUME NEW x \in Side, NEW y \in Side, x # y
        PROVE  PairInv(x, y)'
    <2>1. /\ FinInv(x) /\ WireInv(x, y) /\ CloseInv(x, y) /\ AckInv(x, y)
          /\ Peer(x) = y /\ Peer(y) = x /\ Side = {x, y} /\ AckInv(y, x)
      BY Zenon, <1>2, Unpacked
    <2>2. TypeOK
      BY Zenon DEF Inv
    <2>3. /\ wire[x] \in Seq(Record) /\ Taken(y) \in Nat /\ Offered(x) \in Nat
          /\ wire[y] \in Seq(Record)
          /\ OneOf(wire[x], "FIN_ACK", received[x]) /\ OneOf(wire[y], "FIN_ACK", received[y])
      BY Zenon, <2>1, <2>2, PairTypes DEF AckInv
    <2>5. CASE x = s
      <3>1. /\ wire'[y] = wire[y] /\ writing'[y] = writing[y]
            /\ \/ /\ Carries /\ Running(y) /\ wire'[x] = Append(wire[x], r)
                  /\ writing'[x] = Flush(r)
               \/ ~(Carries /\ Running(y)) /\ wire'[x] = wire[x] /\ writing'[x] = Flush(r)
               \/ wire'[x] = wire[x] /\ writing'[x] = Put(r)
        BY Zenon, <1>0, <1>2, <2>1, <2>2, <2>5, WriteCases
      <3>2. /\ writing'[x].rec = r /\ writing'[x].phase # "none"
            /\ writing[x].phase \in {"none", "put"} /\ (writing[x].phase = "put" => writing[x].rec = r)
        BY <2>5, <3>1 DEF Flush, Put, Nothing
      <3>3. Offered(x) = sent[x] /\ Taken(y)' = Taken(y)
            /\ ~finSent[x] /\ ~HasFin(wire[x]) /\ ~Closed(y)
        <4>1. ~finSent[x] /\ ~HasFin(wire[x]) /\ ~Closed(y)
          BY Zenon, <2>1, <2>5 DEF CloseInv
        <4>2. Taken(y)' = Taken(y)
          BY Zenon DEF Taken
        <4>3. sent[x] \in Nat /\ writing[x].phase # "flush"
          BY Zenon, <2>2, <3>2, PairTypes
        <4>. QED  BY <4>1, <4>2, <4>3 DEF Offered
      <3>4. FinInv(x)'
        BY Zenon, <1>0, <2>1, <2>5, <3>2 DEF FinInv, Writing
      <3>5. ~HasFin(wire'[x])
        <4>1. CASE wire'[x] = wire[x]
          BY Zenon, <3>3, <4>1
        <4>2. CASE wire'[x] = Append(wire[x], r)
          BY Zenon, <1>0, <2>3, <3>3, <4>2, HasAppend
        <4>. QED  BY Zenon, <3>1, <4>1, <4>2
      <3>6. CloseInv(x, y)'
        BY Zenon, <1>0, <2>1, <3>1, <3>2, <3>5 DEF CloseInv, Closed
      <3>7. AckInv(x, y)'
        BY Zenon, <2>1, <3>1 DEF AckInv, Writing
      <3>8. WireInv(x, y)'
        <4>1. CASE /\ Carries /\ Running(y) /\ wire'[x] = Append(wire[x], r)
                   /\ writing'[x] = Flush(r)
          <5>1. Offered(x)' = Offered(x) + 1
            BY SMTT(30), <1>0, <3>3, <4>1 DEF Offered, Flush
          <5>2. r = Data(Offered(x))
            BY Zenon, <2>5, <3>3
          <5>3. ASSUME Listens(y)
                PROVE  /\ Streams(wire'[x], Taken(y), Offered(x) + 1)
                       /\ Full(wire'[x], Taken(y), Offered(x) + 1)
                       /\ Taken(y) <= Offered(x)
            <6>1. /\ Streams(wire[x], Taken(y), Offered(x)) /\ Full(wire[x], Taken(y), Offered(x))
                  /\ Taken(y) <= Offered(x)
              BY Zenon, <2>1, <4>1, <5>3 DEF WireInv
            <6>. QED  BY Zenon, <2>3, <3>3, <4>1, <5>2, <6>1, StreamsData
          <5>. QED  BY SMTT(30), <2>3, <3>3, <5>1, <5>3 DEF WireInv, Listens, Running, Closed
        <4>2. CASE /\ ~(Carries /\ Running(y)) /\ wire'[x] = wire[x]
                   /\ writing'[x] = Flush(r)
          <5>1. Offered(x)' = Offered(x) + 1
            BY SMTT(30), <1>0, <3>3, <4>2 DEF Offered, Flush
          <5>2. Streams(wire[x], Taken(y), Offered(x)) => Streams(wire[x], Taken(y), Offered(x) + 1)
            BY Zenon, <2>3, <3>3, StreamsGrow
          <5>. QED  BY SMTT(30), <2>1, <2>3, <3>3, <4>2, <5>1, <5>2
                    DEF WireInv, Listens, Running, Closed, Carries
        <4>3. CASE wire'[x] = wire[x] /\ writing'[x] = Put(r)
          <5>1. Offered(x)' = Offered(x)
            <6>1. writing'[x].phase = "put"
              BY <4>3 DEF Put
            <6>. QED  BY <2>2, <3>3, <6>1, PairTypes DEF Offered
          <5>. QED  BY Zenon, <2>1, <3>3, <4>3, <5>1 DEF WireInv, Listens, Running, Closed, Carries
        <4>. QED  BY Zenon, <3>1, <4>1, <4>2, <4>3
      <3>. QED  BY Zenon, <3>4, <3>6, <3>7, <3>8 DEF PairInv
    <2>6. CASE y = s
      <3>1. /\ wire'[x] = wire[x] /\ writing'[x] = writing[x]
            /\ wire'[y] \in {wire[y], Append(wire[y], r)} /\ writing'[y] \in {Flush(r), Put(r)}
        BY Zenon, <1>0, <1>2, <2>1, <2>2, <2>6, WriteCases
      <3>2. finSent'[x] = finSent[x]
        BY Zenon, <1>2, <2>2, <2>6 DEF TypeOK
      <3>. QED  BY Zenon, <1>0, <1>2, <3>1, <3>2, WriterPair
    <2>. QED  BY Zenon, <2>1, <2>5, <2>6
  <1>. QED  BY Zenon, <1>1, <1>2 DEF Inv

(* The normal end goes out, behind everything offered.                     *)
LEMMA WriteFinInv ==
    ASSUME Inv, TypeOK', NEW s \in Side, Writes(s, Fin(sent[s])),
           \/ writing[s] = Nothing /\ ~finSent[s]
           \/ writing[s] = Put(Fin(sent[s])),
           sent' = sent, finSent' = [finSent EXCEPT ![s] = TRUE], localOpen' = localOpen,
           received' = received, theirFin' = theirFin, confirmed' = confirmed,
           delivering' = delivering, outcome' = outcome, path' = path, toOutbound' = toOutbound
    PROVE  Inv'
  <1>. DEFINE r == Fin(sent[s])
  <1>0. r \in Record /\ r.tag = "FIN"
    BY Zenon, RecordFacts DEF Inv, TypeOK, Fin
  <1>1. HonestPeerNeverBlamed'
    BY Zenon DEF Inv, HonestPeerNeverBlamed
  <1>2. ASSUME NEW x \in Side, NEW y \in Side, x # y
        PROVE  PairInv(x, y)'
    <2>1. /\ FinInv(x) /\ WireInv(x, y) /\ CloseInv(x, y) /\ AckInv(x, y)
          /\ Peer(x) = y /\ Peer(y) = x /\ Side = {x, y} /\ AckInv(y, x)
      BY Zenon, <1>2, Unpacked
    <2>2. TypeOK
      BY Zenon DEF Inv
    <2>3. /\ wire[x] \in Seq(Record) /\ Taken(y) \in Nat /\ Offered(x) \in Nat
          /\ wire[y] \in Seq(Record)
          /\ OneOf(wire[x], "FIN_ACK", received[x]) /\ OneOf(wire[y], "FIN_ACK", received[y])
      BY Zenon, <2>1, <2>2, PairTypes DEF AckInv
    <2>5. CASE x = s
      <3>1. /\ wire'[y] = wire[y] /\ writing'[y] = writing[y]
            /\ \/ /\ Carries /\ wire'[x] = Append(wire[x], r)
                  /\ writing'[x] = Flush(r)
               \/ wire'[x] = wire[x] /\ writing'[x] \in {Put(r), Flush(r)}
        BY Zenon, <1>0, <1>2, <2>1, <2>2, <2>5, WriteCases
      <3>2. /\ writing'[x].rec = r /\ writing'[x].phase # "none"
            /\ writing[x].phase \in {"none", "put"} /\ (writing[x].phase = "put" => writing[x].rec = r)
            /\ writing'[x].phase = "put" => wire'[x] = wire[x]
        BY SMTT(30), <2>5, <3>1 DEF Flush, Put, Nothing
      <3>3. Offered(x) = sent[x] /\ Taken(y)' = Taken(y)
            /\ ~HasFin(wire[x]) /\ ~Closed(y) /\ finSent'[x]
        <4>1. CASE writing[x].phase = "none" /\ ~finSent[x]
          BY SMTT(30), <2>1, <2>2, <2>5, <4>1, PairTypes DEF Offered, Taken, CloseInv, TypeOK
        <4>2. CASE writing[x].phase = "put" /\ writing[x].rec = r
          BY SMTT(30), <1>0, <2>1, <2>2, <2>5, <4>2, PairTypes DEF Offered, Taken, CloseInv, TypeOK
        <4>. QED  BY SMTT(30), <2>5, <4>1, <4>2 DEF Nothing, Put
      <3>4. FinInv(x)'
        BY Zenon, <1>0, <2>1, <2>5, <3>2, <3>3 DEF FinInv, Writing
      <3>6. CloseInv(x, y)'
        BY Zenon, <1>0, <2>1, <3>1, <3>2, <3>3 DEF CloseInv, Closed
      <3>7. AckInv(x, y)'
        BY Zenon, <2>1, <3>1 DEF AckInv, Writing
      <3>8. WireInv(x, y)'
        <4>0. Offered(x)' = Offered(x)
          BY Zenon, <1>0, <3>2, <3>3 DEF Offered
        <4>1. CASE Carries /\ wire'[x] = Append(wire[x], r)
          <5>2. r = Fin(Offered(x))
            BY Zenon, <2>5, <3>3
          <5>3. ASSUME Listens(y)
                PROVE  /\ Streams(wire'[x], Taken(y), Offered(x))
                       /\ Full(wire'[x], Taken(y), Offered(x))
                       /\ Taken(y) <= Offered(x)
            <6>1. /\ Streams(wire[x], Taken(y), Offered(x)) /\ Full(wire[x], Taken(y), Offered(x))
                  /\ Taken(y) <= Offered(x)
              BY Zenon, <2>1, <4>1, <5>3 DEF WireInv
            <6>. QED  BY Zenon, <1>0, <2>3, <3>3, <4>1, <5>2, <6>1, StreamsFin, FullAppend
          <5>. QED  BY Zenon, <2>3, <3>3, <4>0, <5>3 DEF WireInv, Listens, Running, Closed
        <4>2. CASE wire'[x] = wire[x]
          BY Zenon, <2>1, <3>3, <4>0, <4>2 DEF WireInv, Listens, Running, Closed, Carries
        <4>. QED  BY Zenon, <3>1, <4>1, <4>2
      <3>. QED  BY Zenon, <3>4, <3>6, <3>7, <3>8 DEF PairInv
    <2>6. CASE y = s
      <3>1. /\ wire'[x] = wire[x] /\ writing'[x] = writing[x]
            /\ wire'[y] \in {wire[y], Append(wire[y], r)} /\ writing'[y] \in {Flush(r), Put(r)}
        BY Zenon, <1>0, <1>2, <2>1, <2>2, <2>6, WriteCases
      <3>2. finSent'[x] = finSent[x]
        BY Zenon, <1>2, <2>2, <2>6 DEF TypeOK
      <3>. QED  BY Zenon, <1>0, <1>2, <3>1, <3>2, WriterPair
    <2>. QED  BY Zenon, <2>1, <2>5, <2>6
  <1>. QED  BY Zenon, <1>1, <1>2 DEF Inv

-----------------------------------------------------------------------------
(* The flush returns: what the peer may have taken is now counted.         *)
LEMMA WriteDoneInv ==
    ASSUME Inv, TypeOK', NEW s \in Side, WriteDone(s)
    PROVE  Inv'
  <1>1. HonestPeerNeverBlamed'
    BY Zenon DEF Inv, HonestPeerNeverBlamed, WriteDone
  <1>2. ASSUME NEW x \in Side, NEW y \in Side, x # y
        PROVE  PairInv(x, y)'
    <2>1. /\ FinInv(x) /\ WireInv(x, y) /\ CloseInv(x, y) /\ AckInv(x, y)
          /\ Peer(x) = y /\ Peer(y) = x /\ Side = {x, y}
      BY Zenon, <1>2, Unpacked
    <2>2. TypeOK
      BY Zenon DEF Inv
    <2>3. /\ finSent' = finSent /\ received' = received /\ theirFin' = theirFin
          /\ confirmed' = confirmed /\ delivering' = delivering /\ toOutbound' = toOutbound
          /\ outcome' = outcome /\ wire' = wire /\ path' = path
          /\ writing[s].phase = "flush"
      BY Zenon DEF WriteDone, inVars
    <2>4. CASE x = s
      <3>1. /\ writing'[x] = Nothing /\ writing'[y] = writing[y]
            /\ sent'[x] = IF writing[x].rec.tag = "DATA" THEN sent[x] + 1 ELSE sent[x]
            /\ localOpen'[x] = (localOpen[x] /\ writing[x].rec.tag # "FIN")
        BY <1>2, <2>2, <2>4 DEF WriteDone, TypeOK
      <3>2. writing'[x].phase = "none"
        BY <3>1 DEF Nothing
      <3>3. FinInv(x)'
        BY Zenon, <2>1, <2>3, <2>4, <3>1, <3>2 DEF FinInv, Writing
      <3>4. CloseInv(x, y)'
        BY Zenon, <2>1, <2>3, <2>4, <3>1, <3>2 DEF CloseInv, Closed, FinInv, Writing
      <3>5. AckInv(x, y)'
        BY Zenon, <2>1, <2>3, <3>1 DEF AckInv, Writing
      <3>6. Offered(x)' = Offered(x)
        BY <2>2, <2>3, <2>4, <3>1, <3>2, PairTypes DEF Offered
      <3>7. WireInv(x, y)'
        BY Zenon, <2>1, <2>3, <3>6 DEF WireInv, Listens, Running, Closed, Carries, Taken
      <3>. QED  BY Zenon, <3>3, <3>4, <3>5, <3>7 DEF PairInv
    <2>5. CASE y = s
      <3>1. /\ writing'[y] = Nothing /\ writing'[x] = writing[x]
            /\ sent'[x] = sent[x] /\ localOpen'[x] = localOpen[x]
        BY <1>2, <2>2, <2>5 DEF WriteDone, TypeOK
      <3>2. writing'[y].phase = "none"
        BY <3>1 DEF Nothing
      <3>3. FinInv(x)'
        BY Zenon, <2>1, <2>3, <3>1 DEF FinInv, Writing
      <3>4. CloseInv(x, y)'
        BY Zenon, <2>1, <2>3, <3>1 DEF CloseInv, Closed
      <3>5. AckInv(x, y)'
        BY Zenon, <2>1, <2>3, <3>2 DEF AckInv, Writing
      <3>6. WireInv(x, y)'
        BY Zenon, <2>1, <2>3, <3>1 DEF WireInv, Listens, Running, Closed, Carries, Taken, Offered
      <3>. QED  BY <3>3, <3>4, <3>5, <3>6 DEF PairInv
    <2>. QED  BY Zenon, <2>1, <2>4, <2>5
  <1>. QED  BY Zenon, <1>1, <1>2 DEF Inv

(* What the head of the path tells its reader, and that it is no error     *)
(* unless the peer said so (ReadRecord, Verdict).                          *)
LEMMA HeadFacts ==
    ASSUME Inv, NEW s \in Side, NEW p \in Side, p = Peer(s), p # s, Readable(s)
    PROVE  /\ wire[p] \in Seq(Record) /\ wire[p] # <<>> /\ Head(wire[p]) \in Record
           /\ Listens(s) /\ Taken(s) = received[s]
           /\ Head(wire[p]).tag = "DATA" => ~theirFin[s] /\ ~Closed(s)
           /\ Head(wire[p]).tag = "FIN" /\ Head(wire[p]).normal =>
                 /\ ~theirFin[s] /\ Head(wire[p]).n = received[s]
                 /\ finSent[p] /\ received[s] = sent[p]
           /\ Head(wire[p]).tag = "FIN_ACK" =>
                 finSent[s] /\ ~confirmed[s] /\ Head(wire[p]).n = sent[s] /\ theirFin[p]
           /\ Verdict(s, Head(wire[p])) \in {"open", "PeerEnded"}
           /\ Verdict(s, Head(wire[p])) = "open" /\ Head(wire[p]).tag = "FIN"
                 => Head(wire[p]).normal
  <1>. DEFINE r == Head(wire[p])
  <1>1. TypeOK /\ Running(s) /\ delivering[s] = "no" /\ wire[p] # <<>>
    BY Zenon DEF Inv, Readable, Reading
  <1>2. /\ wire[p] \in Seq(Record) /\ Taken(s) \in Nat /\ Offered(p) \in Nat
        /\ received[s] \in Nat /\ sent[p] \in Nat
    BY Zenon, <1>1, PairTypes
  <1>3. /\ FinInv(p) /\ WireInv(p, s) /\ CloseInv(p, s) /\ CloseInv(s, p) /\ AckInv(s, p)
    BY Zenon, Unpacked
  <1>4. Listens(s) /\ Taken(s) = received[s]
    BY <1>1, <1>2 DEF Listens, Taken
  <1>5. /\ Streams(wire[p], Taken(s), Offered(p)) /\ OneOf(wire[p], "FIN_ACK", received[p])
        /\ Closed(s) => NoStream(wire[p])
    BY Zenon, <1>3, <1>4 DEF WireInv, AckInv
  <1>6. /\ r \in Record
        /\ r.tag = "FIN" /\ r.normal => r.n = Taken(s) /\ Taken(s) = Offered(p)
    BY Zenon, <1>1, <1>2, <1>5, StreamsTail
  <1>7. /\ r.tag = "FIN_ACK" => Has(wire[p], "FIN_ACK") /\ r.n = received[p]
        /\ r.tag = "FIN" /\ r.normal => HasFin(wire[p])
        /\ NoStream(wire[p]) => ~Stream(r)
    BY <1>1, <1>2, <1>5, HasTail
  <1>. HIDE DEF r
  <1>8. r.tag = "DATA" \/ (r.tag = "FIN" /\ r.normal) => ~Closed(s) /\ ~theirFin[s]
    BY Zenon, <1>5, <1>7 DEF Stream, Closed
  <1>9. r.tag = "FIN" /\ r.normal => finSent[p] /\ received[s] = sent[p] /\ r.n = received[s]
    <2>1. ASSUME r.tag = "FIN", r.normal
          PROVE  finSent[p]
      BY Zenon, <1>3, <1>7, <2>1 DEF CloseInv
    <2>2. finSent[p] => Offered(p) = sent[p]
      BY SMTT(30), <1>2, <1>3 DEF FinInv, Writing, Offered
    <2>. QED  BY Zenon, <1>4, <1>6, <2>1, <2>2
  <1>10. r.tag = "FIN_ACK" => finSent[s] /\ ~confirmed[s] /\ r.n = sent[s] /\ theirFin[p]
    BY Zenon, <1>3, <1>7 DEF CloseInv, AckInv, Closed
  <1>11. r.tag \in {"DATA", "FIN", "FIN_ACK", "PROGRESS"} /\ r.normal \in BOOLEAN
    BY Zenon, <1>6, RecordType
  <1>12. Verdict(s, r) \in {"open", "PeerEnded"}
         /\ (Verdict(s, r) = "open" /\ r.tag = "FIN" => r.normal)
    BY Zenon, <1>8, <1>9, <1>10, <1>11 DEF Verdict
  <1>. QED  BY Zenon, <1>1, <1>2, <1>4, <1>6, <1>8, <1>9, <1>10, <1>12 DEF r

(* A record is taken off the path.                                         *)
LEMMA AcceptInv ==
    ASSUME Inv, TypeOK', NEW s \in Side, Readable(s),
           Verdict(s, Head(wire[Peer(s)])) = "open", Accept(s, Head(wire[Peer(s)]))
    PROVE  Inv'
  <1>1. HonestPeerNeverBlamed'
    BY Zenon DEF Inv, HonestPeerNeverBlamed, Accept
  <1>2. ASSUME NEW x \in Side, NEW y \in Side, x # y
        PROVE  PairInv(x, y)'
    <2>1. /\ FinInv(x) /\ WireInv(x, y) /\ CloseInv(x, y) /\ AckInv(x, y)
          /\ Peer(x) = y /\ Peer(y) = x /\ Side = {x, y}
      BY Zenon, <1>2, Unpacked
    <2>2. TypeOK
      BY Zenon DEF Inv
    <2>3. /\ sent' = sent /\ finSent' = finSent /\ localOpen' = localOpen /\ writing' = writing
          /\ received' = received /\ theirFin' = theirFin /\ toOutbound' = toOutbound
          /\ outcome' = outcome /\ path' = path
      BY Zenon DEF Accept, outVars
    <2>4. FinInv(x)'
      BY Zenon, <2>1, <2>3 DEF FinInv, Writing
    <2>5. CASE x = s
      <3>. DEFINE r == Head(wire[y])
      <3>1. /\ wire'[y] = Tail(wire[y]) /\ wire'[x] = wire[x]
            /\ confirmed'[x] = (confirmed[x] \/ r.tag = "FIN_ACK")
            /\ delivering'[y] = delivering[y]
        BY Zenon, <1>2, <2>1, <2>2, <2>5 DEF Accept, TypeOK
      <3>2. /\ wire[y] \in Seq(Record) /\ wire[y] # <<>>
            /\ r.tag = "FIN_ACK" => theirFin[y]
        BY Zenon, <1>2, <2>1, <2>5, HeadFacts
      <3>3. WireInv(x, y)'
        BY Zenon, <2>1, <2>3, <3>1 DEF WireInv, Listens, Running, Closed, Carries, Taken, Offered
      <3>4. OneOf(wire[y], "FIN_ACK", received[y])
        BY Zenon, <2>1 DEF AckInv
      <3>5. /\ r.tag = "FIN_ACK" => Has(wire[y], "FIN_ACK") /\ ~Has(Tail(wire[y]), "FIN_ACK")
            /\ Has(Tail(wire[y]), "FIN_ACK") => Has(wire[y], "FIN_ACK")
            /\ OneOf(Tail(wire[y]), "FIN_ACK", received[y])
        BY Zenon, <3>2, <3>4, HasTail
      <3>. HIDE DEF r
      <3>6. CloseInv(x, y)'
        BY Zenon, <2>1, <2>3, <3>1, <3>2 DEF CloseInv, Closed
      <3>7. AckInv(x, y)'
        BY Zenon, <2>1, <2>3, <3>1, <3>5 DEF AckInv, Writing
      <3>. QED  BY Zenon, <2>4, <3>3, <3>6, <3>7 DEF PairInv
    <2>6. CASE y = s
      <3>. DEFINE r == Head(wire[x])
      <3>1. /\ wire'[x] = Tail(wire[x]) /\ wire'[y] = wire[y] /\ confirmed'[x] = confirmed[x]
            /\ delivering'[y] = IF r.tag = "DATA" THEN "data"
                                ELSE IF r.tag = "FIN" THEN "end" ELSE "no"
        BY Zenon, <1>2, <2>1, <2>2, <2>6 DEF Accept, TypeOK
      <3>2. /\ wire[x] \in Seq(Record) /\ wire[x] # <<>> /\ r \in Record
            /\ Listens(y) /\ Taken(y) = received[y]
            /\ r.tag = "DATA" => ~theirFin[y] /\ ~Closed(y)
            /\ r.tag = "FIN" => ~theirFin[y] /\ finSent[x] /\ received[y] = sent[x] /\ r.normal
        <4>1. y \in Side /\ x \in Side /\ x = Peer(y) /\ x # y /\ Readable(y) /\ Verdict(y, r) = "open"
          BY Zenon, <1>2, <2>1, <2>6
        <4>. HIDE DEF r
        <4>2. /\ wire[x] \in Seq(Record) /\ wire[x] # <<>> /\ r \in Record
              /\ Listens(y) /\ Taken(y) = received[y]
              /\ r.tag = "DATA" => ~theirFin[y] /\ ~Closed(y)
          BY Zenon, <4>1, HeadFacts DEF r
        <4>3. r.tag = "FIN" => r.normal
          BY Zenon, <4>1, HeadFacts DEF r
        <4>4. r.tag = "FIN" /\ r.normal => ~theirFin[y] /\ finSent[x] /\ received[y] = sent[x]
          BY <4>1, HeadFacts DEF r
        <4>. QED  BY Zenon, <4>2, <4>3, <4>4
      <3>3. /\ Taken(y) \in Nat /\ Offered(x) \in Nat /\ received[y] \in Nat
        BY Zenon, <2>2, PairTypes
      <3>4. /\ Streams(wire[x], Taken(y), Offered(x)) /\ Taken(y) <= Offered(x)
            /\ Carries => Full(wire[x], Taken(y), Offered(x))
            /\ Closed(y) => NoStream(wire[x])
        BY Zenon, <2>1, <3>2 DEF WireInv
      <3>5. OneOf(wire[x], "FIN_ACK", received[x])
        BY Zenon, <1>2, Unpacked DEF AckInv
      <3>6. /\ HasFin(Tail(wire[x])) => HasFin(wire[x])
            /\ NoStream(wire[x]) => NoStream(Tail(wire[x])) /\ ~Stream(r)
            /\ r.tag = "FIN" => HasFin(wire[x])
        BY Zenon, <3>2, <3>5, HasTail
      <3>7. WireInv(x, y)'
        <4>1. Offered(x)' = Offered(x)
          BY Zenon, <2>3 DEF Offered
        <4>2. CASE r.tag = "DATA"
          <5>1. Taken(y)' = Taken(y) + 1 /\ ~Closed(y)'
            BY Zenon, <2>3, <3>1, <3>2, <4>2 DEF Taken, Closed
          <5>2. /\ Taken(y) < Offered(x) /\ Streams(Tail(wire[x]), Taken(y) + 1, Offered(x))
                /\ Carries => Full(Tail(wire[x]), Taken(y) + 1, Offered(x))
            BY Zenon, <3>2, <3>3, <3>4, <4>2, StreamsTail
          <5>. QED  BY <2>3, <3>1, <3>3, <4>1, <5>1, <5>2 DEF WireInv, Carries
        <4>3. CASE r.tag = "FIN"
          <5>1. Taken(y)' = Taken(y)
            <6>1. delivering'[y] # "data" /\ received'[y] = received[y]
              BY Zenon, <2>3, <3>1, <4>3
            <6>2. Taken(y)' = received[y]
              BY <3>3, <6>1 DEF Taken
            <6>. QED  BY Zenon, <3>2, <6>2
          <5>2. /\ Streams(Tail(wire[x]), Taken(y), Offered(x))
                /\ Full(Tail(wire[x]), Taken(y), Offered(x)) /\ NoStream(Tail(wire[x]))
            BY Zenon, <3>2, <3>3, <3>4, <4>3, StreamsTail
          <5>. QED  BY Zenon, <2>3, <3>1, <3>4, <4>1, <5>1, <5>2 DEF WireInv, Carries
        <4>4. CASE r.tag \notin {"DATA", "FIN"}
          <5>1. Taken(y)' = Taken(y) /\ delivering'[y] # "end"
            <6>1. /\ delivering'[y] # "data" /\ delivering'[y] # "end"
                  /\ received'[y] = received[y]
              BY Zenon, <2>3, <3>1, <4>4
            <6>2. Taken(y)' = received[y]
              BY <3>3, <6>1 DEF Taken
            <6>. QED  BY Zenon, <3>2, <6>1, <6>2
          <5>2. ~Stream(r)
            BY Zenon, <4>4 DEF Stream
          <5>3. /\ Streams(Tail(wire[x]), Taken(y), Offered(x))
                /\ Carries => Full(Tail(wire[x]), Taken(y), Offered(x))
            BY Zenon, <3>2, <3>3, <3>4, <5>2, StreamsTail
          <5>. QED  BY Zenon, <2>3, <3>1, <3>4, <3>6, <4>1, <5>1, <5>3 DEF WireInv, Carries, Closed
        <4>. QED  BY Zenon, <4>2, <4>3, <4>4
      <3>. HIDE DEF r
      <3>8. CloseInv(x, y)'
        BY Zenon, <2>1, <2>3, <3>1, <3>2, <3>6 DEF CloseInv, Closed
      <3>9. AckInv(x, y)'
        BY Zenon, <2>1, <2>3, <3>1 DEF AckInv, Writing
      <3>. QED  BY <2>4, <3>7, <3>8, <3>9 DEF PairInv
    <2>. QED  BY Zenon, <2>1, <2>5, <2>6
  <1>. QED  BY Zenon, <1>1, <1>2 DEF Inv

(* The local side took the record, or the end: what was taken is counted,  *)
(* and the one FIN_ACK is asked for.                                       *)
LEMMA DeliveredInv ==
    ASSUME Inv, TypeOK', NEW s \in Side, Delivered(s)
    PROVE  Inv'
  <1>1. HonestPeerNeverBlamed'
    BY Zenon DEF Inv, HonestPeerNeverBlamed, Delivered
  <1>2. ASSUME NEW x \in Side, NEW y \in Side, x # y
        PROVE  PairInv(x, y)'
    <2>1. /\ FinInv(x) /\ WireInv(x, y) /\ CloseInv(x, y) /\ AckInv(x, y)
          /\ CloseInv(y, x) /\ Peer(x) = y /\ Peer(y) = x /\ Side = {x, y}
      BY Zenon, <1>2, Unpacked
    <2>2. TypeOK
      BY DEF Inv
    <2>3. /\ sent' = sent /\ finSent' = finSent /\ localOpen' = localOpen /\ writing' = writing
          /\ confirmed' = confirmed /\ outcome' = outcome /\ wire' = wire /\ path' = path
          /\ Running(s) /\ delivering[s] \in {"data", "end"}
      BY Zenon DEF Delivered, outVars
    <2>4. CASE x = s
      <3>1. /\ received'[y] = received[y] /\ theirFin'[y] = theirFin[y]
            /\ delivering'[y] = delivering[y] /\ toOutbound'[y] = toOutbound[y]
        BY <1>2, <2>2, <2>4 DEF Delivered, TypeOK
      <3>2. ~theirFin[x]
        BY Zenon, <2>1, <2>3, <2>4 DEF CloseInv
      <3>3. FinInv(x)'
        BY Zenon, <2>1, <2>3, <3>2 DEF FinInv, Writing
      <3>4. WireInv(x, y)'
        BY Zenon, <2>1, <2>3, <3>1 DEF WireInv, Listens, Running, Closed, Carries, Taken, Offered
      <3>5. CloseInv(x, y)'
        BY Zenon, <2>1, <2>3, <3>1 DEF CloseInv, Closed
      <3>6. AckInv(x, y)'
        BY Zenon, <2>1, <2>3, <3>1 DEF AckInv, Writing
      <3>. QED  BY Zenon, <3>3, <3>4, <3>5, <3>6 DEF PairInv
    <2>5. CASE y = s
      <3>1. /\ ~theirFin[y] /\ ~confirmed[x] /\ ~Has(wire[y], "FIN_ACK")
            /\ ~Has(toOutbound[y], "ACK")
        BY Zenon, <2>1, <2>3, <2>5 DEF CloseInv, AckInv
      <3>2. \A n : OneOf(wire[y], "FIN_ACK", n) /\ OneOf(toOutbound[y], "ACK", n)
        BY Zenon, <3>1 DEF Has, OneOf
      <3>3. ~Writing(y, "FIN_ACK")
        BY Zenon, <1>2, <3>1, Unpacked DEF FinInv
      <3>4. /\ received'[x] = received[x] /\ theirFin'[x] = theirFin[x]
            /\ delivering'[y] = "no" /\ Taken(y)' = Taken(y) /\ Closed(y)' = Closed(y)
        <4>1. /\ received'[x] = received[x] /\ theirFin'[x] = theirFin[x]
              /\ received'[y] = IF delivering[y] = "data" THEN received[y] + 1 ELSE received[y]
              /\ theirFin'[y] = (theirFin[y] \/ delivering[y] = "end")
              /\ delivering'[y] = "no" /\ received[y] \in Nat
          BY <1>2, <2>2, <2>5 DEF Delivered, TypeOK
        <4>2. Taken(y)' = Taken(y)
          BY <4>1 DEF Taken
        <4>3. Closed(y)' = Closed(y)
          BY Zenon, <4>1, <2>2 DEF Closed, TypeOK
        <4>. QED  BY Zenon, <4>1, <4>2, <4>3
      <3>5. FinInv(x)'
        BY Zenon, <2>1, <2>3, <3>4 DEF FinInv, Writing
      <3>6. WireInv(x, y)'
        BY Zenon, <2>1, <2>3, <2>5, <3>4 DEF WireInv, Listens, Running, Carries, Offered
      <3>7. Closed(y) => received'[y] = received[y]
        BY Zenon, <2>2, <2>5, <3>1 DEF Closed, Delivered, TypeOK
      <3>8. CloseInv(x, y)'
        BY Zenon, <2>1, <2>3, <3>1, <3>4, <3>7 DEF CloseInv
      <3>9. CASE delivering[y] = "data"
        <4>1. toOutbound' = toOutbound
          BY Zenon, <2>5, <3>9 DEF Delivered
        <4>2. AckInv(x, y)'
          BY Zenon, <2>3, <3>1, <3>2, <3>3, <4>1 DEF AckInv, Writing
        <4>. QED  BY <3>5, <3>6, <3>8, <4>2 DEF PairInv
      <3>10. CASE delivering[y] = "end"
        <4>. DEFINE C == [tag : {"ACK", "ABORT"}, n : Nat]
        <4>1. /\ received'[y] = received[y] /\ theirFin'[y]
              /\ toOutbound'[y] = Append(toOutbound[y], AckCmd(received[y]))
              /\ toOutbound[y] \in Seq(C) /\ AckCmd(received[y]) \in C
          BY ZenonT(30), <2>2, <2>5, <3>10 DEF Delivered, TypeOK, AckCmd
        <4>2. AckCmd(received[y]).tag = "ACK" /\ AckCmd(received[y]).n = received[y]
          BY Zenon DEF AckCmd
        <4>. HIDE DEF C
        <4>3. OneOf(toOutbound'[y], "ACK", received[y])
          BY <3>1, <3>2, <4>1, <4>2, HasAppend
        <4>4. AckInv(x, y)'
          BY Zenon, <2>3, <3>1, <3>2, <3>3, <4>1, <4>3 DEF AckInv, Writing
        <4>. QED  BY <3>5, <3>6, <3>8, <4>4 DEF PairInv
      <3>. QED  BY Zenon, <2>3, <2>5, <3>9, <3>10
    <2>. QED  BY Zenon, <2>1, <2>4, <2>5
  <1>. QED  BY <1>1, <1>2 DEF Inv

(* The local side failed: this side listens no more.                       *)
LEMMA DeliverFailsInv ==
    ASSUME Inv, TypeOK', NEW s \in Side, DeliverFails(s)
    PROVE  Inv'
  <1>1. HonestPeerNeverBlamed'
    BY Zenon DEF Inv, HonestPeerNeverBlamed, DeliverFails
  <1>2. ASSUME NEW x \in Side, NEW y \in Side, x # y
        PROVE  PairInv(x, y)'
    <2>1. /\ FinInv(x) /\ WireInv(x, y) /\ CloseInv(x, y) /\ AckInv(x, y)
          /\ Side = {x, y}
      BY Zenon, <1>2, Unpacked
    <2>2. TypeOK
      BY Zenon DEF Inv
    <2>3. /\ sent' = sent /\ finSent' = finSent /\ localOpen' = localOpen /\ writing' = writing
          /\ received' = received /\ theirFin' = theirFin
          /\ confirmed' = confirmed /\ outcome' = outcome /\ wire' = wire /\ path' = path
      BY Zenon DEF DeliverFails, outVars
    <2>4. FinInv(x)'
      BY Zenon, <2>1, <2>3 DEF FinInv, Writing
    <2>5. CASE x = s
      <3>1. delivering'[y] = delivering[y] /\ toOutbound'[y] = toOutbound[y]
        BY SMTT(30), <1>2, <2>2, <2>5 DEF DeliverFails, TypeOK
      <3>2. WireInv(x, y)'
        BY Zenon, <2>1, <2>3, <3>1 DEF WireInv, Listens, Running, Closed, Carries, Taken, Offered
      <3>3. CloseInv(x, y)'
        BY Zenon, <2>1, <2>3, <3>1 DEF CloseInv, Closed
      <3>4. AckInv(x, y)'
        BY Zenon, <2>1, <2>3, <3>1 DEF AckInv, Writing
      <3>. QED  BY Zenon, <2>4, <3>2, <3>3, <3>4 DEF PairInv
    <2>6. CASE y = s
      <3>. DEFINE C == [tag : {"ACK", "ABORT"}, n : Nat]
      <3>1. /\ delivering'[y] = "aborting" /\ toOutbound'[y] = Append(toOutbound[y], Abort)
            /\ toOutbound[y] \in Seq(C) /\ Abort \in C /\ Abort.tag # "ACK"
        BY Zenon, <1>2, <2>2, <2>6 DEF DeliverFails, TypeOK, Abort
      <3>. HIDE DEF C
      <3>2. OneOf(toOutbound[y], "ACK", received[y])
        BY Zenon, <2>1 DEF AckInv
      <3>3. /\ OneOf(toOutbound'[y], "ACK", received[y])
            /\ Has(toOutbound'[y], "ACK") <=> Has(toOutbound[y], "ACK")
        BY <3>1, <3>2, HasAppend
      <3>4. WireInv(x, y)'
        BY Zenon, <3>1 DEF WireInv, Listens
      <3>5. CloseInv(x, y)'
        BY Zenon, <2>1, <2>3, <3>1 DEF CloseInv, Closed
      <3>6. AckInv(x, y)'
        BY Zenon, <2>1, <2>3, <3>3 DEF AckInv, Writing
      <3>. QED  BY <2>4, <3>4, <3>5, <3>6 DEF PairInv
    <2>. QED  BY Zenon, <2>1, <2>5, <2>6
  <1>. QED  BY Zenon, <1>1, <1>2 DEF Inv

(* The relay drops the session, or swallows it: a prefix of what was in    *)
(* flight arrives, or nothing.                                             *)
LEMMA PathInv ==
    ASSUME Inv, TypeOK', Cut \/ BlackHole
    PROVE  Inv'
  <1>0. /\ ~Carries'
        /\ sent' = sent /\ finSent' = finSent /\ localOpen' = localOpen /\ writing' = writing
        /\ received' = received /\ theirFin' = theirFin /\ toOutbound' = toOutbound
        /\ confirmed' = confirmed /\ outcome' = outcome /\ delivering' = delivering
    BY Zenon DEF Cut, BlackHole, outVars, inVars, Carries
  <1>1. HonestPeerNeverBlamed'
    BY Zenon, <1>0 DEF Inv, HonestPeerNeverBlamed
  <1>2. ASSUME NEW x \in Side
        PROVE  \E k \in Nat : k <= Len(wire[x]) /\ wire'[x] = SubSeq(wire[x], 1, k)
    <2>1. wire[x] \in Seq(Record)
      BY Zenon DEF Inv, TypeOK
    <2>2. CASE Cut
      <3>1. PICK k \in [Side -> 0..Capacity] :
              /\ \A s \in Side : k[s] <= Len(wire[s])
              /\ wire' = [s \in Side |-> SubSeq(wire[s], 1, k[s])]
        BY Zenon, <2>2 DEF Cut
      <3>2. k[x] \in Nat
        BY <3>1
      <3>. QED  BY Zenon, <3>1, <3>2
    <2>3. CASE BlackHole
      <3>1. wire'[x] = <<>>
        BY Zenon, <2>3 DEF BlackHole
      <3>2. SubSeq(wire[x], 1, 0) = <<>> /\ 0 \in Nat /\ 0 <= Len(wire[x])
        BY <2>1
      <3>. QED  BY Zenon, <3>1, <3>2
    <2>. QED  BY Zenon, <2>2, <2>3
  <1>3. ASSUME NEW x \in Side, NEW y \in Side, x # y
        PROVE  PairInv(x, y)'
    <2>1. /\ FinInv(x) /\ WireInv(x, y) /\ CloseInv(x, y) /\ AckInv(x, y) /\ AckInv(y, x)
      BY Zenon, <1>3, Unpacked
    <2>2. /\ wire[x] \in Seq(Record) /\ wire[y] \in Seq(Record)
          /\ OneOf(wire[x], "FIN_ACK", received[x]) /\ OneOf(wire[y], "FIN_ACK", received[y])
      BY Zenon, <2>1 DEF Inv, TypeOK, AckInv
    <2>3. PICK k \in Nat : k <= Len(wire[x]) /\ wire'[x] = SubSeq(wire[x], 1, k)
      BY Zenon, <1>2
    <2>4. PICK m \in Nat : m <= Len(wire[y]) /\ wire'[y] = SubSeq(wire[y], 1, m)
      BY Zenon, <1>2
    <2>5. /\ HasFin(wire'[x]) => HasFin(wire[x])
          /\ NoStream(wire[x]) => NoStream(wire'[x])
      BY Zenon, <2>2, <2>3, HasPrefix
    <2>6. /\ OneOf(wire'[y], "FIN_ACK", received[y])
          /\ Has(wire'[y], "FIN_ACK") => Has(wire[y], "FIN_ACK")
      <3>1. /\ OneOf(SubSeq(wire[y], 1, m), "FIN_ACK", received[y])
            /\ Has(SubSeq(wire[y], 1, m), "FIN_ACK") => Has(wire[y], "FIN_ACK")
        BY Zenon, <2>2, <2>4, HasPrefix
      <3>. QED  BY Zenon, <2>4, <3>1
    <2>7. \A t, o : Streams(wire[x], t, o) => Streams(wire'[x], t, o)
      BY Zenon, <2>2, <2>3, StreamsPrefix
    <2>8. FinInv(x)'
      BY Zenon, <1>0, <2>1 DEF FinInv, Writing
    <2>9. WireInv(x, y)'
      BY Zenon, <1>0, <2>1, <2>5, <2>7 DEF WireInv, Listens, Running, Closed, Taken, Offered
    <2>10. CloseInv(x, y)'
      BY Zenon, <1>0, <2>1, <2>5 DEF CloseInv, Closed
    <2>11. AckInv(x, y)'
      BY Zenon, <1>0, <2>1, <2>6 DEF AckInv, Writing
    <2>. QED  BY Zenon, <2>8, <2>9, <2>10, <2>11 DEF PairInv
  <1>. QED  BY Zenon, <1>1, <1>3 DEF Inv

(* The facts a write in hand rests on (the turns of outbound's select).    *)
LEMMA PutFacts ==
    ASSUME Inv, NEW s \in Side, writing[s].phase = "put"
    PROVE  /\ writing[s] = Put(writing[s].rec) /\ writing[s].rec \in Record
           /\ writing[s].rec.tag = "DATA" => ~finSent[s] /\ writing[s].rec = Data(sent[s])
           /\ writing[s].rec.tag = "FIN" => finSent[s] /\ writing[s].rec = Fin(sent[s])
           /\ writing[s].rec.tag = "FIN_ACK" =>
                 /\ theirFin[s] /\ writing[s].rec.n = received[s]
                 /\ ~confirmed[Peer(s)] /\ ~Has(wire[s], "FIN_ACK")
                 /\ ~Has(toOutbound[s], "ACK")
           /\ writing[s].rec.tag \in {"DATA", "FIN", "FIN_ACK", "PROGRESS"}
  <1>1. FinInv(s) /\ AckInv(Peer(s), s)
    BY Zenon, PeerFacts, Unpacked
  <1>2. writing[s] \in [phase : {"none", "put", "flush"}, rec : Record]
    BY Zenon DEF Inv, TypeOK
  <1>3. writing[s] = Put(writing[s].rec) /\ writing[s].rec \in Record
    BY Zenon, <1>2 DEF Put
  <1>4. writing[s].rec.tag \in {"DATA", "FIN", "FIN_ACK", "PROGRESS"}
    BY Zenon, <1>3, RecordType
  <1>5. Writing(s, writing[s].rec.tag)
    BY Zenon DEF Writing
  <1>. QED  BY Zenon, <1>1, <1>3, <1>4, <1>5 DEF FinInv, AckInv, Writing

(* Between two writes an open input has not sent its end.                  *)
LEMMA SelectFacts ==
    ASSUME Inv, NEW s \in Side, Selecting(s)
    PROVE  /\ writing[s] = Nothing /\ Running(s)
           /\ localOpen[s] => ~finSent[s]
  <1>1. FinInv(s) /\ writing[s] = Nothing /\ Running(s)
    BY Zenon, PeerFacts, Unpacked DEF Selecting, OutboundRuns
  <1>2. ~Writing(s, "FIN")
    BY <1>1 DEF Writing, Nothing
  <1>. QED  BY Zenon, <1>1, <1>2 DEF FinInv

(* Every step keeps the invariant.                                         *)
LEMMA InvStep == Inv /\ [Next]_vars => Inv'
  <1>. SUFFICES ASSUME Inv, [Next]_vars
                PROVE  Inv'
    BY Zenon
  <1>0. TypeOK'
    <2>1. CASE Next
      BY Zenon, <2>1, TypeStep DEF Inv
    <2>2. CASE UNCHANGED vars
      BY Zenon, <2>2 DEF Inv, TypeOK, vars, outVars, inVars
    <2>. QED  BY Zenon, <2>1, <2>2
  <1>1. ASSUME NEW s \in Side, TakeFinAck(s)
        PROVE  Inv'
    <2>. DEFINE C == [tag : {"ACK", "ABORT"}, n : Nat]
                q == toOutbound[s]
    <2>1. /\ q \in Seq(C) /\ q # <<>> /\ Head(q).tag = "ACK" /\ q = toOutbound[s]
          /\ toOutbound'[s] = Tail(q) /\ toOutbound'[Peer(s)] = toOutbound[Peer(s)]
      BY Zenon, <1>1, PeerFacts DEF TakeFinAck, Inv, TypeOK
    <2>2. AckInv(Peer(s), s)
      BY Zenon, PeerFacts, Unpacked
    <2>. HIDE DEF C, q
    <2>3. /\ Has(q, "ACK") /\ Head(q).n = received[s] /\ ~Has(Tail(q), "ACK")
          /\ OneOf(Tail(q), "ACK", received[s])
      <3>1. OneOf(q, "ACK", received[s])
        BY Zenon, <2>1, <2>2 DEF AckInv
      <3>. QED  BY <2>1, <3>1, HasTail
    <2>4. /\ theirFin[s] /\ ~confirmed[Peer(s)] /\ ~Has(wire[s], "FIN_ACK")
      BY Zenon, <2>1, <2>2, <2>3 DEF AckInv
    <2>5. received[s] \in Nat
      BY Zenon DEF Inv, TypeOK
    <2>6. /\ FinAck(received[s]) \in Record /\ FinAck(received[s]).tag = "FIN_ACK"
          /\ FinAck(received[s]).n = received[s]
      BY Zenon, <2>5, RecordFacts DEF FinAck
    <2>7. /\ Writes(s, FinAck(received[s])) /\ writing[s] = Nothing
          /\ sent' = sent /\ finSent' = finSent /\ localOpen' = localOpen /\ received' = received
          /\ theirFin' = theirFin /\ confirmed' = confirmed /\ delivering' = delivering
          /\ outcome' = outcome /\ path' = path
      BY Zenon, <1>1, <2>1, <2>3 DEF TakeFinAck, Selecting, inVars
    <2>. QED  BY Zenon, <1>0, <2>1, <2>3, <2>4, <2>6, <2>7, WriteOtherInv
  <1>2. ASSUME NEW s \in Side, TakeAbort(s) \/ LocalAborts(s)
        PROVE  Inv'
    <2>1. EndsWithFin(s)
      BY Zenon, <1>2 DEF TakeAbort, LocalAborts
    <2>2. AbortFin(sent[s]) \in Record /\ AbortFin(sent[s]).tag = "FIN" /\ ~AbortFin(sent[s]).normal
      BY Zenon, RecordFacts DEF Inv, TypeOK, AbortFin
    <2>3. /\ Ends(s, "LocalEnded")
          /\ wire' = Unread(s, wire) \/ wire' = Unread(s, With(s, AbortFin(sent[s])))
      BY Zenon, <2>1 DEF EndsWithFin
    <2>. QED  BY Zenon, <1>0, <2>2, <2>3, EndsInv DEF Errors
  <1>3. ASSUME NEW s \in Side, ProgressTick(s)
        PROVE  Inv'
    <2>1. /\ writing[s] = Nothing
          /\ sent' = sent /\ finSent' = finSent /\ localOpen' = localOpen /\ received' = received
          /\ theirFin' = theirFin /\ confirmed' = confirmed /\ delivering' = delivering
          /\ outcome' = outcome /\ path' = path /\ toOutbound' = toOutbound
      BY Zenon, <1>3 DEF ProgressTick, Selecting, inVars
    <2>2. CASE Writes(s, Progress(received[s]))
      <3>1. Progress(received[s]) \in Record /\ Progress(received[s]).tag = "PROGRESS"
        BY Zenon, RecordFacts DEF Inv, TypeOK, Progress
      <3>2. OneOf(toOutbound[s], "ACK", received[s])
        BY Zenon, PeerFacts, Unpacked DEF AckInv
      <3>. QED  BY Zenon, <1>0, <2>1, <2>2, <3>1, <3>2, WriteOtherInv
    <2>3. CASE writing' = writing /\ wire' = wire
      BY Zenon, <1>0, <2>1, <2>3, FrameInv DEF Carries
    <2>. QED  BY Zenon, <1>3, <2>2, <2>3 DEF ProgressTick
  <1>4. ASSUME NEW s \in Side, ReadLocal(s)
        PROVE  Inv'
    <2>1. ~finSent[s] /\ writing[s] = Nothing
      BY Zenon, <1>4, SelectFacts DEF ReadLocal, SelectsLocal
    <2>. QED  BY Zenon, <1>0, <1>4, <2>1, WriteDataInv DEF ReadLocal, inVars
  <1>5. ASSUME NEW s \in Side, LocalEnds(s)
        PROVE  Inv'
    <2>1. ~finSent[s] /\ writing[s] = Nothing
      BY Zenon, <1>5, SelectFacts DEF LocalEnds, SelectsLocal
    <2>. QED  BY Zenon, <1>0, <1>5, <2>1, WriteFinInv DEF LocalEnds, inVars
  <1>6. ASSUME NEW s \in Side, WritePut(s)
        PROVE  Inv'
    <2>. DEFINE r == writing[s].rec
    <2>1. /\ Writes(s, r) /\ writing[s].phase = "put"
          /\ sent' = sent /\ finSent' = finSent /\ localOpen' = localOpen /\ received' = received
          /\ theirFin' = theirFin /\ confirmed' = confirmed /\ delivering' = delivering
          /\ outcome' = outcome /\ path' = path /\ toOutbound' = toOutbound
      BY Zenon, <1>6 DEF WritePut, inVars
    <2>2. /\ writing[s] = Put(r) /\ r \in Record
          /\ r.tag = "DATA" => ~finSent[s] /\ r = Data(sent[s])
          /\ r.tag = "FIN" => finSent[s] /\ r = Fin(sent[s])
          /\ r.tag = "FIN_ACK" =>
                 /\ theirFin[s] /\ r.n = received[s]
                 /\ ~confirmed[Peer(s)] /\ ~Has(wire[s], "FIN_ACK")
                 /\ ~Has(toOutbound[s], "ACK")
          /\ r.tag \in {"DATA", "FIN", "FIN_ACK", "PROGRESS"}
      BY Zenon, <2>1, PutFacts
    <2>. HIDE DEF r
    <2>3. CASE r.tag = "DATA"
      BY Zenon, <1>0, <2>1, <2>2, <2>3, WriteDataInv
    <2>4. CASE r.tag = "FIN"
      <3>1. finSent' = [finSent EXCEPT ![s] = TRUE]
        <4>1. finSent \in [Side -> BOOLEAN] /\ finSent[s]
          BY Zenon, <2>2, <2>4 DEF Inv, TypeOK
        <4>. QED  BY Zenon, <2>1, <4>1
      <3>. QED  BY Zenon, <1>0, <2>1, <2>2, <2>4, <3>1, WriteFinInv
    <2>5. CASE r.tag \in {"FIN_ACK", "PROGRESS"}
      <3>1. OneOf(toOutbound[s], "ACK", received[s])
        BY PeerFacts, Unpacked DEF AckInv
      <3>. QED  BY Zenon, <1>0, <2>1, <2>2, <2>5, <3>1, WriteOtherInv
    <2>. QED  BY Zenon, <2>2, <2>3, <2>4, <2>5
  <1>7. ASSUME NEW s \in Side, WriteDone(s)
        PROVE  Inv'
    BY Zenon, <1>0, <1>7, WriteDoneInv
  <1>8. ASSUME NEW s \in Side,
               NEW o \in ({"ok"} \cup Errors) \ {"Truncated", "Unconfirmed", "Protocol"},
               Ends(s, o), wire' = Unread(s, wire)
        PROVE  Inv'
    <2>1. AbortFin(0) \in Record /\ AbortFin(0).tag = "FIN" /\ ~AbortFin(0).normal
      BY Zenon, RecordFacts DEF AbortFin
    <2>. QED  BY Zenon, <1>0, <1>8, <2>1, EndsInv
  <1>9. ASSUME NEW s \in Side,
               WriteFails(s) \/ AbortGrace(s) \/ ReadEnds(s) \/ Join(s)
        PROVE  Inv'
    BY Zenon, <1>8, <1>9 DEF WriteFails, AbortGrace, ReadEnds, Join, Errors
  <1>10. ASSUME NEW s \in Side, Watchdog(s)
        PROVE  Inv'
    <2>1. CASE UNCHANGED <<outVars, inVars, toOutbound, outcome, wire, path>>
      BY Zenon, <1>0, <2>1, FrameInv DEF outVars, inVars, Carries
    <2>2. CASE Ends(s, "AckTimeout") /\ wire' = Unread(s, wire)
      BY Zenon, <1>8, <2>2 DEF Errors
    <2>. QED  BY Zenon, <1>10, <2>1, <2>2 DEF Watchdog
  <1>11. ASSUME NEW s \in Side, ReadRecord(s)
        PROVE  Inv'
    <2>. DEFINE v == Verdict(s, Head(wire[Peer(s)]))
    <2>1. Readable(s) /\ v \in {"open", "PeerEnded"}
      BY Zenon, <1>11, PeerFacts, HeadFacts DEF ReadRecord
    <2>2. CASE v = "open" /\ Accept(s, Head(wire[Peer(s)]))
      BY Zenon, <1>0, <2>1, <2>2, AcceptInv
    <2>3. CASE v = "PeerEnded" /\ Ends(s, v) /\ wire' = Unread(s, wire)
      BY Zenon, <1>8, <2>3 DEF Errors
    <2>. QED  BY Zenon, <1>11, <2>1, <2>2, <2>3 DEF ReadRecord
  <1>12. ASSUME NEW s \in Side, Delivered(s) \/ DeliverFails(s)
        PROVE  Inv'
    BY Zenon, <1>0, <1>12, DeliveredInv, DeliverFailsInv
  <1>13. ASSUME Cut \/ BlackHole
        PROVE  Inv'
    BY Zenon, <1>0, <1>13, PathInv
  <1>14. ASSUME Tick \/ Delay
        PROVE  Inv'
    BY Zenon, <1>0, <1>14, FrameInv DEF Tick, Delay, inVars, Carries
  <1>15. CASE UNCHANGED vars
    BY Zenon, <1>0, <1>15, FrameInv DEF vars, outVars, inVars, Carries
  <1>. QED
    BY Zenon, <1>1, <1>2, <1>3, <1>4, <1>5, <1>6, <1>7, <1>9, <1>10, <1>11, <1>12, <1>13, <1>14, <1>15
    DEF Next, OutboundStep, LocalInput, LocalSide, InboundStep

(* A fresh session satisfies the invariant.                                *)
LEMMA InvInit == Init => Inv
  <1>. SUFFICES ASSUME Init
                PROVE  Inv
    BY Zenon
  <1>1. TypeOK
    <2>1. /\ Every \in Nat \ {0} /\ Idle \in Nat \ {0} /\ Patience \in Nat
      BY DeliveryAssumption DEF DeliveryAssumption, Every
    <2>2. Nothing \in [phase : {"none", "put", "flush"}, rec : Record]
      BY Zenon, RecordFacts DEF Nothing
    <2>. QED  BY <2>1, <2>2 DEF Init, TypeOK
  <1>2. HonestPeerNeverBlamed
    BY Zenon DEF Init, HonestPeerNeverBlamed
  <1>3. ASSUME NEW x \in Side, NEW y \in Side, x # y
        PROVE  PairInv(x, y)
    <2>1. /\ wire[x] = <<>> /\ wire[y] = <<>> /\ toOutbound[y] = <<>> /\ writing[x].phase = "none"
          /\ writing[y].phase = "none" /\ received[y] = 0 /\ sent[x] = 0
          /\ ~theirFin[y] /\ delivering[y] = "no" /\ ~confirmed[x] /\ ~finSent[x] /\ localOpen[x]
      BY Zenon DEF Init, Nothing
    <2>2. FinInv(x)
      BY Zenon, <2>1 DEF FinInv, Writing
    <2>3. Taken(y) = 0 /\ Offered(x) = 0
      BY <2>1 DEF Taken, Offered
    <2>4. WireInv(x, y)
      BY <2>1, <2>3, HasEmpty DEF WireInv, Full
    <2>5. CloseInv(x, y) /\ AckInv(x, y)
      BY Zenon, <2>1, HasEmpty DEF CloseInv, AckInv, Closed
    <2>. QED  BY Zenon, <2>2, <2>4, <2>5 DEF PairInv
  <1>. QED  BY Zenon, <1>1, <1>2, <1>3 DEF Inv

(* The invariant holds in every state of every session.                    *)
THEOREM InvHolds == Spec => []Inv
  BY InvInit, InvStep, PTL DEF Spec

(* The types of the pump's state (TypeOK).                                 *)
THEOREM TypeCorrect == Spec => []TypeOK
  <1>1. Inv => TypeOK
    BY Zenon DEF Inv
  <1>. QED  BY <1>1, InvHolds, PTL

(* An end that speaks the protocol is never accused of breaking it         *)
(* (inbound's checks, delivery.rs:673-745), for any input and any path.    *)
THEOREM NeverBlamed == Spec => []HonestPeerNeverBlamed
  <1>1. Inv => HonestPeerNeverBlamed
    BY Zenon DEF Inv
  <1>. QED  BY <1>1, InvHolds, PTL

-----------------------------------------------------------------------------
(* A step that leaves the counts, the flags and the outcomes alone is none *)
(* of the promise's.                                                       *)
LEMMA MapStutter ==
    ASSUME \A x \in Side : Offered(x)' = Offered(x), finSent' = finSent,
           received' = received, theirFin' = theirFin, outcome' = outcome
    PROVE  UNCHANGED Promise!vars
  BY Zenon DEF Promise!vars

(* The end of a pump is the promise's Succeed or Fail: before an Ok both   *)
(* directions are complete.                                                *)
LEMMA MapEnds ==
    ASSUME TypeOK, NEW s \in Side, NEW o \in {"ok"} \cup Errors, Running(s), Ends(s, o),
           o = "ok" => \A x \in Side : theirFin[x]
    PROVE  Promise!Next
  <1>1. /\ sent' = sent /\ finSent' = finSent /\ writing' = writing /\ received' = received
        /\ theirFin' = theirFin /\ outcome' = [outcome EXCEPT ![s] = o]
        /\ outcome[s] = "open" /\ outcome \in [Side -> {"open", "ok"} \cup Errors]
    BY Zenon DEF Ends, Running, TypeOK
  <1>. DEFINE bar(f) == [x \in Side |-> IF f[x] \in {"open", "ok"} THEN f[x] ELSE "failed"]
  <1>2. \A x \in Side : Offered(x)' = Offered(x)
    BY Zenon, <1>1 DEF Offered
  <1>3. CASE o = "ok"
    <2>1. bar(outcome') = [bar(outcome) EXCEPT ![s] = "ok"] /\ bar(outcome)[s] = "open"
      BY Zenon, <1>1, <1>3
    <2>2. Promise!Succeed(s)
      BY <1>1, <1>2, <1>3, <2>1 DEF Promise!Succeed
    <2>. QED  BY Zenon, <2>2 DEF Promise!Next
  <1>4. CASE o # "ok"
    <2>1. bar(outcome') = [bar(outcome) EXCEPT ![s] = "failed"] /\ bar(outcome)[s] = "open"
      BY Zenon, <1>1, <1>4 DEF Errors
    <2>2. Promise!Fail(s)
      BY Zenon, <1>1, <1>2, <2>1 DEF Promise!Fail
    <2>. QED  BY Zenon, <2>2 DEF Promise!Next
  <1>. QED  BY Zenon, <1>3, <1>4

(* A write offers a record exactly when a DATA record goes out.            *)
LEMMA MapWrites ==
    ASSUME TypeOK, NEW s \in Side, NEW r \in Record, Writes(s, r), Running(s),
           writing[s] = Nothing \/ writing[s] = Put(r), r.tag = "DATA" => ~finSent[s],
           sent' = sent, finSent' = finSent,
           received' = received, theirFin' = theirFin, outcome' = outcome
    PROVE  [Promise!Next]_(Promise!vars)
  <1>1. /\ writing'[Peer(s)] = writing[Peer(s)] /\ writing'[s] \in {Flush(r), Put(r)}
        /\ Side = {s, Peer(s)} /\ Peer(s) # s /\ Peer(s) \in Side
    BY PeerFacts, WriteCases
  <1>2. /\ sent[s] \in Nat /\ Offered(s) = sent[s] /\ Offered(Peer(s))' = Offered(Peer(s))
    BY SMTT(30), <1>1 DEF TypeOK, Offered, Nothing, Put
  <1>3. CASE r.tag = "DATA" /\ writing'[s] = Flush(r)
    <2>1. Offered(s)' = Offered(s) + 1
      BY <1>2, <1>3 DEF Offered, Flush
    <2>2. [x \in Side |-> Offered(x)]' = [[x \in Side |-> Offered(x)] EXCEPT ![s] = @ + 1]
      BY Zenon, <1>1, <1>2, <2>1
    <2>3. Promise!Offer(s)
      BY Zenon, <1>3, <2>2 DEF Promise!Offer, Running
    <2>. QED  BY Zenon, <2>3 DEF Promise!Next
  <1>4. CASE ~(r.tag = "DATA" /\ writing'[s] = Flush(r))
    <2>1. Offered(s)' = Offered(s)
      BY <1>1, <1>2, <1>4 DEF Offered, Flush, Put
    <2>. QED  BY Zenon, <1>1, <1>2, <2>1, MapStutter
  <1>. QED  BY Zenon, <1>3, <1>4

(* Every step of a session is a step of the promise, or none of it.        *)
LEMMA MapStep == Inv /\ [Next]_vars => [Promise!Next]_(Promise!vars)
  <1>. SUFFICES ASSUME Inv, [Next]_vars
                PROVE  [Promise!Next]_(Promise!vars)
    BY Zenon
  <1>0. TypeOK
    BY Zenon DEF Inv
  <1>1. ASSUME NEW s \in Side, TakeFinAck(s)
        PROVE  [Promise!Next]_(Promise!vars)
    <2>. DEFINE C == [tag : {"ACK", "ABORT"}, n : Nat]
    <2>1. toOutbound[s] \in Seq(C) /\ toOutbound[s] # <<>>
      BY Zenon, <1>0, <1>1 DEF TakeFinAck, TypeOK
    <2>. HIDE DEF C
    <2>2. Head(toOutbound[s]) \in C
      BY <2>1
    <2>. USE DEF C
    <2>3. /\ FinAck(Head(toOutbound[s]).n) \in Record
          /\ FinAck(Head(toOutbound[s]).n).tag # "DATA"
      BY Zenon, <2>2, RecordFacts DEF FinAck
    <2>. QED  BY Zenon, <1>0, <1>1, <2>3, SelectFacts, MapWrites DEF TakeFinAck, inVars
  <1>2. ASSUME NEW s \in Side, TakeAbort(s) \/ LocalAborts(s)
        PROVE  Promise!Next
    BY Zenon, <1>0, <1>2, SelectFacts, MapEnds DEF TakeAbort, LocalAborts, SelectsLocal, EndsWithFin, Errors
  <1>3. ASSUME NEW s \in Side, ProgressTick(s)
        PROVE  [Promise!Next]_(Promise!vars)
    <2>1. Progress(received[s]) \in Record /\ Progress(received[s]).tag # "DATA"
      BY Zenon, <1>0, RecordFacts DEF TypeOK, Progress
    <2>2. /\ Running(s) /\ writing[s] = Nothing /\ sent' = sent /\ finSent' = finSent
          /\ received' = received /\ theirFin' = theirFin /\ outcome' = outcome
      BY Zenon, <1>3, SelectFacts DEF ProgressTick, inVars
    <2>3. CASE Writes(s, Progress(received[s]))
      BY Zenon, <1>0, <2>1, <2>2, <2>3, MapWrites
    <2>4. CASE writing' = writing
      BY Zenon, <2>2, <2>4, MapStutter DEF Offered
    <2>. QED  BY Zenon, <1>3, <2>3, <2>4 DEF ProgressTick
  <1>4. ASSUME NEW s \in Side, ReadLocal(s)
        PROVE  [Promise!Next]_(Promise!vars)
    <2>1. Data(sent[s]) \in Record
      BY Zenon, <1>0, RecordFacts DEF TypeOK
    <2>2. ~finSent[s] /\ writing[s] = Nothing /\ Running(s)
      BY Zenon, <1>4, SelectFacts DEF ReadLocal, SelectsLocal
    <2>. QED  BY Zenon, <1>0, <1>4, <2>1, <2>2, MapWrites DEF ReadLocal, inVars
  <1>5. ASSUME NEW s \in Side, LocalEnds(s)
        PROVE  Promise!Next
    <2>1. Fin(sent[s]) \in Record /\ Fin(sent[s]).tag # "DATA"
      BY Zenon, <1>0, RecordFacts DEF TypeOK, Fin
    <2>2. /\ ~finSent[s] /\ writing[s] = Nothing /\ Running(s) /\ Writes(s, Fin(sent[s]))
          /\ sent' = sent /\ received' = received /\ theirFin' = theirFin /\ outcome' = outcome
          /\ finSent' = [finSent EXCEPT ![s] = TRUE]
      BY Zenon, <1>5, SelectFacts DEF LocalEnds, SelectsLocal, inVars
    <2>3. /\ writing'[Peer(s)] = writing[Peer(s)]
          /\ writing'[s] \in {Flush(Fin(sent[s])), Put(Fin(sent[s]))}
          /\ Side = {s, Peer(s)}
      BY Zenon, <1>0, <2>1, <2>2, PeerFacts, WriteCases
    <2>4. writing'[s].rec.tag # "DATA" /\ writing[s].phase = "none"
      BY <2>1, <2>2, <2>3 DEF Flush, Put, Nothing
    <2>5. \A x \in Side : Offered(x)' = Offered(x)
      BY Zenon, <2>2, <2>3, <2>4 DEF Offered
    <2>6. Promise!Finish(s)
      BY Zenon, <2>2, <2>5 DEF Promise!Finish, Running
    <2>. QED  BY Zenon, <2>6 DEF Promise!Next
  <1>6. ASSUME NEW s \in Side, WritePut(s)
        PROVE  [Promise!Next]_(Promise!vars)
    <2>1. /\ writing[s] = Put(writing[s].rec) /\ writing[s].rec \in Record
          /\ writing[s].rec.tag = "DATA" => ~finSent[s]
      BY Zenon, <1>6, PutFacts DEF WritePut
    <2>. QED  BY Zenon, <1>0, <1>6, <2>1, MapWrites DEF WritePut, OutboundRuns, inVars
  <1>7. ASSUME NEW s \in Side, WriteDone(s)
        PROVE  UNCHANGED Promise!vars
    <2>1. ASSUME NEW x \in Side
          PROVE  Offered(x)' = Offered(x)
      <3>1. CASE x = s
        <4>1. /\ writing'[x] = Nothing /\ writing[x].phase = "flush" /\ sent[x] \in Nat
              /\ sent'[x] = IF writing[x].rec.tag = "DATA" THEN sent[x] + 1 ELSE sent[x]
          BY Zenon, <1>0, <1>7, <3>1 DEF WriteDone, TypeOK
        <4>. QED  BY SMTT(30), <4>1 DEF Offered, Nothing
      <3>2. CASE x # s
        <4>1. writing'[x] = writing[x] /\ sent'[x] = sent[x]
          BY Zenon, <1>0, <1>7, <3>2 DEF WriteDone, TypeOK
        <4>. QED  BY Zenon, <4>1 DEF Offered
      <3>. QED  BY Zenon, <3>1, <3>2
    <2>. QED  BY Zenon, <1>7, <2>1, MapStutter DEF WriteDone, inVars
  <1>8. ASSUME NEW s \in Side, WriteFails(s) \/ AbortGrace(s) \/ ReadEnds(s)
        PROVE  Promise!Next
    BY Zenon, <1>0, <1>8, MapEnds
    DEF WriteFails, OutboundRuns, AbortGrace, ReadEnds, EndVisible, Reading, Errors
  <1>9. ASSUME NEW s \in Side, Join(s)
        PROVE  Promise!Next
    <2>1. theirFin[s] /\ confirmed[s] /\ Running(s) /\ Ends(s, "ok")
      BY Zenon, <1>9 DEF Join, InboundDone
    <2>2. CloseInv(s, Peer(s)) /\ Side = {s, Peer(s)}
      BY Zenon, PeerFacts, Unpacked
    <2>3. \A x \in Side : theirFin[x]
      BY Zenon, <2>1, <2>2 DEF CloseInv
    <2>. QED  BY Zenon, <1>0, <2>1, <2>3, MapEnds
  <1>10. ASSUME NEW s \in Side, Watchdog(s)
        PROVE  [Promise!Next]_(Promise!vars)
    <2>1. CASE UNCHANGED <<outVars, inVars, toOutbound, outcome, wire, path>>
      BY Zenon, <2>1, MapStutter DEF outVars, inVars, Offered
    <2>2. CASE Ends(s, "AckTimeout") /\ Running(s)
      BY Zenon, <1>0, <2>2, MapEnds DEF Errors
    <2>. QED  BY Zenon, <1>10, <2>1, <2>2 DEF Watchdog, Waiting
  <1>11. ASSUME NEW s \in Side, ReadRecord(s)
        PROVE  [Promise!Next]_(Promise!vars)
    <2>. DEFINE v == Verdict(s, Head(wire[Peer(s)]))
    <2>1. Running(s) /\ v \in {"open", "PeerEnded"}
      BY Zenon, <1>11, PeerFacts, HeadFacts DEF ReadRecord, Readable, Reading
    <2>2. CASE Accept(s, Head(wire[Peer(s)]))
      BY Zenon, <2>2, MapStutter DEF Accept, outVars, Offered
    <2>3. CASE v = "PeerEnded" /\ Ends(s, v)
      BY Zenon, <1>0, <2>1, <2>3, MapEnds DEF Errors
    <2>. QED  BY Zenon, <1>11, <2>1, <2>2, <2>3 DEF ReadRecord
  <1>12. ASSUME NEW s \in Side, Delivered(s)
        PROVE  Promise!Next
    <2>1. PICK p \in Side : p = Peer(s) /\ p # s /\ p = Promise!Other(s)
      BY Zenon, PeerFacts DEF Peer, Promise!Other
    <2>2. /\ Running(s) /\ delivering[s] \in {"data", "end"}
          /\ sent' = sent /\ writing' = writing /\ finSent' = finSent /\ outcome' = outcome
          /\ received' = [received EXCEPT ![s] = IF delivering[s] = "data" THEN @ + 1 ELSE @]
          /\ theirFin' = [theirFin EXCEPT ![s] = @ \/ delivering[s] = "end"]
      BY Zenon, <1>12 DEF Delivered, outVars
    <2>3. FinInv(p) /\ WireInv(p, s) /\ CloseInv(p, s)
      BY Zenon, <2>1, Unpacked
    <2>4. \A x \in Side : Offered(x)' = Offered(x)
      BY Zenon, <2>2 DEF Offered
    <2>5. /\ ~theirFin[s] /\ received[s] \in Nat /\ received \in [Side -> Nat]
          /\ theirFin \in [Side -> BOOLEAN] /\ sent[p] \in Nat /\ Offered(p) \in Nat
      BY Zenon, <1>0, <2>1, <2>2, <2>3, PairTypes DEF CloseInv, TypeOK
    <2>6. CASE delivering[s] = "data"
      <3>1. received[s] + 1 <= Offered(p)
        <4>1. Listens(s) /\ Taken(s) = received[s] + 1
          BY Zenon, <2>2, <2>6 DEF Listens, Taken
        <4>. QED  BY Zenon, <2>3, <4>1 DEF WireInv
      <3>2. received' = [received EXCEPT ![s] = @ + 1] /\ theirFin' = theirFin
        BY Zenon, <2>2, <2>5, <2>6
      <3>3. Promise!Deliver(s)
        <4>1. received[s] < [x \in Side |-> Offered(x)][Promise!Other(s)]
          BY <2>1, <2>5, <3>1
        <4>2. [x \in Side |-> Offered(x)]' = [x \in Side |-> Offered(x)]
          BY Zenon, <2>4
        <4>. QED  BY Zenon, <2>2, <2>5, <3>2, <4>1, <4>2 DEF Promise!Deliver, Running
      <3>. QED  BY Zenon, <3>3 DEF Promise!Next
    <2>7. CASE delivering[s] = "end"
      <3>1. finSent[p] /\ received[s] = sent[p]
        BY Zenon, <2>3, <2>7 DEF CloseInv, Closed
      <3>2. Offered(p) = sent[p]
        BY <2>3, <2>5, <3>1 DEF FinInv, Writing, Offered
      <3>3. received' = received /\ theirFin' = [theirFin EXCEPT ![s] = TRUE]
        BY Zenon, <2>2, <2>5, <2>7
      <3>4. Promise!Complete(s)
        BY Zenon, <2>1, <2>2, <2>4, <2>5, <3>1, <3>2, <3>3 DEF Promise!Complete, Running
      <3>. QED  BY Zenon, <3>4 DEF Promise!Next
    <2>. QED  BY Zenon, <2>2, <2>6, <2>7
  <1>13. ASSUME NEW s \in Side, DeliverFails(s)
        PROVE  UNCHANGED Promise!vars
    BY Zenon, <1>13, MapStutter DEF DeliverFails, outVars, Offered
  <1>14. ASSUME Cut \/ BlackHole \/ Tick \/ Delay
        PROVE  UNCHANGED Promise!vars
    BY Zenon, <1>14, MapStutter DEF Cut, BlackHole, Tick, Delay, outVars, inVars, Offered
  <1>15. CASE UNCHANGED vars
    BY Zenon, <1>15, MapStutter DEF vars, outVars, inVars, Offered
  <1>. QED
    BY Zenon, <1>1, <1>2, <1>3, <1>4, <1>5, <1>6, <1>7, <1>8, <1>9, <1>10, <1>11, <1>12, <1>13, <1>14, <1>15
    DEF Next, OutboundStep, LocalInput, LocalSide, InboundStep

(* The pump implements its contract (delivery.rs:435-450): Ok on a side    *)
(* means that everything both sides offered was delivered and closed, for  *)
(* any input, any capacity of the path and any timeouts.                   *)
THEOREM PromiseKept == Spec => ImplementsPromise
  <1>1. Init => Promise!Init
    <2>1. ASSUME Init, NEW x \in Side
          PROVE  Offered(x) = 0
      BY <2>1 DEF Init, Offered, Nothing
    <2>. QED  BY <2>1 DEF Init, Promise!Init
  <1>. QED  BY <1>1, MapStep, InvHolds, PTL DEF Spec, ImplementsPromise, Promise!Spec
=============================================================================
