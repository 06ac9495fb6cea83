-------------------------- MODULE DeliveryLemmas ---------------------------
(***************************************************************************)
(* The inductive invariant of the delivery protocol, lemmas on the records *)
(* on a path and on the queue to outbound, type correctness, and what a    *)
(* write may do.                                                           *)
(***************************************************************************)
EXTENDS Delivery, TLAPS

(* A record that belongs to the byte stream: payload or its normal end.    *)
Stream(r) == r.tag = "DATA" \/ (r.tag = "FIN" /\ r.normal)

(* The stream records of q follow the t records taken off the path before: *)
(* without gaps, in order, the end last and only behind all o offered.     *)
Streams(q, t, o) ==
    \A i \in 1..Len(q) : Stream(q[i]) =>
        /\ t <= q[i].n
        /\ IF q[i].tag = "DATA" THEN q[i].n < o ELSE q[i].n = o
        /\ \A k \in t..(q[i].n - 1) : \E j \in 1..(i - 1) : q[j] = Data(k)
        /\ \A j \in 1..(i - 1) :
              Stream(q[j]) => q[j].tag = "DATA" /\ q[j].n < q[i].n

(* All records between t and o are on the path.                            *)
Full(q, t, o) == \A k \in t..(o - 1) : \E j \in 1..Len(q) : q[j] = Data(k)

HasFin(q) == \E i \in 1..Len(q) : q[i].tag = "FIN" /\ q[i].normal
NoStream(q) == \A i \in 1..Len(q) : ~Stream(q[i])

(* q, a path or a queue, has something tagged tag; or at most one, with n. *)
Has(q, tag) == \E i \in 1..Len(q) : q[i].tag = tag
OneOf(q, tag, n) ==
    \A i \in 1..Len(q) : q[i].tag = tag =>
        q[i].n = n /\ \A j \in 1..Len(q) : j # i => q[j].tag # tag

Taken(s) == received[s] + (IF delivering[s] = "data" THEN 1 ELSE 0)
Listens(s) == Running(s) /\ delivering[s] # "aborting"
Writing(s, tag) == writing[s].phase # "none" /\ writing[s].rec.tag = tag
Closed(s) == theirFin[s] \/ delivering[s] = "end"

(* What reader p may rely on about the records of s.                       *)
WireInv(s, p) ==
    Listens(p) =>
        /\ Streams(wire[s], Taken(p), Offered(s))
        /\ Closed(p) => NoStream(wire[s])
        /\ Carries => Full(wire[s], Taken(p), Offered(s))
        /\ Taken(p) <= Offered(s)

(* The end of s's own stream.                                              *)
FinInv(s) ==
    /\ finSent[s] /\ localOpen[s] => Writing(s, "FIN")
    /\ ~localOpen[s] => finSent[s]
    /\ Writing(s, "FIN") => finSent[s] /\ writing[s].rec = Fin(sent[s])
    /\ Writing(s, "DATA") => ~finSent[s] /\ writing[s].rec = Data(sent[s])
    /\ Writing(s, "FIN_ACK") => theirFin[s] /\ writing[s].rec.n = received[s]

(* What p knows of the end of s's stream, and what s knows of that.        *)
CloseInv(s, p) ==
    /\ theirFin[p] => delivering[p] \notin {"data", "end"}
    /\ Closed(p) => finSent[s] /\ received[p] = sent[s]
    /\ confirmed[s] => theirFin[p]
    /\ HasFin(wire[s]) => finSent[s]
    /\ writing[s].phase = "put" /\ writing[s].rec.tag = "FIN" =>
          ~HasFin(wire[s]) /\ ~Closed(p)

(* The one FIN_ACK of p is asked for, being written, on the path or read.  *)
AckInv(s, p) ==
    /\ OneOf(wire[p], "FIN_ACK", received[p]) /\ OneOf(toOutbound[p], "ACK", received[p])
    /\ Has(wire[p], "FIN_ACK") => theirFin[p] /\ ~confirmed[s]
    /\ writing[p].phase = "put" /\ writing[p].rec.tag = "FIN_ACK" =>
          ~confirmed[s] /\ ~Has(wire[p], "FIN_ACK")
    /\ Has(toOutbound[p], "ACK") =>
          /\ theirFin[p] /\ ~confirmed[s]
          /\ ~Writing(p, "FIN_ACK") /\ ~Has(wire[p], "FIN_ACK")

PairInv(s, p) == FinInv(s) /\ WireInv(s, p) /\ CloseInv(s, p) /\ AckInv(s, p)

Inv ==
    /\ TypeOK /\ HonestPeerNeverBlamed
    /\ \A s, p \in Side : s # p => PairInv(s, p)

-----------------------------------------------------------------------------
(* The two sides are each other's peers (the Peer operator).               *)
LEMMA PeerFacts ==
    ASSUME NEW s \in Side
    PROVE  Peer(s) \in Side /\ Peer(s) # s /\ Peer(Peer(s)) = s
           /\ Side = {s, Peer(s)}
  <1>1. PICK a, b \in Side : a # b /\ Side = {a, b}
    BY Zenon, DeliveryAssumption DEF DeliveryAssumption
  <1>2. \A x \in Side : Peer(x) \in Side /\ Peer(x) # x
    BY Zenon, <1>1 DEF Peer
  <1>. QED  BY Zenon, <1>1, <1>2

(* What the operators on records, queues and writes return.                *)
LEMMA RecordFacts ==
    ASSUME NEW n \in Nat
    PROVE  /\ Data(n) \in Record /\ Fin(n) \in Record /\ AbortFin(n) \in Record
           /\ FinAck(n) \in Record /\ Progress(n) \in Record
           /\ Stream(Data(n)) /\ Stream(Fin(n)) /\ ~Stream(AbortFin(n))
           /\ ~Stream(FinAck(n)) /\ ~Stream(Progress(n))
  BY Zenon DEF Data, Fin, AbortFin, FinAck, Progress, Record, Stream

(* The fields of a record.                                                 *)
LEMMA RecordType ==
    ASSUME NEW r \in Record
    PROVE  r.n \in Nat /\ r.tag \in {"DATA", "FIN", "FIN_ACK", "PROGRESS"}
           /\ r.normal \in BOOLEAN
  BY Zenon DEF Record

(* Reading the head of a path that is not empty.                           *)
LEMMA TailFacts ==
    ASSUME NEW q \in Seq(Record), q # <<>>
    PROVE  /\ Len(q) \in Nat \ {0} /\ Len(Tail(q)) = Len(q) - 1 /\ Tail(q) \in Seq(Record)
           /\ Head(q) = q[1]
           /\ \A i \in 1..Len(Tail(q)) : Tail(q)[i] = q[i + 1]
           /\ \A i \in 1..Len(q) : q[i] \in Record /\ q[i].n \in Nat
  <1>1. /\ Len(q) \in Nat \ {0} /\ Len(Tail(q)) = Len(q) - 1 /\ Tail(q) \in Seq(Record)
        /\ Head(q) = q[1]
    OBVIOUS
  <1>2. \A i \in 1..Len(Tail(q)) : Tail(q)[i] = q[i + 1]
    OBVIOUS
  <1>3. \A i \in 1..Len(q) : q[i] \in Record
    OBVIOUS
  <1>. QED  BY Zenon, <1>1, <1>2, <1>3, RecordType

(* A record that is not of the stream may join the path at any time.       *)
LEMMA StreamsOther ==
    ASSUME NEW q \in Seq(Record), NEW t \in Nat, NEW o \in Nat,
           NEW r \in Record, ~Stream(r), Streams(q, t, o)
    PROVE  Streams(Append(q, r), t, o)
  <1>1. /\ Len(Append(q, r)) = Len(q) + 1 /\ Append(q, r)[Len(q) + 1] = r
        /\ Len(q) \in Nat /\ \A i \in 1..Len(q) : Append(q, r)[i] = q[i]
    OBVIOUS
  <1>. QED  BY <1>1, SMTT(30) DEF Streams

(* One more record leaves none of the others out.                          *)
LEMMA FullAppend ==
    ASSUME NEW q \in Seq(Record), NEW t \in Nat, NEW o \in Nat,
           NEW r \in Record, Full(q, t, o)
    PROVE  Full(Append(q, r), t, o)
  <1>1. /\ Len(Append(q, r)) = Len(q) + 1
        /\ Len(q) \in Nat /\ \A i \in 1..Len(q) : Append(q, r)[i] = q[i]
    OBVIOUS
  <1>. QED  BY <1>1, SMTT(30) DEF Full

(* The next payload joins a path that is complete so far (ReadLocal).      *)
LEMMA StreamsData ==
    ASSUME NEW q \in Seq(Record), NEW t \in Nat, NEW o \in Nat,
           t <= o, ~HasFin(q), Streams(q, t, o), Full(q, t, o)
    PROVE  Streams(Append(q, Data(o)), t, o + 1) /\ ~HasFin(Append(q, Data(o)))
           /\ Full(Append(q, Data(o)), t, o + 1)
  <1>. DEFINE p == Append(q, Data(o))
  <1>1. /\ Data(o) \in Record /\ Data(o).tag = "DATA" /\ Data(o).n = o
    BY Zenon DEF Data, Record
  <1>2. /\ Len(p) = Len(q) + 1 /\ p[Len(q) + 1] = Data(o)
        /\ Len(q) \in Nat /\ \A i \in 1..Len(q) : p[i] = q[i] /\ q[i] \in Record
    BY <1>1
  <1>. HIDE DEF p
  <1>3. ASSUME NEW k \in t..o
        PROVE  \E j \in 1..Len(p) : p[j] = Data(k)
    BY SMTT(30), <1>2 DEF Full
  <1>4. Full(p, t, o + 1)
    BY <1>3 DEF Full
  <1>5. ASSUME NEW i \in 1..Len(p), Stream(p[i])
        PROVE  /\ t <= p[i].n /\ p[i].tag = "DATA" /\ p[i].n < o + 1
               /\ \A k \in t..(p[i].n - 1) : \E j \in 1..(i - 1) : p[j] = Data(k)
               /\ \A j \in 1..(i - 1) :
                     Stream(p[j]) => p[j].tag = "DATA" /\ p[j].n < p[i].n
    <2>1. CASE i = Len(q) + 1
      <3>1. \A j \in 1..Len(q) : Stream(q[j]) => q[j].tag = "DATA" /\ q[j].n < o
        BY Zenon, <1>2 DEF Streams, HasFin, Stream
      <3>2. \A k \in t..(o - 1) : \E j \in 1..Len(q) : p[j] = Data(k)
        BY Zenon, <1>2 DEF Full
      <3>3. p[i].n = o /\ p[i].tag = "DATA" /\ i - 1 = Len(q)
        BY <1>1, <1>2, <2>1
      <3>. QED  BY <1>2, <2>1, <3>1, <3>2, <3>3
    <2>2. CASE i \in 1..Len(q)
      <3>1. \A j \in 1..i : p[j] = q[j]
        BY <1>2, <2>2
      <3>2. q[i] \in Record /\ q[i].n \in Nat /\ Stream(q[i])
        BY Zenon, <1>2, <1>5, <2>2 DEF Record
      <3>4. q[i].tag = "DATA"
        BY Zenon, <3>2, <2>2 DEF HasFin, Stream
      <3>3. /\ t <= q[i].n /\ q[i].tag = "DATA" /\ q[i].n < o
            /\ \A k \in t..(q[i].n - 1) : \E j \in 1..(i - 1) : q[j] = Data(k)
            /\ \A j \in 1..(i - 1) :
                  Stream(q[j]) => q[j].tag = "DATA" /\ q[j].n < q[i].n
        BY Zenon, <3>2, <3>4, <2>2 DEF Streams
      <3>5. \A j \in 1..(i - 1) : j \in 1..i
        BY <2>2
      <3>6. p[i] = q[i]
        BY Zenon, <1>2, <2>2
      <3>7. \A k \in t..(p[i].n - 1) : \E j \in 1..(i - 1) : p[j] = Data(k)
        BY Zenon, <3>1, <3>3, <3>5, <3>6
      <3>8. \A j \in 1..(i - 1) :
                  Stream(p[j]) => p[j].tag = "DATA" /\ p[j].n < p[i].n
        BY Zenon, <3>1, <3>3, <3>5, <3>6
      <3>. QED  BY <3>2, <3>3, <3>6, <3>7, <3>8
    <2>. QED  BY <2>1, <2>2, <1>2
  <1>6. Streams(p, t, o + 1)
    BY Zenon, <1>5 DEF Streams
  <1>7. ~HasFin(p)
    BY <1>1, <1>2 DEF HasFin
  <1>. QED  BY Zenon, <1>4, <1>6, <1>7 DEF p

(* The end joins a path that is complete (LocalEnds).                      *)
LEMMA StreamsFin ==
    ASSUME NEW q \in Seq(Record), NEW t \in Nat, NEW o \in Nat,
           t <= o, ~HasFin(q), Streams(q, t, o), Full(q, t, o)
    PROVE  Streams(Append(q, Fin(o)), t, o)
  <1>. DEFINE p == Append(q, Fin(o))
  <1>1. /\ Fin(o) \in Record /\ Fin(o).tag = "FIN" /\ Fin(o).n = o
    BY Zenon DEF Fin, Record
  <1>2. /\ Len(p) = Len(q) + 1 /\ p[Len(q) + 1] = Fin(o)
        /\ Len(q) \in Nat /\ \A i \in 1..Len(q) : p[i] = q[i] /\ q[i] \in Record
    BY <1>1
  <1>. HIDE DEF p
  <1>5. ASSUME NEW i \in 1..Len(p), Stream(p[i])
        PROVE  /\ t <= p[i].n
               /\ IF p[i].tag = "DATA" THEN p[i].n < o ELSE p[i].n = o
               /\ \A k \in t..(p[i].n - 1) : \E j \in 1..(i - 1) : p[j] = Data(k)
               /\ \A j \in 1..(i - 1) :
                     Stream(p[j]) => p[j].tag = "DATA" /\ p[j].n < p[i].n
    <2>1. CASE i = Len(q) + 1
      <3>1. \A j \in 1..Len(q) : Stream(q[j]) => q[j].tag = "DATA" /\ q[j].n < o
        BY Zenon, <1>2 DEF Streams, HasFin, Stream
      <3>2. \A k \in t..(o - 1) : \E j \in 1..Len(q) : p[j] = Data(k)
        BY Zenon, <1>2 DEF Full
      <3>3. p[i].n = o /\ p[i].tag = "FIN" /\ i - 1 = Len(q)
        BY <1>1, <1>2, <2>1
      <3>. QED  BY Zenon, <1>2, <2>1, <3>1, <3>2, <3>3
    <2>2. CASE i \in 1..Len(q)
      <3>1. \A j \in 1..i : p[j] = q[j]
        BY <1>2, <2>2
      <3>2. q[i] \in Record /\ q[i].n \in Nat /\ Stream(q[i])
        BY <1>2, <1>5, <2>2 DEF Record
      <3>4. q[i].tag = "DATA"
        BY <3>2, <2>2 DEF HasFin, Stream
      <3>3. /\ t <= q[i].n /\ q[i].tag = "DATA" /\ q[i].n < o
            /\ \A k \in t..(q[i].n - 1) : \E j \in 1..(i - 1) : q[j] = Data(k)
            /\ \A j \in 1..(i - 1) :
                  Stream(q[j]) => q[j].tag = "DATA" /\ q[j].n < q[i].n
        BY <3>2, <3>4, <2>2 DEF Streams
      <3>5. \A j \in 1..(i - 1) : j \in 1..i
        BY <2>2
      <3>6. p[i] = q[i]
        BY <1>2, <2>2
      <3>7. \A k \in t..(p[i].n - 1) : \E j \in 1..(i - 1) : p[j] = Data(k)
        BY ZenonT(30), <3>1, <3>3, <3>5, <3>6
      <3>8. \A j \in 1..(i - 1) :
                  Stream(p[j]) => p[j].tag = "DATA" /\ p[j].n < p[i].n
        BY <3>1, <3>3, <3>5, <3>6
      <3>. QED  BY Zenon, <3>2, <3>3, <3>6, <3>7, <3>8
    <2>. QED  BY <2>1, <2>2, <1>2
  <1>. QED  BY Zenon, <1>5 DEF Streams, p

(* Records no one offers any more do not disturb what is on the path.      *)
LEMMA StreamsGrow ==
    ASSUME NEW q \in Seq(Record), NEW t \in Nat, NEW o \in Nat,
           ~HasFin(q), Streams(q, t, o)
    PROVE  Streams(q, t, o + 1)
  <1>1. Len(q) \in Nat /\ \A i \in 1..Len(q) : q[i] \in Record
    OBVIOUS
  <1>2. \A i \in 1..Len(q) : q[i].n \in Nat
    BY Zenon, <1>1, RecordType
  <1>3. ASSUME NEW i \in 1..Len(q), Stream(q[i])
        PROVE  q[i].tag = "DATA" /\ q[i].n < o
    BY Zenon, <1>3 DEF Streams, HasFin, Stream
  <1>. QED  BY <1>1, <1>2, <1>3, SMTT(30) DEF Streams

(* The reader takes the first record off the path (ReadRecord).            *)
LEMMA StreamsTail ==
    ASSUME NEW q \in Seq(Record), q # <<>>, NEW t \in Nat, NEW o \in Nat,
           Streams(q, t, o)
    PROVE  /\ Head(q) \in Record /\ Tail(q) \in Seq(Record)
           /\ ~Stream(Head(q)) => /\ Streams(Tail(q), t, o)
                                  /\ Full(q, t, o) => Full(Tail(q), t, o)
           /\ Head(q).tag = "DATA" =>
                 /\ Head(q).n = t /\ t < o
                 /\ Streams(Tail(q), t + 1, o)
                 /\ Full(q, t, o) => Full(Tail(q), t + 1, o)
           /\ Head(q).tag = "FIN" /\ Head(q).normal =>
                 /\ Head(q).n = t /\ t = o
                 /\ Streams(Tail(q), t, o) /\ NoStream(Tail(q))
                 /\ Full(Tail(q), t, o)
  <1>. DEFINE p == Tail(q)
  <1>1. /\ Len(q) \in Nat \ {0} /\ Len(p) = Len(q) - 1 /\ p \in Seq(Record)
        /\ Head(q) = q[1] /\ \A i \in 1..Len(p) : p[i] = q[i + 1]
        /\ \A i \in 1..Len(q) : q[i] \in Record /\ q[i].n \in Nat
    BY Zenon, TailFacts
  <1>. HIDE DEF p
  <1>0. ASSUME NEW i \in 1..Len(p), Stream(p[i])
        PROVE  /\ p[i] = q[i + 1] /\ t <= p[i].n
               /\ IF p[i].tag = "DATA" THEN p[i].n < o ELSE p[i].n = o
               /\ \A k \in t..(p[i].n - 1) : \E j \in 1..i : q[j] = Data(k)
               /\ \A j \in 1..i :
                     Stream(q[j]) => q[j].tag = "DATA" /\ q[j].n < p[i].n
    <2>1. i + 1 \in 1..Len(q) /\ (i + 1) - 1 = i /\ p[i] = q[i + 1]
      BY <1>1
    <2>2. Stream(q[i + 1])
      BY Zenon, <2>1, <1>0
    <2>. QED  BY Zenon, <2>1, <2>2 DEF Streams
  <1>a. ASSUME NEW m \in 1..Len(q), NEW j \in 1..m, j # 1
        PROVE  j - 1 \in 1..(m - 1) /\ p[j - 1] = q[j]
    <2>1. m \in Nat /\ m <= Len(q) /\ j \in Nat /\ 1 < j /\ j <= m
      BY <1>1, <1>a
    <2>2. j - 1 \in 1..Len(p) /\ (j - 1) + 1 = j
      BY <1>1, <2>1
    <2>3. p[j - 1] = q[j]
      BY Zenon, <1>1, <2>2
    <2>. QED  BY <2>1, <2>3
  <1>2. ASSUME Stream(q[1])
        PROVE  q[1].n = t
    <2>1. \A k \in t..(q[1].n - 1) : \E j \in 1..(1 - 1) : q[j] = Data(k)
      BY <1>1, <1>2 DEF Streams
    <2>2. t <= q[1].n
      BY <1>1, <1>2 DEF Streams
    <2>. QED  BY <1>1, <2>1, <2>2
  <1>3. ASSUME NEW i \in 1..Len(p), Stream(p[i]), ~Stream(q[1])
        PROVE  /\ \A k \in t..(p[i].n - 1) : \E j \in 1..(i - 1) : p[j] = Data(k)
               /\ \A j \in 1..(i - 1) :
                     Stream(p[j]) => p[j].tag = "DATA" /\ p[j].n < p[i].n
    <2>1. /\ \A k \in t..(p[i].n - 1) : \E j \in 1..i : q[j] = Data(k)
          /\ \A j \in 1..i :
                     Stream(q[j]) => q[j].tag = "DATA" /\ q[j].n < p[i].n
      BY Zenon, <1>0, <1>3
    <2>2. ASSUME NEW k \in t..(p[i].n - 1)
          PROVE  \E j \in 1..(i - 1) : p[j] = Data(k)
      <3>1. PICK j \in 1..i : q[j] = Data(k)
        BY Zenon, <2>1, <1>1
      <3>2. j # 1
        BY <3>1, <1>3 DEF Stream, Data
      <3>3. i \in 1..Len(q)
        BY <1>1
      <3>. QED  BY Zenon, <3>1, <3>2, <3>3, <1>a
    <2>3. \A j \in 1..(i - 1) : j + 1 \in 1..i /\ p[j] = q[j + 1]
      BY <1>1
    <2>. QED  BY Zenon, <2>1, <2>2, <2>3
  <1>4. ~Stream(q[1]) => Streams(p, t, o)
    <2>1. ASSUME NEW i \in 1..Len(p), Stream(p[i])
          PROVE  /\ t <= p[i].n
                 /\ IF p[i].tag = "DATA" THEN p[i].n < o ELSE p[i].n = o
      BY Zenon, <1>0, <2>1
    <2>. QED  BY Zenon, <1>3, <2>1 DEF Streams
  <1>5. ASSUME ~Stream(q[1]), Full(q, t, o)
        PROVE  Full(p, t, o)
    <2>1. SUFFICES ASSUME NEW k \in t..(o - 1)
                   PROVE  \E j \in 1..Len(p) : p[j] = Data(k)
      BY Zenon DEF Full
    <2>2. PICK j \in 1..Len(q) : q[j] = Data(k)
      BY Zenon, <1>5 DEF Full
    <2>3. j # 1
      BY <2>2, <1>5 DEF Stream, Data
    <2>4. j - 1 \in 1..(Len(q) - 1) /\ p[j - 1] = q[j]
      BY <1>1, <1>a, <2>3
    <2>. QED  BY Zenon, <2>2, <2>4, <1>1
  <1>6. ASSUME q[1].tag = "DATA"
        PROVE  /\ t < o /\ Streams(p, t + 1, o)
               /\ Full(q, t, o) => Full(p, t + 1, o)
    <2>1. Stream(q[1]) /\ q[1].n = t
      BY Zenon, <1>2, <1>6 DEF Stream
    <2>2. q[1].n < o
      BY <1>1, <1>6, <2>1 DEF Streams
    <2>3. ASSUME NEW i \in 1..Len(p), Stream(p[i])
          PROVE  /\ t + 1 <= p[i].n
                 /\ IF p[i].tag = "DATA" THEN p[i].n < o ELSE p[i].n = o
                 /\ \A k \in (t + 1)..(p[i].n - 1) : \E j \in 1..(i - 1) : p[j] = Data(k)
                 /\ \A j \in 1..(i - 1) :
                     Stream(p[j]) => p[j].tag = "DATA" /\ p[j].n < p[i].n
      <3>1. /\ IF p[i].tag = "DATA" THEN p[i].n < o ELSE p[i].n = o
            /\ \A k \in t..(p[i].n - 1) : \E j \in 1..i : q[j] = Data(k)
            /\ \A j \in 1..i :
                     Stream(q[j]) => q[j].tag = "DATA" /\ q[j].n < p[i].n
        BY Zenon, <1>0, <2>3
      <3>2. ASSUME NEW k \in (t + 1)..(p[i].n - 1)
            PROVE  \E j \in 1..(i - 1) : p[j] = Data(k)
        <4>1. PICK j \in 1..i : q[j] = Data(k)
          BY SMTT(30), <3>1, <1>1
        <4>2. j # 1
          BY <4>1, <2>1 DEF Data
        <4>3. i \in 1..Len(q)
          BY <1>1
        <4>. QED  BY Zenon, <4>1, <4>2, <4>3, <1>a
      <3>3. q[1].n < p[i].n
        BY <3>1, <2>1
      <3>4. \A j \in 1..(i - 1) : j + 1 \in 1..i /\ p[j] = q[j + 1]
        BY <1>1
      <3>5. p[i].n \in Nat
        BY SMTT(30), <1>1
      <3>6. t + 1 <= p[i].n
        BY <3>3, <3>5, <2>1
      <3>. QED  BY Zenon, <3>1, <3>2, <3>4, <3>6
    <2>4. Streams(p, t + 1, o)
      BY Zenon, <2>3 DEF Streams
    <2>5. ASSUME Full(q, t, o), NEW k \in (t + 1)..(o - 1)
          PROVE  \E j \in 1..Len(p) : p[j] = Data(k)
      <3>1. PICK j \in 1..Len(q) : q[j] = Data(k)
        BY <2>5 DEF Full
      <3>2. j # 1
        BY <3>1, <2>1 DEF Data
      <3>3. j - 1 \in 1..(Len(q) - 1) /\ p[j - 1] = q[j]
        BY <1>1, <1>a, <3>2
      <3>. QED  BY Zenon, <3>1, <3>3, <1>1
    <2>. QED  BY Zenon, <2>1, <2>2, <2>4, <2>5 DEF Full
  <1>7. ASSUME q[1].tag = "FIN", q[1].normal
        PROVE  t = o /\ Streams(p, t, o) /\ NoStream(p) /\ Full(p, t, o)
    <2>1. Stream(q[1]) /\ q[1].n = t
      BY Zenon, <1>2, <1>7 DEF Stream
    <2>2. q[1].n = o
      BY <1>1, <1>7, <2>1 DEF Streams
    <2>3. \A i \in 1..Len(p) : ~Stream(p[i])
      <3>1. SUFFICES ASSUME NEW i \in 1..Len(p), Stream(p[i])
                     PROVE  FALSE
        BY Zenon
      <3>2. \A j \in 1..i : Stream(q[j]) => q[j].tag = "DATA"
        BY Zenon, <1>0, <3>1
      <3>. QED  BY <3>2, <2>1, <1>7
    <2>. QED  BY <2>1, <2>2, <2>3 DEF Streams, Full, NoStream
  <1>8. Stream(q[1]) <=> (q[1].tag = "DATA" \/ (q[1].tag = "FIN" /\ q[1].normal))
    BY Zenon DEF Stream
  <1>9. Head(q) = q[1] /\ q[1] \in Record /\ Tail(q) \in Seq(Record)
    BY <1>1 DEF p
  <1>. QED  BY Zenon, <1>2, <1>4, <1>5, <1>6, <1>7, <1>8, <1>9 DEF p

(* A cut leaves a prefix (Cut).                                            *)
LEMMA StreamsPrefix ==
    ASSUME NEW q \in Seq(Record), NEW k \in Nat, k <= Len(q),
           NEW t, NEW o, Streams(q, t, o)
    PROVE  Streams(SubSeq(q, 1, k), t, o)
  <1>1. Len(SubSeq(q, 1, k)) = k /\ \A i \in 1..k : SubSeq(q, 1, k)[i] = q[i]
    OBVIOUS
  <1>. QED  BY <1>1, SMTT(30) DEF Streams

(* What a path or a queue has after one more entry.                        *)
LEMMA HasAppend ==
    ASSUME NEW S, NEW q \in Seq(S), NEW r \in S, NEW tag, NEW n, OneOf(q, tag, n)
    PROVE  /\ Has(Append(q, r), tag) <=> (Has(q, tag) \/ r.tag = tag)
           /\ r.tag # tag \/ (~Has(q, tag) /\ r.n = n) => OneOf(Append(q, r), tag, n)
           /\ HasFin(Append(q, r)) <=> (HasFin(q) \/ (r.tag = "FIN" /\ r.normal))
           /\ NoStream(Append(q, r)) <=> (NoStream(q) /\ ~Stream(r))
  <1>. DEFINE p == Append(q, r)
  <1>1. /\ Len(p) = Len(q) + 1 /\ p[Len(q) + 1] = r
        /\ Len(q) \in Nat /\ \A i \in 1..Len(q) : p[i] = q[i]
    OBVIOUS
  <1>. HIDE DEF p
  <1>2. 1..Len(p) = 1..Len(q) \cup {Len(q) + 1}
    BY <1>1
  <1>3. Has(p, tag) <=> (Has(q, tag) \/ r.tag = tag)
    BY Zenon, <1>1, <1>2 DEF Has
  <1>4. r.tag # tag \/ (~Has(q, tag) /\ r.n = n) => OneOf(p, tag, n)
    BY Zenon, <1>1, <1>2 DEF Has, OneOf
  <1>5. HasFin(p) <=> (HasFin(q) \/ (r.tag = "FIN" /\ r.normal))
    BY Zenon, <1>1, <1>2 DEF HasFin
  <1>6. NoStream(p) <=> (NoStream(q) /\ ~Stream(r))
    BY Zenon, <1>1, <1>2 DEF NoStream
  <1>. QED  BY Zenon, <1>3, <1>4, <1>5, <1>6 DEF p

(* The same for one entry less.                                            *)
LEMMA HasTail ==
    ASSUME NEW S, NEW q \in Seq(S), q # <<>>, NEW tag, NEW n, OneOf(q, tag, n)
    PROVE  /\ Has(Tail(q), tag) => Has(q, tag)
           /\ Head(q).tag = tag => Has(q, tag) /\ Head(q).n = n /\ ~Has(Tail(q), tag)
           /\ OneOf(Tail(q), tag, n)
           /\ HasFin(Tail(q)) => HasFin(q)
           /\ Head(q).tag = "FIN" /\ Head(q).normal => HasFin(q)
           /\ NoStream(q) => NoStream(Tail(q)) /\ ~Stream(Head(q))
  <1>. DEFINE p == Tail(q)
  <1>1. /\ Len(q) \in Nat \ {0} /\ Len(p) = Len(q) - 1 /\ Head(q) = q[1]
    OBVIOUS
  <1>2. \A i \in 1..Len(p) : p[i] = q[i + 1]
    OBVIOUS
  <1>. HIDE DEF p
  <1>3. 1 \in 1..Len(q) /\ \A i \in 1..Len(p) : i + 1 \in 1..Len(q) /\ i + 1 # 1
    BY <1>1
  <1>4. \A i, j \in 1..Len(p) : i # j => i + 1 # j + 1
    BY <1>1
  <1>5. Has(p, tag) => Has(q, tag)
    BY Zenon, <1>2, <1>3 DEF Has
  <1>6. Head(q).tag = tag => Has(q, tag) /\ Head(q).n = n /\ ~Has(p, tag)
    BY Zenon, <1>1, <1>2, <1>3 DEF Has, OneOf
  <1>7. OneOf(p, tag, n)
    BY Zenon, <1>2, <1>3, <1>4 DEF OneOf
  <1>8. HasFin(p) => HasFin(q)
    BY Zenon, <1>2, <1>3 DEF HasFin
  <1>9. Head(q).tag = "FIN" /\ Head(q).normal => HasFin(q)
    BY Zenon, <1>1, <1>3 DEF HasFin
  <1>10. NoStream(q) => NoStream(p) /\ ~Stream(Head(q))
    BY Zenon, <1>1, <1>2, <1>3 DEF NoStream
  <1>. QED  BY Zenon, <1>5, <1>6, <1>7, <1>8, <1>9, <1>10 DEF p

(* The same for a prefix.                                                  *)
LEMMA HasPrefix ==
    ASSUME NEW S, NEW q \in Seq(S), NEW k \in Nat, k <= Len(q), NEW tag, NEW n,
           OneOf(q, tag, n)
    PROVE  /\ Has(SubSeq(q, 1, k), tag) => Has(q, tag)
           /\ OneOf(SubSeq(q, 1, k), tag, n)
           /\ HasFin(SubSeq(q, 1, k)) => HasFin(q)
           /\ NoStream(q) => NoStream(SubSeq(q, 1, k))
  <1>. DEFINE p == SubSeq(q, 1, k)
  <1>1. Len(p) = k /\ \A i \in 1..k : p[i] = q[i]
    OBVIOUS
  <1>2. \A i \in 1..k : i \in 1..Len(q)
    OBVIOUS
  <1>. HIDE DEF p
  <1>3. Has(p, tag) => Has(q, tag)
    BY Zenon, <1>1, <1>2 DEF Has
  <1>4. OneOf(p, tag, n)
    BY Zenon, <1>1, <1>2 DEF OneOf
  <1>5. HasFin(p) => HasFin(q)
    BY Zenon, <1>1, <1>2 DEF HasFin
  <1>6. NoStream(q) => NoStream(p)
    BY Zenon, <1>1, <1>2 DEF NoStream
  <1>. QED  BY Zenon, <1>3, <1>4, <1>5, <1>6 DEF p

(* An empty path or queue has nothing.                                     *)
LEMMA HasEmpty ==
    ASSUME NEW t, NEW o, NEW tag, NEW n
    PROVE  /\ Streams(<<>>, t, o) /\ ~HasFin(<<>>) /\ NoStream(<<>>)
           /\ ~Has(<<>>, tag) /\ OneOf(<<>>, tag, n)
  BY DEF Streams, HasFin, NoStream, Has, OneOf

-----------------------------------------------------------------------------
(* The values a write leaves behind (write_record).                        *)
LEMMA WritesType ==
    ASSUME TypeOK, NEW s \in Side, NEW r \in Record, Writes(s, r)
    PROVE  /\ wire' \in [Side -> Seq(Record)]
           /\ writing' \in [Side -> [phase : {"none", "put", "flush"}, rec : Record]]
  <1>1. With(s, r) \in [Side -> Seq(Record)]
    BY DEF TypeOK, With
  <1>2. Put(r) \in [phase : {"none", "put", "flush"}, rec : Record]
        /\ Flush(r) \in [phase : {"none", "put", "flush"}, rec : Record]
    BY Zenon DEF Put, Flush
  <1>. QED  BY ZenonT(30), <1>1, <1>2 DEF TypeOK, Writes

(* The values the end of a pump leaves behind (try_join! returns).         *)
LEMMA EndsType ==
    ASSUME TypeOK, NEW s \in Side, NEW o \in {"ok"} \cup Errors, Ends(s, o),
           wire' \in [Side -> Seq(Record)]
    PROVE  TypeOK'
  <1>1. Every \in 0..Every /\ 0 \in 0..Idle /\ 0 \in 0..Patience
    BY DeliveryAssumption DEF DeliveryAssumption, Every
  <1>2. toOutbound' \in [Side -> Seq([tag : {"ACK", "ABORT"}, n : Nat])]
    BY DEF TypeOK, Ends
  <1>. QED  BY Zenon, <1>1, <1>2 DEF TypeOK, Ends

(* A side that returned leaves the path of its peer empty (Unread).        *)
LEMMA UnreadType ==
    ASSUME NEW w \in [Side -> Seq(Record)], NEW s \in Side
    PROVE  Unread(s, w) \in [Side -> Seq(Record)]
  <1>1. <<>> \in Seq(Record)
    OBVIOUS
  <1>. QED  BY Zenon, <1>1 DEF Unread

(* The values an abort leaves behind (EndsWithFin).                        *)
LEMMA EndsWithFinType ==
    ASSUME TypeOK, NEW s \in Side, EndsWithFin(s)
    PROVE  TypeOK'
  <1>1. AbortFin(sent[s]) \in Record
    BY Zenon, RecordFacts DEF TypeOK
  <1>2. With(s, AbortFin(sent[s])) \in [Side -> Seq(Record)] /\ wire \in [Side -> Seq(Record)]
    BY <1>1 DEF TypeOK, With
  <1>3. wire' \in [Side -> Seq(Record)]
    BY Zenon, <1>2, UnreadType DEF EndsWithFin
  <1>. QED  BY Zenon, <1>3, EndsType DEF EndsWithFin, Errors

(* Every step keeps the types.                                             *)
LEMMA TypeStep == TypeOK /\ Next => TypeOK'
  <1>. SUFFICES ASSUME TypeOK, Next
                PROVE  TypeOK'
    BY Zenon
  <1>0. /\ Every \in Nat \ {0} /\ Idle \in Nat \ {0} /\ Patience \in Nat
    BY DeliveryAssumption DEF DeliveryAssumption, Every
  <1>1. ASSUME NEW s \in Side, TakeFinAck(s)
        PROVE  TypeOK'
    <2>1. /\ Head(toOutbound[s]) \in [tag : {"ACK", "ABORT"}, n : Nat]
          /\ Tail(toOutbound[s]) \in Seq([tag : {"ACK", "ABORT"}, n : Nat])
      <3>. DEFINE C == [tag : {"ACK", "ABORT"}, n : Nat]
      <3>1. toOutbound[s] \in Seq(C) /\ toOutbound[s] # <<>>
        BY Zenon, <1>1 DEF TypeOK, TakeFinAck
      <3>. HIDE DEF C
      <3>2. Head(toOutbound[s]) \in C /\ Tail(toOutbound[s]) \in Seq(C)
        BY <3>1
      <3>. QED  BY Zenon, <3>2 DEF C
    <2>2. FinAck(Head(toOutbound[s]).n) \in Record
      BY Zenon, <2>1, RecordFacts
    <2>. QED  BY Zenon, <1>1, <2>1, <2>2, WritesType DEF TypeOK, TakeFinAck, inVars
  <1>2. ASSUME NEW s \in Side, TakeAbort(s) \/ LocalAborts(s)
        PROVE  TypeOK'
    BY Zenon, <1>2, EndsWithFinType DEF TakeAbort, LocalAborts
  <1>3. ASSUME NEW s \in Side, ProgressTick(s)
        PROVE  TypeOK'
    <2>1. Progress(received[s]) \in Record
      BY Zenon, RecordFacts DEF TypeOK
    <2>2. /\ wire' \in [Side -> Seq(Record)]
          /\ writing' \in [Side -> [phase : {"none", "put", "flush"}, rec : Record]]
      BY Zenon, <1>3, <2>1, WritesType DEF TypeOK, ProgressTick
    <2>3. due' \in [Side -> 0..Every]
      BY <1>0, <1>3 DEF TypeOK, ProgressTick
    <2>. QED  BY Zenon, <1>3, <2>2, <2>3 DEF TypeOK, ProgressTick, inVars
  <1>4. ASSUME NEW s \in Side, ReadLocal(s)
        PROVE  TypeOK'
    <2>1. Data(sent[s]) \in Record
      BY Zenon, RecordFacts DEF TypeOK
    <2>. QED  BY Zenon, <1>4, <2>1, WritesType DEF TypeOK, ReadLocal, inVars
  <1>5. ASSUME NEW s \in Side, LocalEnds(s)
        PROVE  TypeOK'
    <2>1. Fin(sent[s]) \in Record
      BY Zenon, RecordFacts DEF TypeOK
    <2>. QED  BY Zenon, <1>5, <2>1, WritesType DEF TypeOK, LocalEnds, inVars
  <1>6. ASSUME NEW s \in Side, WritePut(s)
        PROVE  TypeOK'
    <2>1. writing[s].rec \in Record
      BY Zenon DEF TypeOK
    <2>. QED  BY Zenon, <1>6, <2>1, WritesType DEF TypeOK, WritePut, inVars
  <1>7. ASSUME NEW s \in Side, WriteDone(s)
        PROVE  TypeOK'
    <2>1. writing[s].rec \in Record /\ writing[s].rec.n \in Nat
      BY Zenon, RecordType DEF TypeOK
    <2>2. Nothing \in [phase : {"none", "put", "flush"}, rec : Record]
      BY Zenon, RecordFacts DEF Nothing
    <2>3. /\ writing' \in [Side -> [phase : {"none", "put", "flush"}, rec : Record]]
          /\ sent' \in [Side -> Nat] /\ reported' \in [Side -> Nat]
      BY <1>7, <2>1, <2>2 DEF TypeOK, WriteDone
    <2>4. quiet' \in [Side -> 0..Idle]
      BY <1>0, <1>7 DEF TypeOK, WriteDone
    <2>5. localOpen' \in [Side -> BOOLEAN] /\ finAckOut' \in [Side -> BOOLEAN]
      BY Zenon, <1>7 DEF TypeOK, WriteDone
    <2>. QED  BY Zenon, <1>7, <2>3, <2>4, <2>5 DEF TypeOK, WriteDone, inVars
  <1>8. ASSUME NEW s \in Side, WriteFails(s) \/ AbortGrace(s) \/ ReadEnds(s) \/ Join(s)
        PROVE  TypeOK'
    <2>1. Unread(s, wire) \in [Side -> Seq(Record)]
      BY Zenon, UnreadType DEF TypeOK
    <2>. QED  BY Zenon, <1>8, <2>1, EndsType DEF WriteFails, AbortGrace, ReadEnds, Join, Errors
  <1>9. ASSUME NEW s \in Side, ReadRecord(s)
        PROVE  TypeOK'
    <2>. DEFINE r == Head(wire[Peer(s)])
    <2>1. wire[Peer(s)] \in Seq(Record) /\ wire[Peer(s)] # <<>>
      BY Zenon, <1>9, PeerFacts DEF TypeOK, ReadRecord, Readable
    <2>2. r \in Record /\ Tail(wire[Peer(s)]) \in Seq(Record)
      BY <2>1
    <2>. HIDE DEF r
    <2>3. CASE Accept(s, r)
      <3>1. wire' \in [Side -> Seq(Record)]
        BY Zenon, <2>2, <2>3, PeerFacts DEF TypeOK, Accept
      <3>2. quiet' \in [Side -> 0..Idle]
        BY <1>0, <2>3 DEF TypeOK, Accept
      <3>3. confirmed' \in [Side -> BOOLEAN]
            /\ delivering' \in [Side -> {"no", "data", "end", "aborting"}]
        BY Zenon, <2>3 DEF TypeOK, Accept
      <3>. QED  BY Zenon, <2>3, <3>1, <3>2, <3>3 DEF TypeOK, Accept, outVars
    <2>4. CASE Verdict(s, r) # "open" /\ Ends(s, Verdict(s, r)) /\ wire' = Unread(s, wire)
      <3>1. Verdict(s, r) \in {"Protocol", "PeerEnded", "Truncated", "Unconfirmed", "open"}
        BY Zenon, <2>2, RecordType DEF Verdict
      <3>2. Unread(s, wire) \in [Side -> Seq(Record)]
        BY Zenon, UnreadType DEF TypeOK
      <3>. QED  BY Zenon, <2>4, <3>1, <3>2, EndsType DEF Errors
    <2>. QED  BY Zenon, <1>9, <2>3, <2>4 DEF ReadRecord, r
  <1>10. ASSUME NEW s \in Side, Delivered(s)
        PROVE  TypeOK'
    <2>1. received' \in [Side -> Nat] /\ delivering' \in [Side -> {"no", "data", "end", "aborting"}]
      BY <1>10 DEF TypeOK, Delivered
    <2>2. quiet' \in [Side -> 0..Idle] /\ stall' \in [Side -> 0..Patience]
      BY <1>0, <1>10 DEF TypeOK, Delivered
    <2>3. AckCmd(received[s]) \in [tag : {"ACK", "ABORT"}, n : Nat]
      BY Zenon DEF TypeOK, AckCmd
    <2>4. toOutbound' \in [Side -> Seq([tag : {"ACK", "ABORT"}, n : Nat])]
      BY <1>10, <2>3 DEF TypeOK, Delivered
    <2>5. theirFin' \in [Side -> BOOLEAN]
      BY Zenon, <1>10 DEF TypeOK, Delivered
    <2>. QED  BY Zenon, <1>10, <2>1, <2>2, <2>4, <2>5 DEF TypeOK, Delivered, outVars
  <1>11. ASSUME NEW s \in Side, DeliverFails(s)
        PROVE  TypeOK'
    <2>1. quiet' \in [Side -> 0..Idle] /\ stall' \in [Side -> 0..Patience]
          /\ delivering' \in [Side -> {"no", "data", "end", "aborting"}]
      BY <1>0, <1>11 DEF TypeOK, DeliverFails
    <2>2. Abort \in [tag : {"ACK", "ABORT"}, n : Nat]
      BY Zenon DEF Abort
    <2>3. toOutbound' \in [Side -> Seq([tag : {"ACK", "ABORT"}, n : Nat])]
      BY <1>11, <2>2 DEF TypeOK, DeliverFails
    <2>. QED  BY Zenon, <1>11, <2>1, <2>3 DEF TypeOK, DeliverFails, outVars
  <1>12. ASSUME NEW s \in Side, Watchdog(s)
        PROVE  TypeOK'
    <2>1. CASE UNCHANGED <<outVars, inVars, toOutbound, outcome, wire, path>>
               /\ quiet' = [quiet EXCEPT ![s] = 0]
      <3>1. quiet' \in [Side -> 0..Idle]
        BY <1>0, <2>1 DEF TypeOK
      <3>. QED  BY Zenon, <2>1, <3>1 DEF TypeOK, outVars, inVars
    <2>2. CASE Ends(s, "AckTimeout") /\ wire' = Unread(s, wire)
      <3>1. Unread(s, wire) \in [Side -> Seq(Record)]
        BY Zenon, UnreadType DEF TypeOK
      <3>. QED  BY Zenon, <2>2, <3>1, EndsType DEF Errors
    <2>. QED  BY Zenon, <1>12, <2>1, <2>2 DEF Watchdog
  <1>13. ASSUME Cut
        PROVE  TypeOK'
    <2>1. PICK k \in [Side -> 0..Capacity] :
              /\ \A s \in Side : k[s] <= Len(wire[s])
              /\ wire' = [s \in Side |-> SubSeq(wire[s], 1, k[s])]
      BY Zenon, <1>13 DEF Cut
    <2>2. ASSUME NEW s \in Side
          PROVE  SubSeq(wire[s], 1, k[s]) \in Seq(Record)
      <3>1. wire[s] \in Seq(Record) /\ k[s] \in 0..Capacity /\ k[s] <= Len(wire[s])
        BY Zenon, <2>1 DEF TypeOK
      <3>. QED  BY <3>1
    <2>3. wire' \in [Side -> Seq(Record)]
      BY Zenon, <2>1, <2>2
    <2>. QED  BY Zenon, <1>13, <2>3 DEF TypeOK, Cut, outVars, inVars
  <1>14. ASSUME BlackHole
        PROVE  TypeOK'
    BY <1>14 DEF TypeOK, BlackHole, outVars, inVars
  <1>15. ASSUME Tick
        PROVE  TypeOK'
    <2>0. due \in [Side -> 0..Every] /\ quiet \in [Side -> 0..Idle] /\ stall \in [Side -> 0..Patience]
      BY Zenon DEF TypeOK
    <2>1. due' \in [Side -> 0..Every]
      <3>1. \A x \in 0..Every : x > 0 => x - 1 \in 0..Every
        BY <1>0
      <3>. QED  BY Zenon, <1>15, <2>0, <3>1 DEF Tick
    <2>2. quiet' \in [Side -> 0..Idle]
      <3>1. \A x \in 0..Idle : x < Idle => x + 1 \in 0..Idle
        BY <1>0
      <3>. QED  BY Zenon, <1>15, <2>0, <3>1 DEF Tick
    <2>3. \A s \in Side : Hands(s) => stall[s] # Patience
      BY Zenon, <1>15 DEF Tick, Ready, Hands
    <2>4. stall' \in [Side -> 0..Patience]
      <3>1. \A x \in 0..Patience : x # Patience => x + 1 \in 0..Patience
        BY <1>0
      <3>. QED  BY Zenon, <1>15, <2>0, <2>3, <3>1 DEF Tick
    <2>. QED  BY Zenon, <1>15, <2>1, <2>2, <2>4 DEF TypeOK, Tick
  <1>16. ASSUME Delay
        PROVE  TypeOK'
    <2>1. due' \in [Side -> 0..Every] /\ quiet' \in [Side -> 0..Idle]
      BY <1>0, <1>16 DEF TypeOK, Delay
    <2>. QED  BY Zenon, <1>16, <2>1 DEF TypeOK, Delay, inVars
  <1>. QED
    BY Zenon, <1>1, <1>2, <1>3, <1>4, <1>5, <1>6, <1>7, <1>8, <1>9, <1>10, <1>11, <1>12,
       <1>13, <1>14, <1>15, <1>16
    DEF Next, OutboundStep, LocalInput, LocalSide, InboundStep

-----------------------------------------------------------------------------
(* The invariant of a pair hangs on these functions and on nothing else.   *)
LEMMA Unpacked ==
    ASSUME Inv, NEW x \in Side, NEW y \in Side, x # y
    PROVE  /\ FinInv(x) /\ WireInv(x, y) /\ CloseInv(x, y) /\ AckInv(x, y)
           /\ FinInv(y) /\ WireInv(y, x) /\ CloseInv(y, x) /\ AckInv(y, x)
           /\ Peer(x) = y /\ Peer(y) = x /\ Side = {x, y}
  <1>1. Peer(x) = y /\ Peer(y) = x /\ Side = {x, y}
    BY Zenon, PeerFacts
  <1>. QED  BY Zenon, <1>1 DEF Inv, PairInv

(* The types a pair's invariant is about.                                  *)
LEMMA PairTypes ==
    ASSUME TypeOK, NEW x \in Side
    PROVE  /\ wire[x] \in Seq(Record) /\ toOutbound[x] \in Seq([tag : {"ACK", "ABORT"}, n : Nat])
           /\ sent[x] \in Nat /\ received[x] \in Nat
           /\ Offered(x) \in Nat /\ Taken(x) \in Nat
           /\ writing[x].rec \in Record
           /\ delivering[x] \in {"no", "data", "end", "aborting"}
           /\ writing[x].phase \in {"none", "put", "flush"}
  <1>1. sent[x] \in Nat /\ received[x] \in Nat
    BY Zenon DEF TypeOK
  <1>2. Offered(x) \in Nat /\ Taken(x) \in Nat
    BY <1>1 DEF Offered, Taken
  <1>. QED  BY Zenon, <1>1, <1>2 DEF TypeOK

(* A pump that returns takes nothing it had promised away: its peer's view *)
(* is unchanged, and nobody reads on its side any more.                    *)
LEMMA EndsInv ==
    ASSUME Inv, TypeOK', NEW s \in Side,
           NEW o \in ({"ok"} \cup Errors) \ {"Truncated", "Unconfirmed", "Protocol"},
           Ends(s, o), NEW r \in Record, r.tag = "FIN", ~r.normal,
           wire' = Unread(s, wire) \/ wire' = Unread(s, With(s, r))
    PROVE  Inv'
  <1>1. HonestPeerNeverBlamed'
    BY DEF Inv, HonestPeerNeverBlamed, TypeOK, Ends
  <1>3. wire'[s] \in {wire[s], Append(wire[s], r)} /\ wire'[Peer(s)] = <<>>
    <2>1. With(s, r)[s] \in {wire[s], Append(wire[s], r)}
          /\ With(s, r) \in [Side -> Seq(Record)]
      BY SMTT(30) DEF Inv, TypeOK, With
    <2>2. wire \in [Side -> Seq(Record)]
      BY Zenon DEF Inv, TypeOK
    <2>. QED  BY Zenon, <2>1, <2>2, PeerFacts DEF Unread
  <1>2. ASSUME NEW x \in Side, NEW y \in Side, x # y
        PROVE  PairInv(x, y)'
    <2>1. /\ FinInv(x) /\ WireInv(x, y) /\ CloseInv(x, y) /\ AckInv(x, y)
          /\ Peer(x) = y /\ Peer(y) = x /\ Side = {x, y}
      BY Zenon, <1>2, Unpacked
    <2>2. TypeOK
      BY Zenon DEF Inv
    <2>3. /\ outcome' = [outcome EXCEPT ![s] = o] /\ o # "open"
          /\ toOutbound' = [toOutbound EXCEPT ![s] = <<>>]
          /\ delivering' = [delivering EXCEPT ![s] = "no"]
          /\ sent' = sent /\ finSent' = finSent /\ localOpen' = localOpen
          /\ writing' = writing /\ received' = received /\ theirFin' = theirFin
          /\ confirmed' = confirmed /\ path' = path
      BY Zenon DEF Ends, Errors
    <2>4. FinInv(x)'
      BY Zenon, <2>1, <2>3 DEF FinInv, Writing
    <2>5. CASE x = s
      <3>1. /\ wire'[y] = <<>> /\ wire'[x] \in {wire[x], Append(wire[x], r)}
            /\ toOutbound'[y] = toOutbound[y]
            /\ delivering'[y] = delivering[y] /\ outcome'[y] = outcome[y]
        BY Zenon, <1>2, <2>1, <2>2, <2>3, <2>5, <1>3 DEF TypeOK
      <3>2. /\ Offered(x)' = Offered(x) /\ Taken(y)' = Taken(y)
            /\ Listens(y)' = Listens(y) /\ Closed(y)' = Closed(y)
        BY Zenon, <2>3, <3>1 DEF Offered, Taken, Listens, Running, Closed
      <3>6. /\ Streams(wire[x], Taken(y), Offered(x)) => Streams(wire'[x], Taken(y), Offered(x))
            /\ Full(wire[x], Taken(y), Offered(x)) => Full(wire'[x], Taken(y), Offered(x))
            /\ HasFin(wire'[x]) => HasFin(wire[x])
            /\ NoStream(wire[x]) => NoStream(wire'[x])
        <4>1. ~Stream(r)
          BY Zenon DEF Stream
        <4>2. /\ wire[x] \in Seq(Record) /\ Taken(y) \in Nat /\ Offered(x) \in Nat
              /\ OneOf(wire[x], "FIN_ACK", received[x])
          BY Zenon, <1>2, <2>2, PairTypes, Unpacked DEF AckInv
        <4>3. CASE wire'[x] = wire[x]
          BY Zenon, <4>3
        <4>4. CASE wire'[x] = Append(wire[x], r)
          <5>1. /\ HasFin(wire'[x]) => HasFin(wire[x])
                /\ NoStream(wire[x]) => NoStream(wire'[x])
            BY SMTT(30), <4>1, <4>2, <4>4, HasAppend
          <5>. QED  BY ZenonT(30), <4>1, <4>2, <4>4, <5>1, StreamsOther, FullAppend
        <4>. QED  BY Zenon, <3>1, <4>3, <4>4
      <3>3. WireInv(x, y)'
        BY Zenon, <2>1, <2>3, <3>2, <3>6 DEF WireInv, Carries
      <3>4. CloseInv(x, y)'
        BY Zenon, <2>1, <2>3, <3>1, <3>6 DEF CloseInv, Closed
      <3>5. AckInv(x, y)'
        BY Zenon, <2>1, <2>3, <3>1, HasEmpty DEF AckInv, Writing
      <3>. QED  BY Zenon, <2>4, <3>3, <3>4, <3>5 DEF PairInv
    <2>6. CASE y = s
      <3>1. /\ wire'[y] \in {wire[y], Append(wire[y], r)}
            /\ toOutbound'[y] = <<>> /\ delivering'[y] = "no" /\ outcome'[y] = o
        BY Zenon, <2>1, <2>2, <2>3, <2>6, <1>3 DEF TypeOK
      <3>2. WireInv(x, y)'
        BY Zenon, <2>3, <3>1 DEF WireInv, Listens, Running
      <3>3. CloseInv(x, y)'
        BY ZenonT(30), <2>1, <2>3, <2>6, <3>1, <1>3, HasEmpty DEF CloseInv, Closed
      <3>4. AckInv(x, y)'
        <4>1. /\ wire[y] \in Seq(Record) /\ OneOf(wire[y], "FIN_ACK", received[y])
          BY Zenon, <2>1, <2>2, PairTypes DEF AckInv
        <4>2. /\ OneOf(wire'[y], "FIN_ACK", received[y])
              /\ Has(wire'[y], "FIN_ACK") <=> Has(wire[y], "FIN_ACK")
          <5>1. CASE wire'[y] = wire[y]
            BY ZenonT(30), <4>1, <5>1
          <5>2. CASE wire'[y] = Append(wire[y], r)
            BY <4>1, <5>2, HasAppend
          <5>. QED  BY Zenon, <3>1, <5>1, <5>2
        <4>3. OneOf(toOutbound'[y], "ACK", received[y]) /\ ~Has(toOutbound'[y], "ACK")
          BY Zenon, <3>1, HasEmpty
        <4>4. /\ received'[y] = received[y] /\ theirFin'[y] = theirFin[y]
              /\ confirmed'[x] = confirmed[x] /\ writing'[y] = writing[y]
          BY Zenon, <2>3
        <4>. QED  BY Zenon, <2>1, <4>2, <4>3, <4>4 DEF AckInv
      <3>. QED  BY <2>4, <3>2, <3>3, <3>4 DEF PairInv
    <2>. QED  BY Zenon, <2>1, <2>5, <2>6
  <1>. QED  BY Zenon, <1>1, <1>2 DEF Inv

(* Steps that touch only clocks, and counters no record depends on.        *)
LEMMA FrameInv ==
    ASSUME Inv, TypeOK', Carries' => Carries,
           UNCHANGED <<sent, finSent, localOpen, writing, toOutbound, received, theirFin,
                       confirmed, delivering, outcome, wire>>
    PROVE  Inv'
  <1>1. /\ sent' = sent /\ finSent' = finSent /\ localOpen' = localOpen
        /\ writing' = writing /\ toOutbound' = toOutbound
        /\ received' = received /\ theirFin' = theirFin /\ confirmed' = confirmed
        /\ delivering' = delivering /\ outcome' = outcome /\ wire' = wire
    BY Zenon
  <1>2. HonestPeerNeverBlamed'
    BY Zenon, <1>1 DEF Inv, HonestPeerNeverBlamed
  <1>3. ASSUME NEW x \in Side, NEW y \in Side, x # y
        PROVE  PairInv(x, y)'
    <2>1. FinInv(x) /\ WireInv(x, y) /\ CloseInv(x, y) /\ AckInv(x, y)
      BY Zenon, <1>3, Unpacked
    <2>2. FinInv(x)'
      BY ZenonT(30), <2>1, <1>1 DEF FinInv, Writing
    <2>3. WireInv(x, y)'
      BY SMTT(30), <2>1, <1>1 DEF WireInv, Listens, Running, Taken, Offered, Closed
    <2>4. CloseInv(x, y)' /\ AckInv(x, y)'
      BY Zenon, <2>1, <1>1 DEF CloseInv, Closed, AckInv, Writing
    <2>. QED  BY Zenon, <2>2, <2>3, <2>4 DEF PairInv
  <1>. QED  BY Zenon, <1>2, <1>3 DEF Inv

(* The three outcomes of a write (Writes).                                 *)
LEMMA WriteCases ==
    ASSUME TypeOK, NEW s \in Side, NEW p \in Side, p = Peer(s), p # s, NEW r \in Record, Writes(s, r)
    PROVE  /\ wire'[p] = wire[p] /\ writing'[p] = writing[p]
           /\ \/ /\ Carries /\ Running(p) /\ wire'[s] = Append(wire[s], r)
                 /\ writing'[s] = Flush(r)
              \/ ~(Carries /\ Running(p)) /\ wire'[s] = wire[s] /\ writing'[s] = Flush(r)
              \/ wire'[s] = wire[s] /\ writing'[s] = Put(r)
  <1>1. wire \in [Side -> Seq(Record)] /\ DOMAIN writing = Side
    BY Zenon DEF TypeOK
  <1>2. CASE Room(s)
    <2>1. wire' = With(s, r) /\ writing' = [writing EXCEPT ![s] = Flush(r)]
      BY Zenon, <1>2 DEF Writes
    <2>2. writing'[p] = writing[p] /\ writing'[s] = Flush(r)
      BY Zenon, <1>1, <2>1
    <2>3. CASE Carries /\ Running(p)
      <3>1. wire' = [wire EXCEPT ![s] = Append(wire[s], r)]
        BY Zenon, <2>1, <2>3 DEF With
      <3>. QED  BY Zenon, <1>1, <2>2, <2>3, <3>1
    <2>4. CASE ~(Carries /\ Running(p))
      <3>1. wire' = wire
        BY Zenon, <2>1, <2>4 DEF With
      <3>. QED  BY Zenon, <2>2, <2>4, <3>1
    <2>. QED  BY Zenon, <2>3, <2>4
  <1>3. CASE ~Room(s)
    <2>1. wire' = wire /\ writing' = [writing EXCEPT ![s] = Put(r)]
      BY Zenon, <1>3 DEF Writes
    <2>. QED  BY Zenon, <1>1, <2>1
  <1>. QED  BY Zenon, <1>2, <1>3

=============================================================================
