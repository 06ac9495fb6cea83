--------------------------- MODULE FallbackProofs ---------------------------
(***************************************************************************)
(* The TCP fallback (TcpFallback), for any number of tokens, slots and     *)
(* Clients: a Client's stream has one owner whatever order parks, probes,  *)
(* deliveries, failovers, reaps and teardowns take, delivery and the       *)
(* reaper drop dead parks only, and the gauge never owes a park.           *)
(*                                                                         *)
(* The queues are filtered by a recursive function.  What it keeps is      *)
(* proved by taking the least prefix of which it would not be true.        *)
(***************************************************************************)
EXTENDS TcpFallback, FiniteSetTheorems, WellFoundedInduction, TLAPS

(* Every nonempty set of naturals has a least element.                     *)
LEMMA LeastNat ==
    ASSUME NEW T \in SUBSET Nat, T # {}
    PROVE  \E n \in T : \A m \in T : n <= m
<1>1. PICK n \in T : \A m \in T : ~(<<m, n>> \in OpToRel(<, Nat))
  BY Zenon, NatLessThanWellFounded, WFMin
<1>2. \A m \in T : (m < n) => <<m, n>> \in OpToRel(<, Nat)
  BY DEF OpToRel
<1>3. \A m \in T : ~(m < n)
  BY Zenon, <1>1, <1>2
<1>4. \A m \in T : m \in Nat /\ n \in Nat
  BY Zenon
<1> QED
  BY <1>3, <1>4

(* x is an entry of q; no two entries of q are equal.                      *)
Holds(q, x) == \E i \in 1..Len(q) : q[i] = x
NoRepeat(q) == \A i, j \in 1..Len(q) : q[i] = q[j] => i = j

(* The entries once one more is pushed back.                               *)
LEMMA AppendEntries ==
    ASSUME NEW U, NEW q \in Seq(U), NEW y \in U
    PROVE  /\ Append(q, y) \in Seq(U)
           /\ \A x : Holds(Append(q, y), x) <=> (x = y \/ Holds(q, x))
           /\ NoRepeat(q) /\ ~Holds(q, y) => NoRepeat(Append(q, y))
<1>1. PICK p : p = Append(q, y)
  BY Zenon
<1>2. /\ p \in Seq(U) /\ 1..Len(p) = 1..Len(q) \cup {Len(q) + 1}
      /\ p[Len(q) + 1] = y /\ \A j \in 1..Len(q) : p[j] = q[j]
  BY <1>1
<1>3. \A x : Holds(p, x) <=> (x = y \/ Holds(q, x))
  BY Zenon, <1>2 DEF Holds
<1>4. NoRepeat(q) /\ ~Holds(q, y) => NoRepeat(p)
  BY Zenon, <1>2 DEF NoRepeat, Holds
<1> QED
  BY Zenon, <1>1, <1>2, <1>3, <1>4

(* The entries once the head is popped.                                    *)
LEMMA TailEntries ==
    ASSUME NEW U, NEW q \in Seq(U), q # <<>>
    PROVE  /\ Head(q) \in U /\ Holds(q, Head(q)) /\ Tail(q) \in Seq(U)
           /\ \A x : Holds(q, x) <=> (x = Head(q) \/ Holds(Tail(q), x))
           /\ NoRepeat(q) => NoRepeat(Tail(q)) /\ ~Holds(Tail(q), Head(q))
<1>1. PICK p : p = Tail(q)
  BY Zenon
<1>2. /\ p \in Seq(U) /\ Head(q) \in U /\ Head(q) = q[1] /\ 1 \in 1..Len(q)
      /\ \A j \in 1..Len(p) : j + 1 \in 1..Len(q) /\ p[j] = q[j + 1] /\ j + 1 # 1
      /\ \A i \in 1..Len(q) : i # 1 => i - 1 \in 1..Len(p) /\ p[i - 1] = q[i]
  BY <1>1
<1>3. \A i, j \in 1..Len(p) : i + 1 = j + 1 => i = j
  BY <1>2
<1>4. Holds(q, Head(q)) /\ \A x : Holds(q, x) <=> (x = Head(q) \/ Holds(p, x))
  BY Zenon, <1>2 DEF Holds
<1>5. NoRepeat(q) => NoRepeat(p)
  <2> SUFFICES ASSUME NoRepeat(q), NEW i \in 1..Len(p), NEW j \in 1..Len(p), p[i] = p[j]
               PROVE  i = j
    BY Zenon DEF NoRepeat
  <2>1. /\ i + 1 \in 1..Len(q) /\ p[i] = q[i + 1]
        /\ j + 1 \in 1..Len(q) /\ p[j] = q[j + 1]
    BY Zenon, <1>2
  <2>2. i + 1 = j + 1
    BY Zenon, <2>1 DEF NoRepeat
  <2> QED
    BY Zenon, <1>3, <2>2
<1>6. NoRepeat(q) => ~Holds(p, Head(q))
  <2> SUFFICES ASSUME NoRepeat(q), NEW j \in 1..Len(p), p[j] = Head(q)
               PROVE  FALSE
    BY Zenon DEF Holds
  <2> QED
    BY Zenon, <1>2 DEF NoRepeat
<1> QED
  BY Zenon, <1>1, <1>2, <1>4, <1>5, <1>6

(* f is the keep of Retained over the first n entries of q.                *)
Keeps(f, q, S, n) ==
    f = [i \in 0..n |-> IF i = 0 THEN <<>>
                        ELSE IF q[i] \in S THEN Append(f[i - 1], q[i]) ELSE f[i - 1]]

(* Such a function exists: there is no least n without one.                *)
LEMMA KeepExists ==
    ASSUME NEW q, NEW S, NEW n \in Nat
    PROVE  \E f : Keeps(f, q, S, n)
<1> DEFINE T == {k \in Nat : ~\E f : Keeps(f, q, S, k)}
<1> SUFFICES T = {}
  BY Zenon
<1> SUFFICES ASSUME T # {} PROVE FALSE
  BY Zenon
<1>1. PICK k \in T : \A m \in T : k <= m
  BY Zenon, LeastNat
<1>2. k \in Nat /\ ~\E f : Keeps(f, q, S, k)
  BY Zenon
<1>3. CASE k = 0
  <2> DEFINE g == [i \in 0..0 |-> <<>>]
  <2>1. \A i \in 0..0 : i = 0
    OBVIOUS
  <2>2. Keeps(g, q, S, 0)
    BY Zenon, <2>1 DEF Keeps
  <2> QED
    BY Zenon, <1>2, <1>3, <2>2
<1>4. CASE k # 0
  <2>1. k - 1 \in Nat /\ ~(k <= k - 1)
    BY <1>2, <1>4
  <2>2. PICK f : Keeps(f, q, S, k - 1)
    BY Zenon, <1>1, <2>1
  <2> DEFINE g == [i \in 0..k |-> IF i < k THEN f[i]
                     ELSE IF q[k] \in S THEN Append(f[k - 1], q[k]) ELSE f[k - 1]]
  <2>3. \A i \in 0..k : i # 0 => i - 1 \in 0..k /\ i - 1 < k
    BY <1>2
  <2>4. \A i \in 0..k : i < k => i \in 0..(k-1)
    BY <1>2
  <2>5. \A i \in 0..k : ~(i < k) => i = k
    BY <1>2
  <2>6. \A i \in 0..k : i # 0 => g[i - 1] = f[i - 1]
    BY Zenon, <2>3
  <2>7. \A i \in 0..k : i < k => g[i] = f[i]
    BY Zenon
  <2>8. g[k] = IF q[k] \in S THEN Append(f[k - 1], q[k]) ELSE f[k - 1]
    <3>1. ~(k < k) /\ k \in 0..k
      BY <1>2
    <3> QED
      BY Zenon, <3>1
  <2>9. g = [i \in 0..k |-> g[i]]
    BY Zenon
  <2> HIDE DEF g
  <2>10. \A i \in 0..(k-1) : f[i] = IF i = 0 THEN <<>>
                        ELSE IF q[i] \in S THEN Append(f[i - 1], q[i]) ELSE f[i - 1]
    BY Zenon, <2>2 DEF Keeps
  <2>11. ASSUME NEW i \in 0..k
         PROVE  g[i] = IF i = 0 THEN <<>>
                       ELSE IF q[i] \in S THEN Append(g[i - 1], q[i]) ELSE g[i - 1]
    <3>1. CASE i < k
      BY Zenon, <2>4, <2>6, <2>7, <2>10, <3>1
    <3>2. CASE i = k
      <4>1. g[k - 1] = f[k - 1]
        BY Zenon, <1>4, <2>6, <3>2
      <4> QED
        BY Zenon, <1>4, <2>8, <3>2, <4>1
    <3> QED
      BY Zenon, <2>5, <3>1, <3>2
  <2>12. Keeps(g, q, S, k)
    BY Zenon, <2>9, <2>11 DEF Keeps
  <2> QED
    BY Zenon, <1>2, <2>12
<1> QED
  BY Zenon, <1>3, <1>4

(* Retaining keeps exactly the entries in S, and repeats none that was not *)
(* repeated.                                                               *)
LEMMA RetainedEntries ==
    ASSUME NEW U, NEW q \in Seq(U), NEW S
    PROVE  /\ Retained(q, S) \in Seq(U)
           /\ \A x : Holds(Retained(q, S), x) <=> (x \in S /\ Holds(q, x))
           /\ NoRepeat(q) => NoRepeat(Retained(q, S))
<1> DEFINE n == Len(q)
           f == CHOOSE h : Keeps(h, q, S, Len(q))
<1>0. n \in Nat
  OBVIOUS
<1>1. Keeps(f, q, S, n)
  BY Zenon, <1>0, KeepExists
<1>2. Retained(q, S) = f[n]
  BY Zenon DEF Retained, Keeps
<1> HIDE DEF f
<1>3. /\ f[0] = <<>>
      /\ \A i \in 0..n : i # 0 =>
            f[i] = IF q[i] \in S THEN Append(f[i - 1], q[i]) ELSE f[i - 1]
  <2>1. 0 \in 0..n
    BY <1>0
  <2> QED
    BY Zenon, <1>1, <2>1 DEF Keeps
<1> DEFINE Good(i) == /\ f[i] \in Seq(U)
                      /\ \A x : Holds(f[i], x) <=> (x \in S /\ \E j \in 1..i : q[j] = x)
                      /\ NoRepeat(q) => NoRepeat(f[i])
           T == {i \in 0..n : ~Good(i)}
<1>4. T = {}
  <2> SUFFICES ASSUME T # {} PROVE FALSE
    BY Zenon
  <2>1. T \in SUBSET Nat
    BY <1>0
  <2>2. PICK k \in T : \A m \in T : k <= m
    BY Zenon, <2>1, LeastNat
  <2>3. k \in 0..n /\ ~Good(k)
    BY Zenon
  <2>4. k # 0
    <3> SUFFICES ASSUME k = 0 PROVE FALSE
      BY Zenon
    <3>1. Good(0)
      BY <1>3 DEF Holds, NoRepeat
    <3> QED
      BY Zenon, <2>3, <3>1
  <2>5. k - 1 \in 0..n /\ ~(k <= k - 1)
    BY <1>0, <2>3, <2>4
  <2>6. Good(k - 1)
    BY Zenon, <2>2, <2>5
  <2>7. q[k] \in U /\ 1..k = 1..(k-1) \cup {k} /\ k \in 1..n /\ 1..(k-1) \subseteq 1..n
        /\ k \notin 1..(k-1)
    BY <2>3, <2>4, <1>0
  <2>8. f[k] = IF q[k] \in S THEN Append(f[k - 1], q[k]) ELSE f[k - 1]
    BY Zenon, <1>3, <2>3, <2>4
  <2>9. PICK p : p = f[k - 1]
    BY Zenon
  <2>10. /\ p \in Seq(U)
         /\ \A x : Holds(p, x) <=> (x \in S /\ \E j \in 1..(k-1) : q[j] = x)
         /\ NoRepeat(q) => NoRepeat(p)
    BY Zenon, <2>6, <2>9
  <2>11. CASE q[k] \in S
    <3>1. f[k] = Append(p, q[k])
      BY Zenon, <2>8, <2>9, <2>11
    <3>2. /\ f[k] \in Seq(U)
          /\ \A x : Holds(f[k], x) <=> (x = q[k] \/ Holds(p, x))
          /\ NoRepeat(p) /\ ~Holds(p, q[k]) => NoRepeat(f[k])
      <4>1. /\ Append(p, q[k]) \in Seq(U)
            /\ \A x : Holds(Append(p, q[k]), x) <=> (x = q[k] \/ Holds(p, x))
            /\ NoRepeat(p) /\ ~Holds(p, q[k]) => NoRepeat(Append(p, q[k]))
        BY Zenon, <2>7, <2>10, AppendEntries
      <4> QED
        BY Zenon, <3>1, <4>1
    <3>3. \A x : (\E j \in 1..k : q[j] = x)
                    <=> (x = q[k] \/ \E j \in 1..(k-1) : q[j] = x)
      BY Zenon, <2>7
    <3>4. NoRepeat(q) => ~Holds(p, q[k])
      <4> SUFFICES ASSUME NoRepeat(q), Holds(p, q[k]) PROVE FALSE
        BY Zenon
      <4>1. PICK j \in 1..(k-1) : q[j] = q[k]
        BY Zenon, <2>10
      <4>2. j \in 1..n /\ j # k
        BY Zenon, <2>7
      <4> QED
        BY Zenon, <2>7, <4>1, <4>2 DEF NoRepeat
    <3>5. Good(k)
      BY Zenon, <2>10, <2>11, <3>2, <3>3, <3>4
    <3> QED
      BY Zenon, <2>3, <3>5
  <2>12. CASE q[k] \notin S
    <3>1. f[k] = p
      BY Zenon, <2>8, <2>9, <2>12
    <3>2. Good(k)
      BY Zenon, <2>7, <2>10, <2>12, <3>1
    <3> QED
      BY Zenon, <2>3, <3>2
  <2> QED
    BY Zenon, <2>11, <2>12
<1>5. Good(n)
  <2>1. n \in 0..n
    BY <1>0
  <2> QED
    BY Zenon, <1>4, <2>1
<1> QED
  BY Zenon, <1>2, <1>5 DEF Holds

(* The types, the gauge's aside.                                           *)
PoolTypes ==
    /\ queue \in [PoolToken -> Seq(Slot)]
    /\ slot \in [Slot -> SlotState]
    /\ inbox \in [Slot -> Client \cup {NoClient}]
    /\ client \in [Client -> ClientState]
    /\ popped \in [Client -> Slot \cup {NoSlot}]
    /\ waiters \in Seq(Client)

(* A sender is in the pool of its own token.                               *)
InOwnPool == \A t \in PoolToken, s \in Slot : Holds(queue[t], s) => SlotToken[s] = t

(* A task that waits to be notified is asleep, and waits once.             *)
WaitersAsleep ==
    NoRepeat(waiters) /\ \A c \in Client : Holds(waiters, c) => client[c] = "sleep"

(* A delivery that has popped a sender is under way, and the sender is of  *)
(* the Client's token.                                                     *)
PoppedInDrain ==
    \A c \in Client : popped[c] # NoSlot =>
       /\ client[c] \in {"drain", "drainAfterWait", "failover"}
       /\ SlotToken[popped[c]] = ClientToken[c]

(* A slot that verifies its Client has one.                                *)
VerifyHasClient == \A s \in Slot : slot[s] = "verify" => inbox[s] # NoClient

(* The inductive invariant.  StreamOwnedOnce is not inductive alone: a     *)
(* stale waiter could be woken while its stream is relayed, a verifying    *)
(* slot could release a stream it does not have, and a sender in the wrong *)
(* pool, or popped for a stream that has gone elsewhere, would take what   *)
(* it must not.                                                            *)
FallbackInv ==
    /\ PoolTypes /\ InOwnPool /\ WaitersAsleep /\ PoppedInDrain
    /\ VerifyHasClient /\ StreamOwnedOnce

-----------------------------------------------------------------------------
(* Nobody has parked and no Client has arrived.                            *)
LEMMA FallbackInitInv == FallbackInit => FallbackInv
<1> SUFFICES ASSUME FallbackInit PROVE FallbackInv
  BY Zenon
<1> USE FallbackAssumption DEF FallbackInit, FallbackAssumption
<1>1. /\ <<>> \in Seq(Slot) /\ <<>> \in Seq(Client) /\ NoRepeat(<<>>)
      /\ \A x : ~Holds(<<>>, x)
  BY DEF NoRepeat, Holds
<1>2. PoolTypes
  BY Zenon, <1>1 DEF PoolTypes, SlotState, ClientState
<1>3. InOwnPool /\ WaitersAsleep /\ PoppedInDrain
  BY Zenon, <1>1 DEF InOwnPool, WaitersAsleep, PoppedInDrain
<1>4. VerifyHasClient /\ StreamOwnedOnce
  BY Zenon DEF VerifyHasClient, StreamOwnedOnce
<1> QED
  BY Zenon, <1>2, <1>3, <1>4 DEF FallbackInv

(* A stream that no slot holds goes from one such state to another.        *)
LEMMA StreamMoves ==
    ASSUME FallbackInv, NEW c \in Client, NEW v \in ClientState,
           client[c] \notin {"sent", "relay"}, v \notin {"sent", "relay"},
           client' = [client EXCEPT ![c] = v], inbox' = inbox
    PROVE  StreamOwnedOnce'
<1>1. DOMAIN client = Client
  BY Zenon DEF FallbackInv, PoolTypes
<1>2. \A d \in Client : client'[d] = IF d = c THEN v ELSE client[d]
  BY Zenon, <1>1
<1>3. \A d \in Client : client'[d] \in {"sent", "relay"} <=> client[d] \in {"sent", "relay"}
  BY Zenon, <1>2
<1> QED
  BY Zenon, <1>3 DEF FallbackInv, StreamOwnedOnce

(* A slot relays the stream it holds.                                      *)
LEMMA StreamRelayed ==
    ASSUME FallbackInv, NEW s \in Slot, inbox[s] # NoClient,
           client' = [client EXCEPT ![inbox[s]] = "relay"], inbox' = inbox
    PROVE  /\ client' \in [Client -> ClientState] /\ StreamOwnedOnce'
           /\ \A d \in Client : client[d] \notin {"sent", "relay"} => client'[d] = client[d]
<1>1. DOMAIN client = Client /\ inbox[s] \in Client
  BY Zenon DEF FallbackInv, PoolTypes
<1>2. client[inbox[s]] \in {"sent", "relay"}
  BY Zenon, <1>1 DEF FallbackInv, StreamOwnedOnce
<1>3. \A d \in Client : client'[d] \in {"sent", "relay"} <=> client[d] \in {"sent", "relay"}
  BY Zenon, <1>1, <1>2
<1>4. client' \in [Client -> ClientState]
  BY Zenon, <1>1 DEF FallbackInv, PoolTypes, ClientState
<1>5. \A d \in Client : client[d] \notin {"sent", "relay"} => client'[d] = client[d]
  BY Zenon, <1>1, <1>2
<1>6. StreamOwnedOnce'
  BY Zenon, <1>3 DEF FallbackInv, StreamOwnedOnce
<1> QED
  BY Zenon, <1>4, <1>5, <1>6

(* A slot gives the stream it holds away.                                  *)
LEMMA StreamReleased ==
    ASSUME FallbackInv, NEW s \in Slot, inbox[s] # NoClient, NEW v \in {"failover", "lost"},
           client' = [client EXCEPT ![inbox[s]] = v],
           inbox' = [inbox EXCEPT ![s] = NoClient]
    PROVE  /\ client' \in [Client -> ClientState]
           /\ inbox' \in [Slot -> Client \cup {NoClient}] /\ StreamOwnedOnce'
           /\ \A d \in Client : client[d] \notin {"sent", "relay"} => client'[d] = client[d]
           /\ \A u \in Slot : u # s => inbox'[u] = inbox[u]
<1>1. DOMAIN client = Client /\ DOMAIN inbox = Slot /\ inbox[s] \in Client
  BY Zenon DEF FallbackInv, PoolTypes
<1>2. client[inbox[s]] \in {"sent", "relay"}
  BY Zenon, <1>1 DEF FallbackInv, StreamOwnedOnce
<1>3. v \notin {"sent", "relay", "sleep"} /\ v \in ClientState
  BY DEF ClientState
<1>4. /\ client' \in [Client -> ClientState] /\ client'[inbox[s]] = v
      /\ \A d \in Client : d # inbox[s] => client'[d] = client[d]
  BY Zenon, <1>1, <1>3 DEF FallbackInv, PoolTypes
<1>5. /\ inbox' \in [Slot -> Client \cup {NoClient}] /\ inbox'[s] = NoClient
      /\ \A u \in Slot : u # s => inbox'[u] = inbox[u]
  BY Zenon, <1>1 DEF FallbackInv, PoolTypes
<1>6. \A d \in Client : client[d] \notin {"sent", "relay"} => client'[d] = client[d]
  BY Zenon, <1>2, <1>4
<1>7. \A u \in Slot : u # s => inbox[u] # inbox[s]
  BY Zenon DEF FallbackInv, StreamOwnedOnce
<1>8. ASSUME NEW d \in Client
      PROVE  client'[d] \in {"sent", "relay"} <=> \E u \in Slot : inbox'[u] = d
  <2>1. CASE d = inbox[s]
    <3>1. NoClient # d
      BY Zenon, FallbackAssumption DEF FallbackAssumption
    <3> QED
      BY Zenon, <1>3, <1>4, <1>5, <1>7, <2>1, <3>1
  <2>2. CASE d # inbox[s]
    <3>1. client'[d] \in {"sent", "relay"} <=> \E u \in Slot : inbox[u] = d
      BY Zenon, <1>4, <2>2 DEF FallbackInv, StreamOwnedOnce
    <3>2. NoClient # d
      BY Zenon, FallbackAssumption DEF FallbackAssumption
    <3> QED
      BY Zenon, <1>5, <2>2, <3>1, <3>2
  <2> QED
    BY Zenon, <2>1, <2>2
<1>9. /\ \A u, w \in Slot : u # w /\ inbox'[u] = inbox'[w] => inbox'[u] = NoClient
      /\ \A u \in Slot : inbox'[u] # NoClient => ClientToken[inbox'[u]] = SlotToken[u]
  BY Zenon, <1>5 DEF FallbackInv, StreamOwnedOnce
<1> QED
  BY Zenon, <1>4, <1>5, <1>6, <1>8, <1>9 DEF StreamOwnedOnce

(* A stream that no slot holds is sent to an empty slot of its token.      *)
LEMMA StreamSent ==
    ASSUME FallbackInv, NEW s \in Slot, NEW c \in Client, inbox[s] = NoClient,
           client[c] \notin {"sent", "relay"}, ClientToken[c] = SlotToken[s],
           client' = [client EXCEPT ![c] = "sent"], inbox' = [inbox EXCEPT ![s] = c]
    PROVE  inbox' \in [Slot -> Client \cup {NoClient}] /\ StreamOwnedOnce'
<1>1. DOMAIN client = Client /\ DOMAIN inbox = Slot /\ c # NoClient
  BY Zenon, FallbackAssumption DEF FallbackInv, PoolTypes, FallbackAssumption
<1>2. client'[c] = "sent" /\ \A d \in Client : d # c => client'[d] = client[d]
  BY Zenon, <1>1
<1>3. /\ inbox' \in [Slot -> Client \cup {NoClient}] /\ inbox'[s] = c
      /\ \A u \in Slot : u # s => inbox'[u] = inbox[u]
  BY Zenon, <1>1 DEF FallbackInv, PoolTypes
<1>4. \A u \in Slot : inbox[u] # c
  BY Zenon DEF FallbackInv, StreamOwnedOnce
<1>5. ASSUME NEW d \in Client
      PROVE  client'[d] \in {"sent", "relay"} <=> \E u \in Slot : inbox'[u] = d
  <2>1. CASE d = c
    BY Zenon, <1>2, <1>3, <2>1
  <2>2. CASE d # c
    <3>1. client'[d] \in {"sent", "relay"} <=> \E u \in Slot : inbox[u] = d
      BY Zenon, <1>2, <2>2 DEF FallbackInv, StreamOwnedOnce
    <3>2. NoClient # d
      BY Zenon, FallbackAssumption DEF FallbackAssumption
    <3> QED
      BY Zenon, <1>3, <2>2, <3>1, <3>2
  <2> QED
    BY Zenon, <2>1, <2>2
<1>6. \A u, w \in Slot : u # w /\ inbox'[u] = inbox'[w] => inbox'[u] = NoClient
  <2> SUFFICES ASSUME NEW u \in Slot, NEW w \in Slot, u # w, inbox'[u] = inbox'[w]
               PROVE  inbox'[u] = NoClient
    BY Zenon
  <2>1. u # s /\ w # s
    BY Zenon, <1>3, <1>4
  <2>2. inbox[u] = inbox[w] => inbox[u] = NoClient
    BY Zenon DEF FallbackInv, StreamOwnedOnce
  <2> QED
    BY Zenon, <1>3, <2>1, <2>2
<1>7. \A u \in Slot : inbox'[u] # NoClient => ClientToken[inbox'[u]] = SlotToken[u]
  BY Zenon, <1>3 DEF FallbackInv, StreamOwnedOnce
<1> QED
  BY Zenon, <1>3, <1>5, <1>6, <1>7 DEF StreamOwnedOnce

(* A step that leaves waiting and delivering tasks alone.                  *)
LEMMA TasksStay ==
    ASSUME FallbackInv, UNCHANGED <<waiters, popped>>,
           \A d \in Client : client[d] \notin {"sent", "relay"} => client'[d] = client[d]
    PROVE  /\ waiters' \in Seq(Client) /\ WaitersAsleep'
           /\ popped' \in [Client -> Slot \cup {NoSlot}] /\ PoppedInDrain'
<1>1. \A v \in {"sleep", "drain", "drainAfterWait", "failover"} : v \notin {"sent", "relay"}
  OBVIOUS
<1>2. WaitersAsleep'
  BY Zenon, <1>1 DEF FallbackInv, WaitersAsleep
<1>3. PoppedInDrain'
  BY Zenon, <1>1 DEF FallbackInv, PoppedInDrain
<1> QED
  BY Zenon, <1>2, <1>3 DEF FallbackInv, PoolTypes

(* A step that leaves the pools alone.                                     *)
LEMMA PoolsStay ==
    ASSUME FallbackInv, queue' = queue
    PROVE  queue' \in [PoolToken -> Seq(Slot)] /\ InOwnPool'
BY Zenon DEF FallbackInv, PoolTypes, InOwnPool

(* One slot's task moves on; it goes to "verify" with a Client only.       *)
LEMMA SlotMoves ==
    ASSUME FallbackInv, NEW s \in Slot, NEW v \in SlotState, slot' = [slot EXCEPT ![s] = v],
           \A u \in Slot : u # s => inbox'[u] = inbox[u],
           v = "verify" => inbox'[s] # NoClient
    PROVE  slot' \in [Slot -> SlotState] /\ VerifyHasClient'
<1>1. DOMAIN slot = Slot
  BY Zenon DEF FallbackInv, PoolTypes
<1>2. /\ slot' \in [Slot -> SlotState] /\ slot'[s] = v
      /\ \A u \in Slot : u # s => slot'[u] = slot[u]
  BY Zenon, <1>1 DEF FallbackInv, PoolTypes
<1> QED
  BY Zenon, <1>2 DEF FallbackInv, VerifyHasClient

(* notify_one wakes a sleeping Client, which holds no slot.                *)
LEMMA NotifyOneInv ==
    ASSUME FallbackInv, NotifyOne, UNCHANGED <<inbox, popped>>
    PROVE  /\ client' \in [Client -> ClientState] /\ waiters' \in Seq(Client)
           /\ WaitersAsleep' /\ PoppedInDrain' /\ StreamOwnedOnce'
<1>0. /\ client \in [Client -> ClientState] /\ DOMAIN client = Client
      /\ waiters \in Seq(Client) /\ WaitersAsleep /\ "woken" \in ClientState
  BY Zenon DEF FallbackInv, PoolTypes, ClientState
<1>1. CASE waiters = <<>>
  <2>1. waiters' = waiters /\ client' = client
    BY Zenon, <1>1 DEF NotifyOne
  <2> QED
    BY Zenon, <1>0, <2>1 DEF FallbackInv, WaitersAsleep, PoppedInDrain, StreamOwnedOnce
<1>2. CASE waiters # <<>>
  <2> DEFINE c == Head(waiters)
  <2>1. waiters' = Tail(waiters) /\ client' = [client EXCEPT ![c] = "woken"]
    BY Zenon, <1>2 DEF NotifyOne
  <2>2. /\ c \in Client /\ Holds(waiters, c) /\ Tail(waiters) \in Seq(Client)
        /\ \A x : Holds(waiters, x) <=> (x = c \/ Holds(Tail(waiters), x))
        /\ NoRepeat(waiters) => NoRepeat(Tail(waiters)) /\ ~Holds(Tail(waiters), c)
    BY Zenon, <1>0, <1>2, TailEntries
  <2> HIDE DEF c
  <2>3. client[c] = "sleep"
    BY Zenon, <1>0, <2>2 DEF WaitersAsleep
  <2>4. /\ client[c] \notin {"sent", "relay"} /\ "woken" \notin {"sent", "relay"}
        /\ client[c] \notin {"drain", "drainAfterWait", "failover"}
    BY <2>3
  <2>5. StreamOwnedOnce'
    BY Zenon, <1>0, <2>1, <2>2, <2>4, StreamMoves
  <2>6. /\ client' \in [Client -> ClientState]
        /\ \A d \in Client : d # c => client'[d] = client[d]
    BY Zenon, <1>0, <2>1, <2>2
  <2>7. WaitersAsleep'
    BY Zenon, <1>0, <2>1, <2>2, <2>6 DEF WaitersAsleep
  <2>8. PoppedInDrain'
    BY Zenon, <2>2, <2>4, <2>6 DEF FallbackInv, PoppedInDrain
  <2> QED
    BY Zenon, <2>1, <2>2, <2>5, <2>6, <2>7, <2>8
<1> QED
  BY Zenon, <1>1, <1>2

(* A step of a slot's task.                                                *)
LEMMA SlotStep ==
    ASSUME FallbackInv, NEW s \in Slot,
           Park(s) \/ StartPing(s) \/ Superseded(s) \/ SlotTask(s)
    PROVE  FallbackInv'
<1> USE DEF notif
<1>0. /\ inbox \in [Slot -> Client \cup {NoClient}] /\ client \in [Client -> ClientState]
      /\ VerifyHasClient /\ StreamOwnedOnce
      /\ \A v \in {"pushed", "parked", "pinging", "giveUp", "relay", "down"} :
            v \in SlotState /\ v # "verify"
      /\ "verify" \in SlotState
  BY DEF FallbackInv, PoolTypes, SlotState
<1>1. CASE Park(s)
  <2>1. slot' = [slot EXCEPT ![s] = "pushed"] /\ UNCHANGED <<inbox, client, popped, waiters>>
    BY Zenon, <1>1 DEF Park
  <2>2. slot' \in [Slot -> SlotState] /\ VerifyHasClient'
    BY Zenon, <1>0, <2>1, SlotMoves
  <2>3. queue \in [PoolToken -> Seq(Slot)] /\ SlotToken[s] \in PoolToken
    BY Zenon, FallbackAssumption DEF FallbackInv, PoolTypes, FallbackAssumption
  <2>4. /\ Append(queue[SlotToken[s]], s) \in Seq(Slot)
        /\ \A x : Holds(Append(queue[SlotToken[s]], s), x)
                    <=> (x = s \/ Holds(queue[SlotToken[s]], x))
    BY Zenon, <2>3, AppendEntries
  <2>5. queue' = [queue EXCEPT ![SlotToken[s]] = Append(queue[SlotToken[s]], s)]
    BY Zenon, <1>1 DEF Park
  <2>6. queue' \in [PoolToken -> Seq(Slot)]
    BY Zenon, <2>3, <2>4, <2>5
  <2>7. \A t \in PoolToken : queue'[t] = IF t = SlotToken[s]
                                         THEN Append(queue[SlotToken[s]], s) ELSE queue[t]
    BY Zenon, <2>3, <2>5
  <2>8. InOwnPool'
    BY Zenon, <2>4, <2>7 DEF FallbackInv, InOwnPool
  <2>9. WaitersAsleep' /\ PoppedInDrain' /\ StreamOwnedOnce'
    BY Zenon, <2>1, TasksStay DEF FallbackInv, StreamOwnedOnce
  <2> QED
    BY Zenon, <1>0, <2>1, <2>2, <2>6, <2>8, <2>9 DEF FallbackInv, PoolTypes
<1>2. ASSUME NEW v \in SlotState, slot' = [slot EXCEPT ![s] = v],
             v = "verify" => inbox[s] # NoClient,
             UNCHANGED <<queue, inbox, client, popped, waiters>>
      PROVE  FallbackInv'
  <2>1. slot' \in [Slot -> SlotState] /\ VerifyHasClient'
    BY Zenon, <1>2, SlotMoves
  <2>2. WaitersAsleep' /\ PoppedInDrain' /\ InOwnPool' /\ StreamOwnedOnce'
    BY Zenon, <1>2, TasksStay, PoolsStay DEF FallbackInv, StreamOwnedOnce
  <2> QED
    BY Zenon, <1>2, <2>1, <2>2 DEF FallbackInv, PoolTypes
<1>3. ASSUME NEW v \in SlotState, v # "verify", slot' = [slot EXCEPT ![s] = v],
             \A u \in Slot : u # s => inbox'[u] = inbox[u],
             client' \in [Client -> ClientState],
             inbox' \in [Slot -> Client \cup {NoClient}], StreamOwnedOnce',
             \A d \in Client : client[d] \notin {"sent", "relay"} => client'[d] = client[d],
             UNCHANGED <<queue, popped, waiters>>
      PROVE  FallbackInv'
  <2>1. slot' \in [Slot -> SlotState] /\ VerifyHasClient'
    BY Zenon, <1>3, SlotMoves
  <2> QED
    BY Zenon, <1>3, <2>1, TasksStay, PoolsStay DEF FallbackInv, PoolTypes
<1>4. CASE StartPing(s) \/ Superseded(s)
  BY Zenon, <1>0, <1>2, <1>4 DEF StartPing, Superseded
<1>5. CASE TakeClient(s)
  BY Zenon, <1>0, <1>2, <1>5 DEF TakeClient
<1>6. CASE PingOk(s)
  <2>1. CASE inbox[s] = NoClient
    BY Zenon, <1>0, <1>2, <1>6, <2>1 DEF PingOk
  <2>2. CASE inbox[s] # NoClient
    BY Zenon, <1>0, <1>3, <1>6, <2>2, StreamRelayed DEF PingOk
  <2> QED
    BY Zenon, <2>1, <2>2
<1>7. CASE PingFails(s)
  <2>1. CASE inbox[s] = NoClient
    BY Zenon, <1>0, <1>2, <1>7, <2>1 DEF PingFails
  <2>2. CASE inbox[s] # NoClient
    BY Zenon, <1>0, <1>3, <1>7, <2>2, StreamReleased DEF PingFails
  <2> QED
    BY Zenon, <2>1, <2>2
<1>8. CASE GiveUp(s)
  <2>1. CASE inbox[s] = NoClient
    <3>1. inbox' = inbox /\ client' = client
      BY Zenon, <1>0, <1>8, <2>1 DEF GiveUp
    <3> QED
      BY Zenon, <1>0, <1>2, <1>8, <3>1 DEF GiveUp
  <2>2. CASE inbox[s] # NoClient
    BY Zenon, <1>0, <1>3, <1>8, <2>2, StreamReleased DEF GiveUp
  <2> QED
    BY Zenon, <2>1, <2>2
<1>9. CASE VerifyOk(s)
  <2>1. inbox[s] # NoClient
    BY Zenon, <1>0, <1>9 DEF VerifyOk, VerifyHasClient
  <2> QED
    BY Zenon, <1>0, <1>3, <1>9, <2>1, StreamRelayed DEF VerifyOk
<1>10. CASE VerifyFails(s)
  <2>1. inbox[s] # NoClient
    BY Zenon, <1>0, <1>10 DEF VerifyFails, VerifyHasClient
  <2> QED
    BY Zenon, <1>0, <1>3, <1>10, <2>1, StreamReleased DEF VerifyFails
<1>11. CASE CountPark(s)
  <2>1. /\ slot' = [slot EXCEPT ![s] = "parked"] /\ NotifyOne
        /\ UNCHANGED <<queue, inbox, popped>>
    BY Zenon, <1>11 DEF CountPark
  <2>2. slot' \in [Slot -> SlotState] /\ VerifyHasClient'
    BY Zenon, <1>0, <2>1, SlotMoves
  <2> QED
    BY Zenon, <1>0, <2>1, <2>2, NotifyOneInv, PoolsStay DEF FallbackInv, PoolTypes
<1> QED
  BY Zenon, <1>1, <1>4, <1>5, <1>6, <1>7, <1>8, <1>9, <1>10, <1>11 DEF SlotTask

(* A Client that has no slot and no sender moves on, the rest staying.     *)
LEMMA ClientMoves ==
    ASSUME FallbackInv, NEW c \in Client, NEW v \in ClientState,
           client[c] \notin {"sent", "relay"}, v \notin {"sent", "relay"}, popped[c] = NoSlot,
           client' = [client EXCEPT ![c] = v], UNCHANGED <<queue, slot, inbox, popped>>,
           waiters' \in Seq(Client), WaitersAsleep'
    PROVE  FallbackInv'
<1>1. client' \in [Client -> ClientState] /\ VerifyHasClient'
  BY Zenon DEF FallbackInv, PoolTypes, VerifyHasClient
<1>2. StreamOwnedOnce'
  BY Zenon, StreamMoves
<1>3. PoppedInDrain'
  <2>1. DOMAIN client = Client
    BY Zenon DEF FallbackInv, PoolTypes
  <2>2. \A d \in Client : d # c => client'[d] = client[d]
    BY Zenon, <2>1
  <2> QED
    BY Zenon, <2>2 DEF FallbackInv, PoppedInDrain
<1> QED
  BY Zenon, <1>1, <1>2, <1>3, PoolsStay DEF FallbackInv, PoolTypes

(* A delivery pops the front sender, which is of the Client's token.       *)
LEMMA PopInv ==
    ASSUME FallbackInv, NEW c \in Client, Pop(c)
    PROVE  FallbackInv'
<1> DEFINE t == ClientToken[c]
           s == Head(queue[t])
<1>0. /\ queue \in [PoolToken -> Seq(Slot)] /\ t \in PoolToken
      /\ popped \in [Client -> Slot \cup {NoSlot}]
      /\ UNCHANGED <<slot, inbox, client, waiters>>
  BY Zenon, FallbackAssumption DEF FallbackInv, PoolTypes, FallbackAssumption, Pop, notif
<1>1. /\ queue[t] # <<>> /\ client[c] \in {"drain", "drainAfterWait", "failover"}
      /\ queue' = [queue EXCEPT ![t] = Tail(queue[t])] /\ popped' = [popped EXCEPT ![c] = s]
  BY Zenon DEF Pop, PopFront, FrontOf, HasTcpAgent, Draining
<1>2. /\ s \in Slot /\ Holds(queue[t], s) /\ Tail(queue[t]) \in Seq(Slot)
      /\ \A x : Holds(queue[t], x) <=> (x = s \/ Holds(Tail(queue[t]), x))
  BY Zenon, <1>0, <1>1, TailEntries
<1> HIDE DEF s
<1>3. queue' \in [PoolToken -> Seq(Slot)] /\ popped' \in [Client -> Slot \cup {NoSlot}]
  BY Zenon, <1>0, <1>1, <1>2
<1>4. \A x \in PoolToken : queue'[x] = IF x = t THEN Tail(queue[t]) ELSE queue[x]
  BY Zenon, <1>0, <1>1
<1>5. InOwnPool'
  BY Zenon, <1>2, <1>4 DEF FallbackInv, InOwnPool
<1>6. SlotToken[s] = t
  BY Zenon, <1>0, <1>2 DEF FallbackInv, InOwnPool
<1>7. popped'[c] = s /\ \A d \in Client : d # c => popped'[d] = popped[d]
  BY Zenon, <1>0, <1>1
<1>8. PoppedInDrain'
  BY Zenon, <1>0, <1>1, <1>6, <1>7 DEF FallbackInv, PoppedInDrain
<1>9. VerifyHasClient' /\ StreamOwnedOnce' /\ WaitersAsleep'
  BY Zenon, <1>0 DEF FallbackInv, VerifyHasClient, StreamOwnedOnce, WaitersAsleep
<1> QED
  BY Zenon, <1>0, <1>3, <1>5, <1>8, <1>9 DEF FallbackInv, PoolTypes

(* The popped sender takes the Client if its receiver is there.            *)
LEMMA SendInv ==
    ASSUME FallbackInv, NEW c \in Client, Send(c)
    PROVE  FallbackInv'
<1> DEFINE s == popped[c]
<1>0. /\ client \in [Client -> ClientState] /\ DOMAIN client = Client
      /\ popped \in [Client -> Slot \cup {NoSlot}] /\ DOMAIN inbox = Slot
      /\ UNCHANGED <<queue, slot, waiters>> /\ s # NoSlot
      /\ popped' = [popped EXCEPT ![c] = NoSlot]
  BY Zenon DEF FallbackInv, PoolTypes, Send, notif
<1>1. /\ s \in Slot /\ SlotToken[s] = ClientToken[c]
      /\ client[c] \in {"drain", "drainAfterWait", "failover"}
  BY Zenon, <1>0 DEF FallbackInv, PoppedInDrain
<1>2. client[c] \notin {"sent", "relay", "sleep"}
  BY <1>1
<1>3. /\ popped' \in [Client -> Slot \cup {NoSlot}] /\ popped'[c] = NoSlot
      /\ \A d \in Client : d # c => popped'[d] = popped[d]
  BY Zenon, <1>0
<1>4. CASE ReceiverOpen(s)
  <2>1. /\ inbox' = [inbox EXCEPT ![s] = c] /\ client' = [client EXCEPT ![c] = "sent"]
        /\ inbox[s] = NoClient /\ slot[s] \in {"pushed", "parked", "pinging", "giveUp"}
    BY Zenon, <1>4 DEF Send, ReceiverOpen
  <2> HIDE DEF s
  <2>2. client[c] \notin {"sent", "relay"} /\ "sent" \in ClientState /\ slot[s] # "verify"
    BY <1>2, <2>1 DEF ClientState
  <2>3. inbox' \in [Slot -> Client \cup {NoClient}] /\ StreamOwnedOnce'
    BY Zenon, <1>1, <2>1, <2>2, StreamSent
  <2>4. VerifyHasClient'
    BY Zenon, <1>0, <2>1, <2>2 DEF FallbackInv, VerifyHasClient
  <2>5. /\ client' \in [Client -> ClientState]
        /\ \A d \in Client : d # c => client'[d] = client[d]
    BY Zenon, <1>0, <2>1, <2>2
  <2>6. WaitersAsleep'
    BY Zenon, <1>0, <1>2, <2>5 DEF FallbackInv, WaitersAsleep
  <2>7. PoppedInDrain'
    BY Zenon, <1>3, <2>5 DEF FallbackInv, PoppedInDrain
  <2> QED
    BY Zenon, <1>0, <1>3, <2>3, <2>4, <2>5, <2>6, <2>7, PoolsStay DEF FallbackInv, PoolTypes
<1>5. CASE ~ReceiverOpen(s)
  <2>1. inbox' = inbox /\ client' = client
    BY Zenon, <1>5 DEF Send
  <2>2. VerifyHasClient' /\ StreamOwnedOnce' /\ WaitersAsleep'
    BY Zenon, <1>0, <2>1 DEF FallbackInv, VerifyHasClient, StreamOwnedOnce, WaitersAsleep
  <2>3. PoppedInDrain'
    BY Zenon, <1>3, <2>1 DEF FallbackInv, PoppedInDrain
  <2> QED
    BY Zenon, <1>0, <1>3, <2>1, <2>2, <2>3, PoolsStay DEF FallbackInv, PoolTypes
<1> QED
  BY Zenon, <1>4, <1>5

(* A step of a Client's task.                                              *)
LEMMA ClientStep ==
    ASSUME FallbackInv, NEW c \in Client,
           Arrive(c) \/ ClientTask(c)
    PROVE  FallbackInv'
<1> USE DEF notif
<1>0. /\ client \in [Client -> ClientState] /\ DOMAIN client = Client
      /\ waiters \in Seq(Client) /\ WaitersAsleep
  BY Zenon DEF FallbackInv, PoolTypes
<1>1. \A v \in {"drain", "drainAfterWait", "sleep", "woken", "timedOut", "check", "dropped"} :
         v \in ClientState /\ v \notin {"sent", "relay"}
  BY DEF ClientState
<1>2. ASSUME NEW v \in {"drain", "drainAfterWait", "sleep", "woken", "check", "dropped"},
             client[c] \notin {"sent", "relay"}, popped[c] = NoSlot, ~Holds(waiters, c),
             client' = [client EXCEPT ![c] = v], UNCHANGED <<queue, slot, inbox, popped, waiters>>
      PROVE  FallbackInv'
  <2>1. \A d \in Client : d # c => client'[d] = client[d]
    BY Zenon, <1>0, <1>2
  <2>2. WaitersAsleep'
    BY Zenon, <1>0, <1>2, <2>1 DEF WaitersAsleep
  <2> QED
    BY Zenon, <1>0, <1>1, <1>2, <2>2, ClientMoves
<1>3. /\ client[c] # "sleep" => ~Holds(waiters, c)
      /\ client[c] \notin {"drain", "drainAfterWait", "failover"} => popped[c] = NoSlot
  BY Zenon, <1>0 DEF WaitersAsleep, FallbackInv, PoppedInDrain
<1>4. CASE Arrive(c)
  <2>1. client[c] \notin {"sent", "relay", "sleep", "drain", "drainAfterWait", "failover"}
    BY <1>4 DEF Arrive
  <2> QED
    BY Zenon, <1>2, <1>3, <1>4, <2>1 DEF Arrive
<1>5. CASE WaitCheck(c)
  <2>1. client[c] \notin {"sent", "relay", "sleep", "drain", "drainAfterWait", "failover"}
    BY <1>5 DEF WaitCheck
  <2> QED
    BY Zenon, <1>2, <1>3, <1>5, <2>1 DEF WaitCheck
<1>6. CASE Notified(c)
  <2>1. ~Holds(waiters, c) /\ client[c] = "sleep"
    BY Zenon, <1>6 DEF Notified, Holds
  <2>2. client[c] \notin {"sent", "relay", "drain", "drainAfterWait", "failover"}
    BY <2>1
  <2>3. CASE permit
    BY Zenon, <1>2, <1>3, <1>6, <2>1, <2>2, <2>3 DEF Notified
  <2>4. CASE ~permit
    <3>1. /\ waiters' = Append(waiters, c)
          /\ UNCHANGED <<client, queue, slot, inbox, popped>>
      BY Zenon, <1>6, <2>4 DEF Notified
    <3>2. /\ Append(waiters, c) \in Seq(Client) /\ NoRepeat(Append(waiters, c))
          /\ \A x : Holds(Append(waiters, c), x) <=> (x = c \/ Holds(waiters, x))
      BY Zenon, <1>0, <2>1, AppendEntries DEF WaitersAsleep
    <3>3. WaitersAsleep'
      BY Zenon, <1>0, <2>1, <3>1, <3>2 DEF WaitersAsleep
    <3>4. VerifyHasClient' /\ StreamOwnedOnce' /\ InOwnPool' /\ PoppedInDrain'
      BY Zenon, <3>1
         DEF FallbackInv, VerifyHasClient, StreamOwnedOnce, InOwnPool, PoppedInDrain
    <3> QED
      BY Zenon, <3>1, <3>2, <3>3, <3>4 DEF FallbackInv, PoolTypes
  <2> QED
    BY Zenon, <2>3, <2>4
<1>7. CASE WaitTimeout(c)
  <2>1. PICK v \in {"drainAfterWait", "timedOut"} : client' = [client EXCEPT ![c] = v]
    BY Zenon, <1>7 DEF WaitTimeout
  <2>2. client[c] \notin {"sent", "relay", "drain", "drainAfterWait", "failover"}
    BY <1>7 DEF WaitTimeout
  <2>3. /\ waiters' = Retained(waiters, Client \ {c})
        /\ UNCHANGED <<queue, slot, inbox, popped>>
    BY Zenon, <1>7 DEF WaitTimeout
  <2> DEFINE W == Retained(waiters, Client \ {c})
  <2>4. /\ W \in Seq(Client) /\ NoRepeat(W)
        /\ \A x : Holds(W, x) <=> (x \in Client \ {c} /\ Holds(waiters, x))
    BY Zenon, <1>0, RetainedEntries DEF WaitersAsleep
  <2> HIDE DEF W
  <2>5. \A d \in Client : d # c => client'[d] = client[d]
    BY Zenon, <1>0, <2>1
  <2>6. waiters' = W
    BY Zenon, <2>3 DEF W
  <2>7. WaitersAsleep'
    BY Zenon, <1>0, <2>4, <2>5, <2>6 DEF WaitersAsleep
  <2> QED
    BY Zenon, <1>1, <1>3, <2>1, <2>2, <2>3, <2>4, <2>6, <2>7, ClientMoves
<1>8. CASE PoolEmpty(c)
  <2>1. client[c] \notin {"sent", "relay", "sleep"}
    BY <1>8 DEF PoolEmpty, Draining
  <2> QED
    BY Zenon, <1>2, <1>3, <1>8, <2>1 DEF PoolEmpty, Draining, AfterFailedDrain
<1> QED
  BY Zenon, <1>4, <1>5, <1>6, <1>7, <1>8, PopInv, SendInv DEF ClientTask

(* The reaper and a teardown take senders out of the pools, or leave them. *)
LEMMA PoolStep ==
    ASSUME FallbackInv, ReapDead \/ CountReaped \/ \E t \in PoolToken : DropPool(t)
    PROVE  FallbackInv'
<1>0. queue \in [PoolToken -> Seq(Slot)]
  BY Zenon DEF FallbackInv, PoolTypes
<1>1. UNCHANGED <<slot, inbox, client, popped, waiters>>
  BY Zenon DEF ReapDead, CountReaped, DropPool, notif
<1>2. /\ queue' \in [PoolToken -> Seq(Slot)]
      /\ \A t \in PoolToken, s \in Slot : Holds(queue'[t], s) => Holds(queue[t], s)
  <2>1. CASE ReapDead
    <3>1. PICK S : queue' = [t \in PoolToken |-> Retained(queue[t], S)]
      BY Zenon, <2>1 DEF ReapDead
    <3>2. \A t \in PoolToken :
             /\ Retained(queue[t], S) \in Seq(Slot)
             /\ \A x : Holds(Retained(queue[t], S), x) => Holds(queue[t], x)
      BY Zenon, <1>0, RetainedEntries
    <3> QED
      BY Zenon, <3>1, <3>2
  <2>2. ASSUME NEW t \in PoolToken, DropPool(t)
        PROVE  /\ queue' \in [PoolToken -> Seq(Slot)]
               /\ \A x \in PoolToken, s \in Slot : Holds(queue'[x], s) => Holds(queue[x], s)
    <3>1. <<>> \in Seq(Slot) /\ \A x : ~Holds(<<>>, x)
      BY DEF Holds
    <3>2. queue' = [queue EXCEPT ![t] = <<>>]
      BY Zenon, <2>2 DEF DropPool
    <3>3. queue' \in [PoolToken -> Seq(Slot)]
      BY Zenon, <1>0, <3>1, <3>2
    <3>4. \A x \in PoolToken : queue'[x] = IF x = t THEN <<>> ELSE queue[x]
      BY Zenon, <1>0, <3>2
    <3> QED
      BY Zenon, <3>1, <3>3, <3>4
  <2>3. CASE CountReaped
    BY Zenon, <1>0, <2>3 DEF CountReaped
  <2> QED
    BY Zenon, <2>1, <2>2, <2>3
<1>3. InOwnPool'
  BY Zenon, <1>2 DEF FallbackInv, InOwnPool
<1>4. VerifyHasClient' /\ StreamOwnedOnce' /\ WaitersAsleep' /\ PoppedInDrain'
  BY Zenon, <1>1
     DEF FallbackInv, VerifyHasClient, StreamOwnedOnce, WaitersAsleep, PoppedInDrain
<1> QED
  BY Zenon, <1>1, <1>2, <1>3, <1>4 DEF FallbackInv, PoolTypes

(* Every step of the TCP fallback preserves the invariant.                 *)
LEMMA FallbackStepInv == FallbackInv /\ [FallbackNext]_fallbackVars => FallbackInv'
<1> SUFFICES ASSUME FallbackInv, [FallbackNext]_fallbackVars PROVE FallbackInv'
  BY Zenon
<1>1. CASE UNCHANGED fallbackVars
  <2>1. UNCHANGED <<queue, slot, inbox, client, popped, waiters>>
    BY Zenon, <1>1 DEF fallbackVars
  <2>2. PoolTypes' /\ InOwnPool' /\ WaitersAsleep' /\ PoppedInDrain'
    BY Zenon, <2>1 DEF FallbackInv, PoolTypes, InOwnPool, WaitersAsleep, PoppedInDrain
  <2>3. VerifyHasClient' /\ StreamOwnedOnce'
    BY Zenon, <2>1 DEF FallbackInv, VerifyHasClient, StreamOwnedOnce
  <2> QED
    BY Zenon, <2>2, <2>3 DEF FallbackInv
<1>2. CASE FallbackNext
  BY Zenon, <1>2, SlotStep, ClientStep, PoolStep DEF FallbackNext
<1> QED
  BY Zenon, <1>1, <1>2

(* FallbackInv holds in every reachable state.                             *)
THEOREM FallbackInvariant == FallbackSpec => []FallbackInv
  BY FallbackInitInv, FallbackStepInv, PTL DEF FallbackSpec

(* The single owner of a Client's stream: whatever order parks, probes,    *)
(* deliveries, failovers, reaps and teardowns take, it is in one slot's    *)
(* oneshot exactly while it is sent or relayed, and that slot is of its    *)
(* token.                                                                  *)
THEOREM OneOwnerPerStream == FallbackSpec => []StreamOwnedOnce
<1>1. FallbackInv => StreamOwnedOnce
  BY Zenon DEF FallbackInv
<1> QED
  BY <1>1, FallbackInvariant, PTL

(* What is queued is the entry of its own token's queue.                   *)
LEMMA QueuedHolds ==
    /\ \A s \in Slot : Queued(s) <=> Holds(queue[SlotToken[s]], s)
    /\ \A s \in Slot : Queued(s)' <=> Holds(queue'[SlotToken[s]], s)
  BY Zenon DEF Queued, Holds

(* What a park does to the queues.                                         *)
LEMMA ParkQueues ==
    ASSUME FallbackInv, NEW s \in Slot, Park(s)
    PROVE  \A u \in Slot : Queued(u)' <=> (u = s \/ Queued(u))
<1> DEFINE t == SlotToken[s]
<1>0. /\ queue \in [PoolToken -> Seq(Slot)] /\ t \in PoolToken
      /\ \A u \in Slot : SlotToken[u] \in PoolToken
  BY Zenon, FallbackAssumption DEF FallbackInv, PoolTypes, FallbackAssumption
<1>1. queue' = [queue EXCEPT ![t] = Append(queue[t], s)]
  BY Zenon DEF Park
<1>2. \A x : Holds(Append(queue[t], s), x) <=> (x = s \/ Holds(queue[t], x))
  BY Zenon, <1>0, AppendEntries
<1>3. \A x \in PoolToken : queue'[x] = IF x = t THEN Append(queue[t], s) ELSE queue[x]
  BY Zenon, <1>0, <1>1
<1> QED
  BY Zenon, <1>0, <1>2, <1>3, QueuedHolds

(* What a delivery's pop does to the queues: the popped sender was queued, *)
(* and of the others none is gone.                                         *)
LEMMA PopQueues ==
    ASSUME FallbackInv, NEW c \in Client, Pop(c)
    PROVE  /\ popped[c] = NoSlot /\ popped'[c] \in Slot /\ Queued(popped'[c])
           /\ \A d \in Client : d # c => popped'[d] = popped[d]
           /\ \A u \in Slot : Queued(u)' => Queued(u)
           /\ \A u \in Slot : Queued(u) /\ u # popped'[c] => Queued(u)'
<1> DEFINE t == ClientToken[c]
           s == Head(queue[t])
<1>0. /\ queue \in [PoolToken -> Seq(Slot)] /\ t \in PoolToken
      /\ popped \in [Client -> Slot \cup {NoSlot}]
      /\ \A u \in Slot : SlotToken[u] \in PoolToken
  BY Zenon, FallbackAssumption DEF FallbackInv, PoolTypes, FallbackAssumption
<1>1. /\ queue[t] # <<>> /\ popped[c] = NoSlot
      /\ queue' = [queue EXCEPT ![t] = Tail(queue[t])] /\ popped' = [popped EXCEPT ![c] = s]
  BY Zenon DEF Pop, PopFront, FrontOf, HasTcpAgent, Draining
<1>2. /\ s \in Slot /\ Holds(queue[t], s)
      /\ \A x : Holds(queue[t], x) <=> (x = s \/ Holds(Tail(queue[t]), x))
  BY Zenon, <1>0, <1>1, TailEntries
<1> HIDE DEF s
<1>3. \A x \in PoolToken : queue'[x] = IF x = t THEN Tail(queue[t]) ELSE queue[x]
  BY Zenon, <1>0, <1>1
<1>4. SlotToken[s] = t
  BY Zenon, <1>0, <1>2 DEF FallbackInv, InOwnPool
<1>5. popped'[c] = s /\ \A d \in Client : d # c => popped'[d] = popped[d]
  BY Zenon, <1>0, <1>1
<1>6. Queued(s)
  BY Zenon, <1>2, <1>4, QueuedHolds
<1>7. /\ \A u \in Slot : Queued(u)' => Queued(u)
      /\ \A u \in Slot : Queued(u) /\ u # s => Queued(u)'
  BY Zenon, <1>0, <1>2, <1>3, QueuedHolds
<1> QED
  BY Zenon, <1>1, <1>2, <1>5, <1>6, <1>7

(* The reaper keeps exactly the queued slots whose receiver is there.      *)
LEMMA ReapQueues ==
    ASSUME FallbackInv, ReapDead
    PROVE  \A u \in Slot : Queued(u)' <=> Queued(u) /\ ReceiverOpen(u)
<1> DEFINE kept == {u \in Slot : ReceiverOpen(u)}
<1>0. /\ queue \in [PoolToken -> Seq(Slot)]
      /\ \A u \in Slot : SlotToken[u] \in PoolToken
  BY Zenon, FallbackAssumption DEF FallbackInv, PoolTypes, FallbackAssumption
<1>1. queue' = [t \in PoolToken |-> Retained(queue[t], kept)]
  BY Zenon DEF ReapDead
<1>2. \A u \in Slot : u \in kept <=> ReceiverOpen(u)
  BY Zenon
<1> HIDE DEF kept
<1>3. \A t \in PoolToken :
         \A x : Holds(Retained(queue[t], kept), x) <=> (x \in kept /\ Holds(queue[t], x))
  BY Zenon, <1>0, RetainedEntries
<1> QED
  BY Zenon, <1>0, <1>1, <1>2, <1>3, QueuedHolds

(* What LiveParkKept says of a step.                                       *)
LeavesAsItMay(s) ==
    HasSender(s) /\ ReceiverOpen(s) /\ ~HasSender(s)' =>
       \/ inbox'[s] # NoClient
       \/ queue'[SlotToken[s]] = <<>> /\ UNCHANGED <<popped, gauge>>

(* No step of the TCP fallback takes a live park's sender otherwise: the   *)
(* front sender goes to a delivery and from there to its slot, the reaper  *)
(* retains a live park, and a teardown empties the pool it was in.         *)
LEMMA LiveParkStep ==
    ASSUME FallbackInv, [FallbackNext]_fallbackVars, NEW s \in Slot
    PROVE  LeavesAsItMay(s)
<1> SUFFICES ASSUME HasSender(s), ReceiverOpen(s), ~HasSender(s)'
             PROVE  \/ inbox'[s] # NoClient
                    \/ queue'[SlotToken[s]] = <<>> /\ UNCHANGED <<popped, gauge>>
  BY Zenon DEF LeavesAsItMay
<1>0. ~Queued(s)' /\ \A d \in Client : popped'[d] # s
  BY Zenon DEF HasSender
<1>1. CASE UNCHANGED <<queue, popped>>
  BY Zenon, <1>1 DEF HasSender, Queued
<1>2. CASE UNCHANGED fallbackVars
  BY Zenon, <1>1, <1>2 DEF fallbackVars
<1>3. ASSUME NEW u \in Slot, Park(u)
      PROVE  FALSE
  BY Zenon, <1>0, <1>3, ParkQueues DEF Park, HasSender
<1>4. ASSUME NEW u \in Slot, StartPing(u) \/ Superseded(u) \/ SlotTask(u)
      PROVE  UNCHANGED <<queue, popped>>
  BY Zenon, <1>4
     DEF SlotTask, CountPark, StartPing, TakeClient, Superseded, PingOk, PingFails, GiveUp,
         VerifyOk, VerifyFails
<1>5. ASSUME NEW c \in Client, Pop(c)
      PROVE  FALSE
  <2>1. s # NoSlot
    BY Zenon, FallbackAssumption DEF FallbackAssumption
  <2> QED
    BY Zenon, <1>0, <1>5, <2>1, PopQueues DEF HasSender
<1>6. ASSUME NEW c \in Client, Send(c)
      PROVE  inbox'[s] # NoClient
  <2>1. /\ DOMAIN popped = Client /\ DOMAIN inbox = Slot /\ c # NoClient
        /\ queue' = queue /\ popped' = [popped EXCEPT ![c] = NoSlot]
    BY Zenon, <1>6, FallbackAssumption DEF Send, FallbackInv, PoolTypes, FallbackAssumption
  <2>2. popped[c] = s
    BY Zenon, <1>0, <2>1 DEF HasSender, Queued
  <2>3. inbox' = [inbox EXCEPT ![s] = c]
    BY Zenon, <1>6, <2>2 DEF Send
  <2> QED
    BY Zenon, <2>1, <2>3
<1>7. ASSUME NEW c \in Client,
             Arrive(c) \/ PoolEmpty(c) \/ WaitCheck(c) \/ Notified(c) \/ WaitTimeout(c)
      PROVE  UNCHANGED <<queue, popped>>
  BY Zenon, <1>7 DEF Arrive, PoolEmpty, WaitCheck, Notified, WaitTimeout
<1>8. CASE ReapDead
  BY Zenon, <1>0, <1>8, ReapQueues DEF ReapDead, HasSender
<1>9. CASE CountReaped
  BY Zenon, <1>1, <1>9 DEF CountReaped
<1>10. ASSUME NEW t \in PoolToken, DropPool(t)
       PROVE  queue'[SlotToken[s]] = <<>> /\ UNCHANGED <<popped, gauge>>
  <2>1. /\ DOMAIN queue = PoolToken /\ SlotToken[s] \in PoolToken
        /\ queue' = [queue EXCEPT ![t] = <<>>] /\ UNCHANGED <<popped, gauge>>
    BY Zenon, <1>10, FallbackAssumption DEF DropPool, FallbackInv, PoolTypes, FallbackAssumption
  <2>2. Holds(queue[SlotToken[s]], s) /\ ~Holds(queue'[SlotToken[s]], s)
    BY Zenon, <1>0, <2>1, QueuedHolds DEF HasSender
  <2> QED
    BY Zenon, <2>1, <2>2
<1> QED
  BY Zenon, <1>1, <1>2, <1>3, <1>4, <1>5, <1>6, <1>7, <1>8, <1>9, <1>10
     DEF FallbackNext, ClientTask

(* #505 and #522: a live park loses its sender only by receiving a Client, *)
(* or with its token's whole pool in a step that neither delivers nor      *)
(* reaps.                                                                  *)
THEOREM CorpsesOnly == FallbackSpec => LiveParkKept
<1>1. FallbackInv /\ [FallbackNext]_fallbackVars => \A s \in Slot : LeavesAsItMay(s)
  BY Zenon, LiveParkStep
<1>2. FallbackSpec => [][\A s \in Slot : LeavesAsItMay(s)]_fallbackVars
  BY <1>1, FallbackInvariant, PTL DEF FallbackSpec
<1> QED
  BY <1>2 DEF LiveParkKept, LeavesAsItMay

-----------------------------------------------------------------------------
(* No sender is queued twice, and none before its slot has parked.         *)
QueuesDistinct ==
    /\ \A t \in PoolToken : NoRepeat(queue[t])
    /\ \A s \in Slot : slot[s] = "idle" => ~Queued(s)

(* The inductive invariant for the gauge.  A pop hands one sender from the *)
(* queue to a delivery, which takes one off the gauge; were the sender     *)
(* queued twice, it would still count as queued.                           *)
GaugeInv ==
    QueuesDistinct /\ parkedGauge \in Nat /\ reaped \in Nat /\ GaugeNeverUnder

(* The sets the gauge is held against: parks not counted yet, queued       *)
(* senders, and deliveries with a sender in hand.                          *)
PushedSlots == {s \in Slot : slot[s] = "pushed"}
QueuedSlots == {s \in Slot : Queued(s)}
Holders == {c \in Client : popped[c] # NoSlot}

(* They are finite, before and after a step.                               *)
LEMMA GaugeCounts ==
    /\ IsFiniteSet(PushedSlots) /\ IsFiniteSet(QueuedSlots) /\ IsFiniteSet(Holders)
    /\ Cardinality(PushedSlots) \in Nat /\ Cardinality(PushedSlots') \in Nat
    /\ Cardinality(QueuedSlots) \in Nat /\ Cardinality(QueuedSlots') \in Nat
    /\ Cardinality(Holders) \in Nat /\ Cardinality(Holders') \in Nat
<1>1. \A S \in SUBSET Slot : IsFiniteSet(S) /\ Cardinality(S) \in Nat
  BY Zenon, FallbackAssumption, FS_Subset, FS_CardinalityType DEF FallbackAssumption
<1>2. \A S \in SUBSET Client : IsFiniteSet(S) /\ Cardinality(S) \in Nat
  BY Zenon, FallbackAssumption, FS_Subset, FS_CardinalityType DEF FallbackAssumption
<1>3. /\ PushedSlots \in SUBSET Slot /\ PushedSlots' \in SUBSET Slot
      /\ QueuedSlots \in SUBSET Slot /\ QueuedSlots' \in SUBSET Slot
      /\ Holders \in SUBSET Client /\ Holders' \in SUBSET Client
  BY Zenon DEF PushedSlots, QueuedSlots, Holders
<1> QED
  BY Zenon, <1>1, <1>2, <1>3

(* What GaugeNeverUnder says, in those sets.                               *)
LEMMA GaugeMeans ==
    /\ GaugeNeverUnder <=>
          parkedGauge + Cardinality(PushedSlots)
             >= Cardinality(QueuedSlots) + Cardinality(Holders) + reaped
    /\ GaugeNeverUnder' <=>
          parkedGauge' + Cardinality(PushedSlots')
             >= Cardinality(QueuedSlots') + Cardinality(Holders') + reaped'
  BY Zenon DEF GaugeNeverUnder, PushedSlots, QueuedSlots, Holders

(* A step that moves no sender and counts none leaves the gauge right.     *)
LEMMA QuietGauge ==
    ASSUME GaugeInv, UNCHANGED <<queue, popped, gauge>>,
           \A s \in Slot : slot'[s] = "idle" => slot[s] = "idle",
           \A s \in Slot : (slot'[s] = "pushed") <=> (slot[s] = "pushed")
    PROVE  GaugeInv'
<1>1. /\ QueuedSlots' = QueuedSlots /\ Holders' = Holders
      /\ parkedGauge' = parkedGauge /\ reaped' = reaped
  BY Zenon DEF QueuedSlots, Queued, Holders, gauge
<1>2. PushedSlots' = PushedSlots
  BY Zenon DEF PushedSlots
<1>3. QueuesDistinct'
  BY Zenon DEF GaugeInv, QueuesDistinct, Queued
<1> QED
  BY Zenon, <1>1, <1>2, <1>3, GaugeMeans DEF GaugeInv

(* A slot's steps after its park is counted, and before a delivery.        *)
LEMMA SlotGauge ==
    ASSUME FallbackInv, GaugeInv, NEW s \in Slot,
           \/ StartPing(s) \/ TakeClient(s) \/ Superseded(s) \/ PingOk(s)
           \/ PingFails(s) \/ GiveUp(s) \/ VerifyOk(s) \/ VerifyFails(s)
    PROVE  GaugeInv'
<1>0. DOMAIN slot = Slot
  BY Zenon DEF FallbackInv, PoolTypes
<1>1. UNCHANGED <<queue, popped, gauge>>
  BY Zenon
     DEF StartPing, TakeClient, Superseded, PingOk, PingFails, GiveUp, VerifyOk, VerifyFails
<1>2. slot[s] \in {"parked", "pinging", "verify", "giveUp"}
  BY Zenon
     DEF StartPing, TakeClient, Superseded, PingOk, PingFails, GiveUp, VerifyOk, VerifyFails
<1>3. PICK v \in {"parked", "pinging", "verify", "giveUp", "relay", "down"} :
         slot' = [slot EXCEPT ![s] = v]
  BY Zenon
     DEF StartPing, TakeClient, Superseded, PingOk, PingFails, GiveUp, VerifyOk, VerifyFails
<1>4. v # "idle" /\ v # "pushed" /\ slot[s] # "pushed"
  BY <1>2
<1>5. \A u \in Slot : /\ slot'[u] = "idle" => slot[u] = "idle"
                      /\ (slot'[u] = "pushed") <=> (slot[u] = "pushed")
  BY Zenon, <1>0, <1>3, <1>4
<1> QED
  BY Zenon, <1>1, <1>5, QuietGauge

(* A park queues one sender and is itself one park to be counted.          *)
LEMMA ParkGauge ==
    ASSUME FallbackInv, GaugeInv, NEW s \in Slot, Park(s)
    PROVE  GaugeInv'
<1> DEFINE t == SlotToken[s]
<1>0. /\ queue \in [PoolToken -> Seq(Slot)] /\ DOMAIN slot = Slot /\ t \in PoolToken
  BY Zenon, FallbackAssumption DEF FallbackInv, PoolTypes, FallbackAssumption
<1>1. /\ queue' = [queue EXCEPT ![t] = Append(queue[t], s)]
      /\ slot' = [slot EXCEPT ![s] = "pushed"] /\ slot[s] = "idle"
      /\ UNCHANGED <<popped, parkedGauge, reaped>>
  BY Zenon DEF Park
<1>2. /\ "pushed" # "idle" /\ slot[s] # "pushed"
  BY <1>1
<1>3. slot'[s] = "pushed" /\ \A u \in Slot : u # s => slot'[u] = slot[u]
  BY Zenon, <1>0, <1>1
<1>4. \A u \in Slot : Queued(u)' <=> (u = s \/ Queued(u))
  BY Zenon, ParkQueues
<1>5. QueuesDistinct'
  <2>1. ~Holds(queue[t], s)
    BY Zenon, <1>1, QueuedHolds DEF GaugeInv, QueuesDistinct
  <2>2. NoRepeat(Append(queue[t], s))
    BY Zenon, <1>0, <2>1, AppendEntries DEF GaugeInv, QueuesDistinct
  <2>3. \A x \in PoolToken : NoRepeat(queue'[x])
    BY Zenon, <1>0, <1>1, <2>2 DEF GaugeInv, QueuesDistinct
  <2>4. \A u \in Slot : slot'[u] = "idle" => ~Queued(u)'
    BY Zenon, <1>2, <1>3, <1>4 DEF GaugeInv, QueuesDistinct
  <2> QED
    BY Zenon, <2>3, <2>4 DEF QueuesDistinct
<1>6. Cardinality(PushedSlots') = Cardinality(PushedSlots) + 1
  <2>1. \A u \in Slot : (slot'[u] = "pushed") <=> (slot[u] = "pushed" \/ u = s)
    BY Zenon, <1>3
  <2>2. PushedSlots' = PushedSlots \cup {s}
    BY Zenon, <2>1 DEF PushedSlots
  <2>3. s \notin PushedSlots
    BY Zenon, <1>2 DEF PushedSlots
  <2> QED
    BY Zenon, <2>2, <2>3, GaugeCounts, FS_AddElement
<1>7. Cardinality(QueuedSlots') = Cardinality(QueuedSlots) + 1
  <2>1. QueuedSlots' = QueuedSlots \cup {s} /\ s \notin QueuedSlots
    BY Zenon, <1>1, <1>4 DEF QueuedSlots, GaugeInv, QueuesDistinct
  <2> QED
    BY Zenon, <2>1, GaugeCounts, FS_AddElement
<1>8. Holders' = Holders
  BY Zenon, <1>1 DEF Holders
<1>9. parkedGauge' \in Nat /\ reaped' \in Nat
  BY Zenon, <1>1 DEF GaugeInv
<1>10. GaugeNeverUnder'
  <2>1. /\ parkedGauge \in Nat /\ reaped \in Nat
        /\ parkedGauge + Cardinality(PushedSlots)
             >= Cardinality(QueuedSlots) + Cardinality(Holders) + reaped
    BY Zenon, GaugeMeans DEF GaugeInv
  <2>2. parkedGauge + (Cardinality(PushedSlots) + 1)
             >= (Cardinality(QueuedSlots) + 1) + Cardinality(Holders) + reaped
    BY <2>1, GaugeCounts
  <2> QED
    BY Zenon, <1>1, <1>6, <1>7, <1>8, <2>2, GaugeMeans
<1> QED
  BY Zenon, <1>5, <1>9, <1>10 DEF GaugeInv

(* Counting a park settles it.                                             *)
LEMMA CountParkGauge ==
    ASSUME FallbackInv, GaugeInv, NEW s \in Slot, CountPark(s)
    PROVE  GaugeInv'
<1>0. DOMAIN slot = Slot
  BY Zenon DEF FallbackInv, PoolTypes
<1>1. /\ slot' = [slot EXCEPT ![s] = "parked"] /\ slot[s] = "pushed"
      /\ parkedGauge' = parkedGauge + 1 /\ UNCHANGED <<queue, popped, reaped>>
  BY Zenon DEF CountPark
<1>2. "parked" # "idle" /\ "parked" # "pushed"
  OBVIOUS
<1>3. slot'[s] = "parked" /\ \A u \in Slot : u # s => slot'[u] = slot[u]
  BY Zenon, <1>0, <1>1
<1>4. QueuesDistinct'
  BY Zenon, <1>1, <1>2, <1>3 DEF GaugeInv, QueuesDistinct, Queued
<1>5. QueuedSlots' = QueuedSlots /\ Holders' = Holders
  BY Zenon, <1>1 DEF QueuedSlots, Queued, Holders
<1>6. Cardinality(PushedSlots') = Cardinality(PushedSlots) - 1
  <2>1. PushedSlots' = PushedSlots \ {s} /\ s \in PushedSlots
    BY Zenon, <1>1, <1>2, <1>3 DEF PushedSlots
  <2> QED
    BY Zenon, <2>1, GaugeCounts, FS_RemoveElement
<1>7. /\ parkedGauge \in Nat /\ reaped \in Nat
      /\ parkedGauge + Cardinality(PushedSlots)
           >= Cardinality(QueuedSlots) + Cardinality(Holders) + reaped
  BY Zenon, GaugeMeans DEF GaugeInv
<1>8. /\ parkedGauge + 1 \in Nat
      /\ (parkedGauge + 1) + (Cardinality(PushedSlots) - 1)
           >= Cardinality(QueuedSlots) + Cardinality(Holders) + reaped
  BY <1>7, GaugeCounts
<1>9. GaugeNeverUnder'
  BY Zenon, <1>1, <1>5, <1>6, <1>8, GaugeMeans
<1> QED
  BY Zenon, <1>1, <1>4, <1>7, <1>8, <1>9 DEF GaugeInv

(* A pop moves one sender from the queue into a delivery's hands.          *)
LEMMA PopGauge ==
    ASSUME FallbackInv, GaugeInv, NEW c \in Client, Pop(c)
    PROVE  GaugeInv'
<1> DEFINE t == ClientToken[c]
<1>0. queue \in [PoolToken -> Seq(Slot)] /\ DOMAIN popped = Client /\ t \in PoolToken
  BY Zenon, FallbackAssumption DEF FallbackInv, PoolTypes, FallbackAssumption
<1>1. /\ queue[t] # <<>> /\ queue' = [queue EXCEPT ![t] = Tail(queue[t])]
      /\ popped' = [popped EXCEPT ![c] = Head(queue[t])]
      /\ UNCHANGED <<slot, parkedGauge, reaped>>
  BY Zenon DEF Pop, PopFront, FrontOf, HasTcpAgent, gauge
<1>2. PICK s \in Slot : s = popped'[c]
  BY Zenon, PopQueues
<1>3. /\ popped[c] = NoSlot /\ Queued(s)
      /\ \A d \in Client : d # c => popped'[d] = popped[d]
      /\ \A u \in Slot : Queued(u)' => Queued(u)
      /\ \A u \in Slot : Queued(u) /\ u # s => Queued(u)'
  BY Zenon, <1>2, PopQueues
<1>4. NoRepeat(Tail(queue[t])) /\ ~Holds(Tail(queue[t]), Head(queue[t]))
  BY Zenon, <1>0, <1>1, TailEntries DEF GaugeInv, QueuesDistinct
<1>5. ~Queued(s)'
  <2>1. s = Head(queue[t]) /\ Holds(queue[t], s)
    BY Zenon, <1>0, <1>1, <1>2, TailEntries
  <2>2. SlotToken[s] = t
    BY Zenon, <1>0, <1>3, <2>1 DEF FallbackInv, InOwnPool
  <2>3. queue'[t] = Tail(queue[t])
    BY Zenon, <1>0, <1>1
  <2> QED
    BY Zenon, <1>3, <1>4, <2>1, <2>2, <2>3, QueuedHolds
<1>6. s # NoSlot
  BY Zenon, <1>3, FallbackAssumption DEF FallbackAssumption
<1>7. QueuesDistinct'
  <2>1. \A x \in PoolToken : NoRepeat(queue'[x])
    BY Zenon, <1>0, <1>1, <1>4 DEF GaugeInv, QueuesDistinct
  <2> QED
    BY Zenon, <1>1, <1>3, <2>1 DEF GaugeInv, QueuesDistinct
<1>8. Cardinality(QueuedSlots') = Cardinality(QueuedSlots) - 1
  <2>1. QueuedSlots' = QueuedSlots \ {s} /\ s \in QueuedSlots
    BY Zenon, <1>3, <1>5 DEF QueuedSlots
  <2> QED
    BY Zenon, <2>1, GaugeCounts, FS_RemoveElement
<1>9. Cardinality(Holders') = Cardinality(Holders) + 1
  <2>1. \A d \in Client : popped'[d] # NoSlot <=> (popped[d] # NoSlot \/ d = c)
    BY Zenon, <1>2, <1>3, <1>6
  <2>2. Holders' = Holders \cup {c}
    BY Zenon, <2>1 DEF Holders
  <2>3. c \notin Holders
    BY Zenon, <1>3 DEF Holders
  <2> QED
    BY Zenon, <2>2, <2>3, GaugeCounts, FS_AddElement
<1>10. PushedSlots' = PushedSlots
  BY Zenon, <1>1 DEF PushedSlots
<1>11. /\ parkedGauge \in Nat /\ reaped \in Nat
       /\ parkedGauge + Cardinality(PushedSlots)
            >= Cardinality(QueuedSlots) + Cardinality(Holders) + reaped
  BY Zenon, GaugeMeans DEF GaugeInv
<1>12. parkedGauge + Cardinality(PushedSlots)
            >= (Cardinality(QueuedSlots) - 1) + (Cardinality(Holders) + 1) + reaped
  BY <1>11, GaugeCounts
<1>13. GaugeNeverUnder'
  BY Zenon, <1>1, <1>8, <1>9, <1>10, <1>12, GaugeMeans
<1> QED
  BY Zenon, <1>1, <1>7, <1>11, <1>13 DEF GaugeInv

(* A decrement that settles one of the updates under way.                  *)
LEMMA DecGauge ==
    ASSUME GaugeInv, UNCHANGED <<queue, slot>>, parkedGauge' = SaturatingDec,
           reaped' \in Nat,
           Cardinality(Holders') + reaped' = Cardinality(Holders) + reaped - 1
    PROVE  GaugeInv'
<1>1. QueuesDistinct' /\ QueuedSlots' = QueuedSlots /\ PushedSlots' = PushedSlots
  BY Zenon DEF GaugeInv, QueuesDistinct, QueuedSlots, Queued, PushedSlots
<1>2. /\ parkedGauge \in Nat /\ reaped \in Nat
      /\ parkedGauge + Cardinality(PushedSlots)
           >= Cardinality(QueuedSlots) + Cardinality(Holders) + reaped
  BY Zenon, GaugeMeans DEF GaugeInv
<1>3. /\ parkedGauge' \in Nat
      /\ parkedGauge' + Cardinality(PushedSlots)
           >= Cardinality(QueuedSlots) + (Cardinality(Holders) + reaped - 1)
  BY <1>2, GaugeCounts DEF SaturatingDec
<1>4. parkedGauge' + Cardinality(PushedSlots)
           >= Cardinality(QueuedSlots) + Cardinality(Holders') + reaped'
  BY <1>3, GaugeCounts
<1>5. GaugeNeverUnder'
  BY Zenon, <1>1, <1>4, GaugeMeans
<1> QED
  BY Zenon, <1>1, <1>3, <1>5 DEF GaugeInv

(* A delivery takes the sender it used off the gauge.                      *)
LEMMA SendGauge ==
    ASSUME FallbackInv, GaugeInv, NEW c \in Client, Send(c)
    PROVE  GaugeInv'
<1>0. DOMAIN popped = Client
  BY Zenon DEF FallbackInv, PoolTypes
<1>1. /\ popped[c] # NoSlot /\ popped' = [popped EXCEPT ![c] = NoSlot]
      /\ parkedGauge' = SaturatingDec /\ UNCHANGED <<queue, slot, reaped>>
  BY Zenon DEF Send
<1>2. \A d \in Client : popped'[d] # NoSlot <=> (popped[d] # NoSlot /\ d # c)
  BY Zenon, <1>0, <1>1
<1>3. Holders' = Holders \ {c} /\ c \in Holders
  BY Zenon, <1>1, <1>2 DEF Holders
<1>4. Cardinality(Holders') = Cardinality(Holders) - 1
  BY Zenon, <1>3, GaugeCounts, FS_RemoveElement
<1>5. reaped \in Nat /\ reaped' = reaped
  BY Zenon, <1>1 DEF GaugeInv
<1>6. Cardinality(Holders') + reaped' = Cardinality(Holders) + reaped - 1
  BY <1>4, <1>5, GaugeCounts
<1> QED
  BY Zenon, <1>1, <1>5, <1>6, DecGauge

(* So does the reaper, for each park it dropped.                           *)
LEMMA CountReapedGauge ==
    ASSUME GaugeInv, CountReaped
    PROVE  GaugeInv'
<1>1. /\ reaped > 0 /\ reaped' = reaped - 1 /\ parkedGauge' = SaturatingDec
      /\ UNCHANGED <<queue, slot, popped>>
  BY Zenon DEF CountReaped
<1>2. Holders' = Holders
  BY Zenon, <1>1 DEF Holders
<1>3. reaped \in Nat /\ Cardinality(Holders) \in Nat
  BY Zenon, GaugeCounts DEF GaugeInv
<1>4. reaped' \in Nat /\ Cardinality(Holders) + reaped' = Cardinality(Holders) + reaped - 1
  BY <1>1, <1>3
<1> QED
  BY Zenon, <1>1, <1>2, <1>4, DecGauge

(* What the reaper will take off the gauge is what it took off the queues. *)
LEMMA ReapGauge ==
    ASSUME FallbackInv, GaugeInv, ReapDead
    PROVE  GaugeInv'
<1> DEFINE kept == {s \in Slot : ReceiverOpen(s)}
           gone == {s \in Slot : Queued(s) /\ s \notin kept}
<1>0. queue \in [PoolToken -> Seq(Slot)]
  BY Zenon DEF FallbackInv, PoolTypes
<1>1. /\ queue' = [t \in PoolToken |-> Retained(queue[t], kept)]
      /\ reaped = 0 /\ reaped' = Cardinality(gone)
      /\ UNCHANGED <<slot, popped, parkedGauge>>
  BY Zenon DEF ReapDead
<1>2. \A u \in Slot : Queued(u)' <=> Queued(u) /\ ReceiverOpen(u)
  BY Zenon, ReapQueues
<1>3. QueuedSlots' = QueuedSlots \ gone
  BY Zenon, <1>2 DEF QueuedSlots
<1>4. QueuedSlots \cap gone = gone
  BY Zenon DEF QueuedSlots
<1> HIDE DEF kept, gone
<1>5. Cardinality(QueuedSlots') = Cardinality(QueuedSlots) - Cardinality(gone)
  <2>1. IsFiniteSet(QueuedSlots)
    BY Zenon, GaugeCounts
  <2>2. Cardinality(QueuedSlots \ gone) =
           Cardinality(QueuedSlots) - Cardinality(QueuedSlots \cap gone)
    BY Zenon, <2>1, FS_Difference
  <2> QED
    BY Zenon, <1>3, <1>4, <2>2
<1>6. Cardinality(gone) \in Nat
  BY Zenon, <1>4, GaugeCounts, FS_Intersection, FS_CardinalityType
<1>7. QueuesDistinct'
  <2>1. \A t \in PoolToken : NoRepeat(Retained(queue[t], kept))
    BY Zenon, <1>0, RetainedEntries DEF GaugeInv, QueuesDistinct
  <2> QED
    BY Zenon, <1>1, <1>2, <2>1 DEF GaugeInv, QueuesDistinct
<1>8. Holders' = Holders /\ PushedSlots' = PushedSlots
  BY Zenon, <1>1 DEF Holders, PushedSlots
<1>9. /\ parkedGauge \in Nat
      /\ parkedGauge + Cardinality(PushedSlots)
           >= Cardinality(QueuedSlots) + Cardinality(Holders) + 0
  BY Zenon, <1>1, GaugeMeans DEF GaugeInv
<1>10. parkedGauge + Cardinality(PushedSlots)
           >= (Cardinality(QueuedSlots) - Cardinality(gone)) + Cardinality(Holders)
                + Cardinality(gone)
  BY <1>6, <1>9, GaugeCounts
<1>11. GaugeNeverUnder'
  BY Zenon, <1>1, <1>5, <1>8, <1>10, GaugeMeans
<1> QED
  BY Zenon, <1>1, <1>6, <1>7, <1>9, <1>11 DEF GaugeInv

(* A teardown takes a pool out and leaves the gauge too high.              *)
LEMMA DropGauge ==
    ASSUME FallbackInv, GaugeInv, NEW t \in PoolToken, DropPool(t)
    PROVE  GaugeInv'
<1>0. /\ queue \in [PoolToken -> Seq(Slot)]
      /\ \A u \in Slot : SlotToken[u] \in PoolToken
  BY Zenon, FallbackAssumption DEF FallbackInv, PoolTypes, FallbackAssumption
<1>1. queue' = [queue EXCEPT ![t] = <<>>] /\ UNCHANGED <<slot, popped, parkedGauge, reaped>>
  BY Zenon DEF DropPool, gauge
<1>2. NoRepeat(<<>>) /\ \A x : ~Holds(<<>>, x)
  BY DEF NoRepeat, Holds
<1>3. \A x \in PoolToken : queue'[x] = IF x = t THEN <<>> ELSE queue[x]
  BY Zenon, <1>0, <1>1
<1>4. \A s \in Slot : Queued(s)' => Queued(s)
  BY Zenon, <1>0, <1>2, <1>3, QueuedHolds
<1>5. QueuesDistinct'
  <2>1. \A x \in PoolToken : NoRepeat(queue'[x])
    BY Zenon, <1>2, <1>3 DEF GaugeInv, QueuesDistinct
  <2> QED
    BY Zenon, <1>1, <1>4, <2>1 DEF GaugeInv, QueuesDistinct
<1>6. Cardinality(QueuedSlots') <= Cardinality(QueuedSlots)
  <2>1. QueuedSlots' \in SUBSET QueuedSlots
    BY Zenon, <1>4 DEF QueuedSlots
  <2> QED
    BY Zenon, <2>1, GaugeCounts, FS_Subset
<1>7. Holders' = Holders /\ PushedSlots' = PushedSlots
  BY Zenon, <1>1 DEF Holders, PushedSlots
<1>8. /\ parkedGauge \in Nat /\ reaped \in Nat
      /\ parkedGauge + Cardinality(PushedSlots)
           >= Cardinality(QueuedSlots) + Cardinality(Holders) + reaped
  BY Zenon, GaugeMeans DEF GaugeInv
<1>9. parkedGauge + Cardinality(PushedSlots)
           >= Cardinality(QueuedSlots') + Cardinality(Holders) + reaped
  BY <1>6, <1>8, GaugeCounts
<1>10. GaugeNeverUnder'
  BY Zenon, <1>1, <1>7, <1>9, GaugeMeans
<1> QED
  BY Zenon, <1>1, <1>5, <1>8, <1>10 DEF GaugeInv

(* #510: whatever order parks, deliveries, reaps, teardowns and their      *)
(* updates of the gauge take, once the updates under way are through the   *)
(* gauge reads no less than the number of queued senders.                  *)
THEOREM GaugeOwesNothing == FallbackSpec => []GaugeNeverUnder
<1>1. FallbackInit => GaugeInv
  <2> SUFFICES ASSUME FallbackInit PROVE GaugeInv
    BY Zenon
  <2>1. NoRepeat(<<>>) /\ (\A x : ~Holds(<<>>, x)) /\ "idle" # "pushed"
    BY DEF NoRepeat, Holds
  <2>2. \A s \in Slot : ~Queued(s)
    BY Zenon, <2>1, FallbackAssumption, QueuedHolds DEF FallbackInit, FallbackAssumption
  <2>3. QueuesDistinct
    <3>1. \A t \in PoolToken : queue[t] = <<>>
      BY Zenon DEF FallbackInit
    <3> QED
      BY Zenon, <2>1, <2>2, <3>1 DEF QueuesDistinct
  <2>4. QueuedSlots = {} /\ Holders = {} /\ PushedSlots = {}
    BY Zenon, <2>1, <2>2 DEF FallbackInit, QueuedSlots, Holders, PushedSlots
  <2>5. parkedGauge = 0 /\ reaped = 0 /\ Cardinality({}) = 0
    BY Zenon, FS_EmptySet DEF FallbackInit
  <2>6. 0 \in Nat /\ 0 + 0 >= 0 + 0 + 0
    OBVIOUS
  <2>7. GaugeNeverUnder
    BY Zenon, <2>4, <2>5, <2>6, GaugeMeans
  <2> QED
    BY Zenon, <2>3, <2>5, <2>6, <2>7 DEF GaugeInv
<1>2. FallbackInv /\ GaugeInv /\ [FallbackNext]_fallbackVars => GaugeInv'
  <2> SUFFICES ASSUME FallbackInv, GaugeInv, [FallbackNext]_fallbackVars PROVE GaugeInv'
    BY Zenon
  <2>1. CASE UNCHANGED <<queue, slot, popped, gauge>>
    BY Zenon, <2>1, QuietGauge
  <2>2. CASE UNCHANGED fallbackVars
    BY Zenon, <2>1, <2>2 DEF fallbackVars, gauge
  <2>3. ASSUME NEW c \in Client,
               Arrive(c) \/ PoolEmpty(c) \/ WaitCheck(c) \/ Notified(c) \/ WaitTimeout(c)
        PROVE  UNCHANGED <<queue, slot, popped, gauge>>
    BY Zenon, <2>3 DEF Arrive, PoolEmpty, WaitCheck, Notified, WaitTimeout
  <2>4. ASSUME NEW c \in Client, Arrive(c) \/ ClientTask(c)
        PROVE  GaugeInv'
    BY Zenon, <2>1, <2>3, <2>4, PopGauge, SendGauge DEF ClientTask
  <2>5. ASSUME NEW s \in Slot, Park(s) \/ StartPing(s) \/ Superseded(s) \/ SlotTask(s)
        PROVE  GaugeInv'
    BY Zenon, <2>5, ParkGauge, CountParkGauge, SlotGauge DEF SlotTask
  <2>6. CASE FallbackNext
    BY Zenon, <2>4, <2>5, <2>6, ReapGauge, CountReapedGauge, DropGauge DEF FallbackNext
  <2> QED
    BY Zenon, <2>2, <2>6
<1>3. GaugeInv => GaugeNeverUnder
  BY Zenon DEF GaugeInv
<1> QED
  BY <1>1, <1>2, <1>3, FallbackInvariant, PTL DEF FallbackSpec

=============================================================================
