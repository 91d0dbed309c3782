-------------------------- MODULE ReplicatorProofs --------------------------
(***************************************************************************)
(* Theorems about the replicators (module Replicator), for any number of   *)
(* payloads, keys, sessions, crashes and failing log writes, and any queue *)
(* limits: the queues keep their order and the log covers them, an         *)
(* acknowledgement is only for what was received, and what is delivered    *)
(* comes once and in order.                                                *)
(***************************************************************************)
EXTENDS Replicator, NatSets

-----------------------------------------------------------------------------
(* The inductive invariant.                                                *)

Items == [packet : PacketType, age : 0 .. ResendAfter, retries : 0 .. MaxRetries]
Statuses == {"ok", "TooManyRecords"}
Replays == [status : Statuses, pending : Seq(PacketType)]
Envelopes == [nonce : Nat, packet : PacketType]

Types ==
  /\ bounds \in Scenarios
  /\ up \in [Peers -> BOOLEAN] /\ mode \in [Peers -> {"Offline", "Online"}]
  /\ next_sequence \in [Peers -> Nat \ {0}]
  /\ last_received \in [Peers -> Nat] /\ last_ack_sent \in [Peers -> Nat]
  /\ pending \in [Peers -> Seq(PacketType)] /\ in_flight \in [Peers -> Seq(Items)]
  /\ session_nonce \in [Peers -> Nat] /\ used \in [Peers -> Nat] /\ agreed \in Nat \ {0}
  /\ wal \in [Peers -> Replays]
  /\ net \in [Peers -> SUBSET Envelopes]
  /\ enqueued \in [Peers -> Nat] /\ delivered \in [Peers -> Seq(PacketType)]
  /\ acked \in [Peers -> SUBSET Nat]
  /\ crashes \in Nat /\ walErrors \in Nat

Bounds ==
  \A p \in Peers : Len(pending[p]) <= MaxPending /\ Len(in_flight[p]) <= MaxInFlight

\* The packets peer p has ever sent: the network forgets none.
SentBy(p) == {m.packet : m \in net[Other[p]]}

\* Lists of packets.
Distinct(s) == \A i, j \in 1 .. Len(s) : s[i].sequence = s[j].sequence => i = j
Rising(s) == \A i, j \in 1 .. Len(s) : i < j => s[i].sequence < s[j].sequence
Under(s, n) == \A i \in 1 .. Len(s) : s[i].sequence < n

\* The packets of a queue of in-flight items.
PacketsOf(items) == [i \in DOMAIN items |-> items[i].packet]

QueueOf(p) == PacketsOf(in_flight[p]) \o pending[p]

\* What holds through any crashes.
Numbered(p) ==
  /\ Distinct(wal[p].pending) /\ Under(wal[p].pending, next_sequence[p])
  /\ Distinct(QueueOf(p)) /\ Under(QueueOf(p), next_sequence[p])
  /\ \A i \in 1 .. Len(in_flight[p]) : in_flight[p][i].packet \in SentBy(p)

\* A payload goes out under one number only.
Known(p) == SentBy(p) \cup ToSet(pending[p]) \cup ToSet(wal[p].pending)

PayloadsOnce(p) ==
  /\ \A x \in Known(p) : x.payload <= enqueued[p]
  /\ \A x, y \in Known(p) : x.payload = y.payload => x.sequence = y.sequence

Deliveries(p) ==
  /\ \A i \in 1 .. Len(delivered[p]) : delivered[p][i] \in SentBy(Other[p])
  /\ Rising(delivered[p])
  /\ session_nonce[p] # NoSession => Under(delivered[p], last_received[p] + 1)

\* What holds up to the first crash, and of the log as long as it has not been
\* recovered.
Ordered1(p) ==
  /\ Rising(QueueOf(p))
  /\ ~up[p] => Rising(wal[p].pending)

\* What holds before any crash.
Pristine(p) ==
  ~up[p] => /\ pending[p] = <<>> /\ in_flight[p] = <<>> /\ wal[p] = Loaded(<<>>)
            /\ next_sequence[p] = 1 /\ last_received[p] = 0 /\ last_ack_sent[p] = 0
            /\ session_nonce[p] = NoSession

\* Number n is not one that p has still to send.
Passed(p, n) ==
  n < next_sequence[p] /\ \A i \in 1 .. Len(pending[p]) : n < pending[p][i].sequence

Packets(p) == SentBy(p) \cup ToSet(pending[p])

Logged(p) ==
  wal[p].status = "ok" =>
    /\ \A i \in 1 .. Len(pending[p]) : \E j \in 1 .. Len(wal[p].pending) :
         wal[p].pending[j].sequence = pending[p][i].sequence
    /\ walErrors = 0 =>
         \A i \in 1 .. Len(QueueOf(p)) : \E j \in 1 .. Len(wal[p].pending) :
           /\ wal[p].pending[j].sequence = QueueOf(p)[i].sequence
           /\ wal[p].pending[j].payload = QueueOf(p)[i].payload

\* p has taken at most one nonce, and has kept it.
Steady(p) == used[p] = NoSession \/ session_nonce[p] # NoSession

Acknowledged(p) ==
  agreed = 1 /\ Steady(p) =>
    /\ \A x \in Packets(p) : x.ack <= last_received[p]
    /\ \A n \in acked[Other[p]] : n <= last_received[p]

Deltas(p) ==
  /\ \A i, j \in 1 .. Len(pending[p]) :
       /\ pending[p][i].kind = "Delta" /\ pending[p][j].kind = "Delta"
       /\ pending[p][i].key = pending[p][j].key
       => i = j
  /\ \A x, y \in Packets(p) :
       /\ x.kind = "Delta" /\ y.kind = "Delta" /\ x.key = y.key
       /\ x.sequence < y.sequence
       => x.payload < y.payload

FirstLife(p) ==
  /\ Rising(wal[p].pending)
  /\ Pristine(p)
  /\ \A x \in SentBy(p) : Passed(p, x.sequence)
  /\ Passed(p, last_received[Other[p]])
  /\ \A x \in Packets(Other[p]) : Passed(p, x.ack)
  /\ Logged(p)
  /\ used[p] <= agreed
  /\ used[p] = NoSession => session_nonce[p] = NoSession /\ last_received[p] = 0
  /\ Acknowledged(p)
  /\ Deltas(p)

ReplicatorIInv ==
  /\ Types /\ Bounds
  /\ \A p \in Peers : Numbered(p) /\ PayloadsOnce(p) /\ Deliveries(p)
  /\ crashes <= 1 => \A p \in Peers : Ordered1(p)
  /\ crashes = 0 => \A p \in Peers : FirstLife(p)

-----------------------------------------------------------------------------
(* Lists of packets.                                                       *)

\* t is s without some of its elements.
Sub(t, s) ==
  \E g \in [1 .. Len(t) -> 1 .. Len(s)] :
    /\ \A i \in 1 .. Len(t) : t[i] = s[g[i]]
    /\ \A i, k \in 1 .. Len(t) : i < k => g[i] < g[k]

LEMMA SubKeeps ==
  ASSUME NEW T, NEW s \in Seq(T), NEW t \in Seq(T), Sub(t, s), \A x \in T : x.sequence \in Nat
  PROVE  /\ \A i \in 1 .. Len(t) : \E k \in 1 .. Len(s) : t[i] = s[k]
         /\ Distinct(s) => Distinct(t)
         /\ Rising(s) => Rising(t)
         /\ \A n \in Nat : Under(s, n) => Under(t, n)
<1>1. PICK g \in [1 .. Len(t) -> 1 .. Len(s)] :
        /\ \A i \in 1 .. Len(t) : t[i] = s[g[i]]
        /\ \A i, k \in 1 .. Len(t) : i < k => g[i] < g[k]
  BY DEF Sub
<1>2. Len(t) \in Nat /\ Len(s) \in Nat
  OBVIOUS
<1>3. \A i \in 1 .. Len(t) : g[i] \in 1 .. Len(s) /\ g[i] \in Int
  BY <1>1, <1>2
<1>4. \A i \in 1 .. Len(t) : \E k \in 1 .. Len(s) : t[i] = s[k]
  BY <1>1, <1>3
<1>5. Distinct(s) => Distinct(t)
  <2>1. SUFFICES ASSUME Distinct(s), NEW i \in 1 .. Len(t), NEW j \in 1 .. Len(t),
                        t[i].sequence = t[j].sequence
                 PROVE  i = j
    BY DEF Distinct
  <2>2. g[i] = g[j]
    BY <1>1, <1>3, <2>1 DEF Distinct
  <2>3. i \in Int /\ j \in Int
    BY <1>2
  <2>4. QED
    BY <1>1, <1>3, <2>2, <2>3
<1>6. Rising(s) => Rising(t)
  BY <1>1, <1>3 DEF Rising
<1>7. \A n \in Nat : Under(s, n) => Under(t, n)
  BY <1>1, <1>3 DEF Under
<1>8. QED
  BY <1>4, <1>5, <1>6, <1>7

LEMMA SubSelf ==
  ASSUME NEW s, Len(s) \in Nat
  PROVE  Sub(s, s)
<1> DEFINE g == [i \in 1 .. Len(s) |-> i]
<1>1. /\ g \in [1 .. Len(s) -> 1 .. Len(s)] /\ \A i \in 1 .. Len(s) : s[i] = s[g[i]]
      /\ \A i, k \in 1 .. Len(s) : i < k => g[i] < g[k]
  OBVIOUS
<1> HIDE DEF g
<1>2. QED
  BY <1>1 DEF Sub

\* What is kept of a list.
LEMMA KeptSub ==
  ASSUME NEW T, NEW s \in Seq(T), NEW S \in SUBSET (1 .. Len(s))
  PROVE  /\ Kept(s, S) \in Seq(T) /\ Len(Kept(s, S)) <= Len(s)
         /\ Sub(Kept(s, S), s)
         /\ \A i \in 1 .. Len(Kept(s, S)) : \E k \in S : Kept(s, S)[i] = s[k]
         /\ \A k \in S : \E i \in 1 .. Len(Kept(s, S)) : Kept(s, S)[i] = s[k]
<1> DEFINE K == Kept(s, S)
<1>3. K \in Seq(T) /\ Len(K) \in 0 .. Len(s) /\ Picks(K, s, S)
  BY KeptFacts
<1> HIDE DEF K
<1>4. PICK f \in [1 .. Len(K) -> S] :
        /\ \A i \in 1 .. Len(K) : K[i] = s[f[i]]
        /\ \A i, k \in 1 .. Len(K) : i < k => f[i] < f[k]
        /\ \A x \in S : \E i \in 1 .. Len(K) : f[i] = x
  BY <1>3 DEF Picks
<1>5. f \in [1 .. Len(K) -> 1 .. Len(s)]
  BY <1>4
<1>6. Sub(K, s)
  BY <1>4, <1>5 DEF Sub
<1>7. \A i \in 1 .. Len(K) : \E k \in S : K[i] = s[k]
  BY <1>4
<1>8. \A k \in S : \E i \in 1 .. Len(K) : K[i] = s[k]
  BY <1>4
<1>9. Len(K) <= Len(s)
  BY <1>3
<1>10. QED
  BY <1>3, <1>6, <1>7, <1>8, <1>9 DEF K

LEMMA ToSetFacts ==
  ASSUME NEW T, NEW s \in Seq(T)
  PROVE  ToSet(s) = {s[i] : i \in 1 .. Len(s)} /\ ToSet(s) \subseteq T
BY DEF ToSet

\* u is t behind s.
Joined(u, s, t) ==
  /\ Len(u) = Len(s) + Len(t)
  /\ \A i \in 1 .. Len(s) : u[i] = s[i]
  /\ \A i \in 1 .. Len(t) : u[Len(s) + i] = t[i]
  /\ \A k \in 1 .. Len(u) :
       \/ \E i \in 1 .. Len(s) : k = i /\ u[k] = s[i]
       \/ \E i \in 1 .. Len(t) : k = Len(s) + i /\ u[k] = t[i]

LEMMA JoinFacts ==
  ASSUME NEW T, NEW s \in Seq(T), NEW t \in Seq(T)
  PROVE  s \o t \in Seq(T) /\ Joined(s \o t, s, t)
<1>1. Len(s) \in Nat /\ Len(t) \in Nat
  OBVIOUS
<1>2. /\ s \o t \in Seq(T) /\ Len(s \o t) = Len(s) + Len(t)
      /\ \A i \in 1 .. Len(s) + Len(t) :
           (s \o t)[i] = IF i <= Len(s) THEN s[i] ELSE t[i - Len(s)]
  OBVIOUS
<1> DEFINE u == s \o t
<1> HIDE DEF u
<1>3. /\ u \in Seq(T) /\ Len(u) = Len(s) + Len(t)
      /\ \A i \in 1 .. Len(s) + Len(t) : u[i] = IF i <= Len(s) THEN s[i] ELSE t[i - Len(s)]
  BY <1>2 DEF u
<1>4. \A i \in 1 .. Len(s) : u[i] = s[i]
  BY <1>1, <1>3
<1>5. \A i \in 1 .. Len(t) : u[Len(s) + i] = t[i]
  <2>1. TAKE i \in 1 .. Len(t)
  <2>2. Len(s) + i \in 1 .. Len(s) + Len(t) /\ ~(Len(s) + i <= Len(s)) /\ (Len(s) + i) - Len(s) = i
    BY <1>1
  <2>3. QED
    BY <2>2, <1>3
<1>6. \A k \in 1 .. Len(u) :
        \/ \E i \in 1 .. Len(s) : k = i /\ u[k] = s[i]
        \/ \E i \in 1 .. Len(t) : k = Len(s) + i /\ u[k] = t[i]
  <2>1. TAKE k \in 1 .. Len(u)
  <2>2. CASE k <= Len(s)
    <3>1. k \in 1 .. Len(s)
      BY <2>2, <1>1
    <3>2. QED
      BY <3>1, <1>4
  <2>3. CASE ~(k <= Len(s))
    <3>1. k - Len(s) \in 1 .. Len(t) /\ k = Len(s) + (k - Len(s))
      BY <2>3, <1>1, <1>3
    <3>2. QED
      BY <3>1, <1>5
  <2>4. QED
    BY <2>2, <2>3
<1>7. QED
  BY <1>3, <1>4, <1>5, <1>6 DEF u, Joined

\* What is left of a list when its first n elements are gone.
LEMMA RestFacts ==
  ASSUME NEW T, NEW b \in Seq(T), NEW n \in 0 .. Len(b)
  PROVE  /\ SubSeq(b, n + 1, Len(b)) \in Seq(T)
         /\ Len(SubSeq(b, n + 1, Len(b))) = Len(b) - n
         /\ Len(SubSeq(b, n + 1, Len(b))) \in Nat
         /\ \A i \in 1 .. Len(SubSeq(b, n + 1, Len(b))) : SubSeq(b, n + 1, Len(b))[i] = b[n + i]
<1> DEFINE r == SubSeq(b, n + 1, Len(b))
           w == [i \in 1 .. Len(b) - n |-> b[n + i]]
<1>1. Len(b) \in Nat /\ n \in Nat /\ n <= Len(b)
  OBVIOUS
<1>2. r = w
  <2>1. r = [i \in 1 .. 1 + Len(b) - (n + 1) |-> b[i + (n + 1) - 1]]
    BY <1>1
  <2>2. 1 + Len(b) - (n + 1) = Len(b) - n
    BY <1>1
  <2>3. \A i \in 1 .. Len(b) - n : i + (n + 1) - 1 = n + i
    BY <1>1
  <2>4. QED
    BY <2>1, <2>2, <2>3
<1>3. \A i \in 1 .. Len(b) - n : b[n + i] \in T
  BY <1>1
<1>4. w \in Seq(T) /\ Len(w) = Len(b) - n /\ Len(b) - n \in Nat
      /\ \A i \in 1 .. Len(b) - n : w[i] = b[n + i]
  BY <1>1, <1>3
<1> HIDE DEF w, r
<1>5. r \in Seq(T) /\ Len(r) = Len(b) - n /\ Len(r) \in Nat /\ \A i \in 1 .. Len(r) : r[i] = b[n + i]
  BY <1>2, <1>4
<1>6. QED
  BY <1>5 DEF r

\* The packets of the in-flight items.
LEMMA PacketsOfFacts ==
  ASSUME NEW T, NEW I, \A x \in I : x.packet \in T
  PROVE  \A a \in Seq(I) :
           /\ PacketsOf(a) \in Seq(T) /\ Len(PacketsOf(a)) = Len(a)
           /\ \A i \in 1 .. Len(a) : PacketsOf(a)[i] = a[i].packet
<1> TAKE a \in Seq(I)
<1>1. DOMAIN a = 1 .. Len(a) /\ Len(a) \in Nat /\ \A i \in 1 .. Len(a) : a[i] \in I
  OBVIOUS
<1>2. PacketsOf(a) = [i \in 1 .. Len(a) |-> a[i].packet]
  BY <1>1 DEF PacketsOf
<1>3. \A i \in 1 .. Len(a) : a[i].packet \in T
  BY <1>1
<1>4. QED
  BY <1>1, <1>2, <1>3

\* Dropping items from the in-flight queue, after the first n pending packets
\* have joined it, leaves the rest of the two queues in their order.
LEMMA KeptQueue ==
  ASSUME NEW T, NEW I, \A x \in I : x.packet \in T,
         NEW a \in Seq(I), NEW b \in Seq(T), NEW c \in Seq(I), NEW n \in 0 .. Len(b),
         Len(c) = Len(a) + n,
         \A i \in 1 .. Len(a) : c[i].packet = a[i].packet,
         \A i \in 1 .. n : c[Len(a) + i].packet = b[i],
         NEW S \in SUBSET (1 .. Len(c))
  PROVE  Sub(PacketsOf(Kept(c, S)) \o SubSeq(b, n + 1, Len(b)), PacketsOf(a) \o b)
<1>p. \A d \in Seq(I) : /\ PacketsOf(d) \in Seq(T) /\ Len(PacketsOf(d)) = Len(d)
                        /\ \A i \in 1 .. Len(d) : PacketsOf(d)[i] = d[i].packet
  <2>1. \A x \in I : x.packet \in T
    OBVIOUS
  <2>2. QED
    BY ONLY <2>1, PacketsOfFacts
<1> DEFINE K == Kept(c, S)
           r == SubSeq(b, n + 1, Len(b))
           Q == PacketsOf(a) \o b
           P == PacketsOf(K) \o r
<1>1. c \in Seq(I) /\ S \in SUBSET (1 .. Len(c))
  OBVIOUS
<1>2. K \in Seq(I) /\ Len(K) \in Nat /\ Picks(K, c, S)
  BY <1>1, KeptFacts
<1> HIDE DEF K
<1>3. PICK f \in [1 .. Len(K) -> S] :
        /\ \A i \in 1 .. Len(K) : K[i] = c[f[i]]
        /\ \A i, k \in 1 .. Len(K) : i < k => f[i] < f[k]
  BY <1>2 DEF Picks
<1>4. Len(a) \in Nat /\ Len(b) \in Nat /\ n \in Nat /\ n <= Len(b)
  OBVIOUS
<1>5. /\ r \in Seq(T) /\ Len(r) = Len(b) - n /\ Len(r) \in Nat
      /\ \A i \in 1 .. Len(r) : r[i] = b[n + i]
  BY <1>4, RestFacts
<1> HIDE DEF r
<1>6. /\ PacketsOf(a) \in Seq(T) /\ Len(PacketsOf(a)) = Len(a)
      /\ \A i \in 1 .. Len(a) : PacketsOf(a)[i] = a[i].packet
  BY <1>p
<1>7. /\ PacketsOf(K) \in Seq(T) /\ Len(PacketsOf(K)) = Len(K)
      /\ \A i \in 1 .. Len(K) : PacketsOf(K)[i] = K[i].packet
  BY <1>2, <1>p
<1>8. /\ Q \in Seq(T) /\ Len(Q) = Len(a) + Len(b)
      /\ \A i \in 1 .. Len(a) : Q[i] = a[i].packet
      /\ \A i \in 1 .. Len(b) : Q[Len(a) + i] = b[i]
  <2>1. b \in Seq(T)
    OBVIOUS
  <2>2. Q \in Seq(T) /\ Joined(Q, PacketsOf(a), b)
    BY <2>1, <1>6, JoinFacts
  <2> HIDE DEF Q
  <2>3. QED
    BY <2>2, <1>6 DEF Joined
<1>9. /\ P \in Seq(T) /\ Len(P) = Len(K) + Len(r)
      /\ \A i \in 1 .. Len(K) : P[i] = K[i].packet
      /\ \A i \in 1 .. Len(r) : P[Len(K) + i] = r[i]
  <2>1. PacketsOf(K) \in Seq(T) /\ r \in Seq(T)
    BY <1>5, <1>7
  <2>2. P \in Seq(T) /\ Joined(P, PacketsOf(K), r)
    BY <2>1, JoinFacts
  <2> HIDE DEF P
  <2>3. QED
    BY <2>2, <1>7 DEF Joined
<1> HIDE DEF P, Q
<1> DEFINE g == [i \in 1 .. Len(P) |-> IF i <= Len(K) THEN f[i] ELSE Len(a) + n + (i - Len(K))]
<1>10. \A i \in 1 .. Len(K) : f[i] \in 1 .. Len(a) + n /\ f[i] \in Int
  <2>1. \A x \in S : x \in 1 .. Len(a) + n /\ x \in Int
    BY <1>4
  <2>2. QED
    BY <1>3, <2>1
<1>11. ASSUME NEW i \in 1 .. Len(P)
       PROVE  g[i] \in 1 .. Len(Q) /\ P[i] = Q[g[i]]
  <2>1. CASE i <= Len(K)
    <3>1. i \in 1 .. Len(K)
      BY <2>1, <1>2, <1>9
    <3>2. g[i] = f[i] /\ P[i] = c[f[i]].packet /\ f[i] \in 1 .. Len(a) + n
      BY <3>1, <2>1, <1>3, <1>9, <1>10
    <3>3. CASE f[i] <= Len(a)
      <4>1. f[i] \in 1 .. Len(a)
        BY <3>2, <3>3, <1>4
      <4>2. QED
        BY <4>1, <3>2, <1>4, <1>8
    <3>4. CASE f[i] > Len(a)
      <4> DEFINE m == f[i] - Len(a)
      <4>1. m \in 1 .. n /\ f[i] = Len(a) + m /\ m \in 1 .. Len(b)
        BY <3>2, <3>4, <1>4
      <4> HIDE DEF m
      <4>2. c[Len(a) + m].packet = b[m] /\ Q[Len(a) + m] = b[m]
        BY <4>1, <1>8
      <4>3. f[i] \in 1 .. Len(Q)
        BY <4>1, <1>4, <1>8
      <4>4. QED
        BY <4>1, <4>2, <4>3, <3>2
    <3>5. QED
      BY <3>2, <3>3, <3>4, <1>4
  <2>2. CASE ~(i <= Len(K))
    <3> DEFINE m == i - Len(K)
    <3>1. m \in 1 .. Len(r) /\ i = Len(K) + m /\ n + m \in 1 .. Len(b)
      BY <2>2, <1>2, <1>4, <1>5, <1>9
    <3>2. g[i] = Len(a) + (n + m)
      BY <2>2, <1>2, <1>4
    <3> HIDE DEF m, g
    <3>3. P[i] = b[n + m] /\ Q[Len(a) + (n + m)] = b[n + m]
      BY <3>1, <1>5, <1>8, <1>9
    <3>4. Len(a) + (n + m) \in 1 .. Len(Q)
      BY <3>1, <1>4, <1>8, SMTT(30)
    <3>5. QED
      BY <3>2, <3>3, <3>4
  <2>3. QED
    BY <2>1, <2>2
<1>12. ASSUME NEW i \in 1 .. Len(P), NEW k \in 1 .. Len(P), i < k
       PROVE  g[i] < g[k]
  <2>1. i \in Int /\ k \in Int /\ Len(K) \in Int
    BY <1>2, <1>9
  <2>2. CASE k <= Len(K)
    <3>1. i \in 1 .. Len(K) /\ k \in 1 .. Len(K)
      BY <2>1, <2>2, <1>12
    <3>2. QED
      BY <3>1, <2>2, <2>1, <1>12, <1>3
  <2>3. CASE i <= Len(K) /\ ~(k <= Len(K))
    <3>1. i \in 1 .. Len(K)
      BY <2>1, <2>3
    <3>2. g[i] = f[i] /\ g[k] = Len(a) + n + (k - Len(K))
      BY <2>1, <2>3
    <3>3. QED
      BY <3>1, <3>2, <2>1, <2>3, <1>4, <1>10
  <2>4. CASE ~(i <= Len(K))
    <3>1. g[i] = Len(a) + n + (i - Len(K)) /\ g[k] = Len(a) + n + (k - Len(K))
      BY <2>1, <2>4, <1>12
    <3>2. QED
      BY <3>1, <2>1, <1>4, <1>12
  <2>5. QED
    BY <2>1, <2>2, <2>3, <2>4
<1>13. g \in [1 .. Len(P) -> 1 .. Len(Q)]
  <2>1. g = [i \in 1 .. Len(P) |-> g[i]]
    OBVIOUS
  <2> HIDE DEF g
  <2>2. QED
    BY <2>1, <1>11
<1> HIDE DEF g
<1>14. Sub(P, Q)
  BY <1>11, <1>12, <1>13 DEF Sub
<1>15. QED
  BY <1>14 DEF P, Q, K, r

-----------------------------------------------------------------------------
(* The log.                                                                *)

\* v is the log w after one more acknowledgement, of number n.
WalLoses(v, w, n) ==
  /\ \A j \in 1 .. Len(v.pending) : \E k \in 1 .. Len(w.pending) : v.pending[j] = w.pending[k]
  /\ Distinct(w.pending) => Distinct(v.pending)
  /\ Rising(w.pending) => Rising(v.pending)
  /\ v.status = "ok" =>
       /\ w.status = "ok"
       /\ \A k \in 1 .. Len(w.pending) : w.pending[k].sequence > n =>
            \E j \in 1 .. Len(v.pending) : v.pending[j] = w.pending[k]

LEMMA WalAck ==
  ASSUME NEW T, \A x \in T : x.sequence \in Nat,
         NEW w \in [status : Statuses, pending : Seq(T)], NEW n \in Nat
  PROVE  /\ Extended(w, AckRecord(n)) \in [status : Statuses, pending : Seq(T)]
         /\ WalLoses(Extended(w, AckRecord(n)), w, n)
<1> USE DEF WalLoses
<1> DEFINE v == Extended(w, AckRecord(n))
           s == w.pending
           S == {i \in DOMAIN s : s[i].sequence > n}
<1>1. CASE w.status # "ok"
  <2>1. v = w
    BY <1>1 DEF Extended
  <2> HIDE DEF v
  <2>2. QED
    BY <2>1, <1>1 DEF v
<1>2. CASE w.status = "ok"
  <2>1. v = [status |-> "ok", pending |-> Kept(s, S)]
    BY <1>2 DEF Extended, ApplyRecord, AckRecord, Loaded
  <2>2. s \in Seq(T) /\ DOMAIN s = 1 .. Len(s)
    OBVIOUS
  <2> HIDE DEF s
  <2>3. S \in SUBSET (1 .. Len(s))
    BY <2>2
  <2>4. \A k \in 1 .. Len(s) : s[k].sequence > n => k \in S
    BY <2>2
  <2> HIDE DEF S
  <2> DEFINE t == Kept(s, S)
  <2>5. /\ t \in Seq(T) /\ Sub(t, s)
        /\ \A k \in S : \E i \in 1 .. Len(t) : t[i] = s[k]
    BY <2>2, <2>3, KeptSub
  <2> HIDE DEF t
  <2>6. /\ \A i \in 1 .. Len(t) : \E k \in 1 .. Len(s) : t[i] = s[k]
        /\ Distinct(s) => Distinct(t)
        /\ Rising(s) => Rising(t)
    BY <2>2, <2>5, SubKeeps
  <2> HIDE DEF v
  <2>7. v.status = "ok" /\ v.pending = t /\ v \in [status : Statuses, pending : Seq(T)]
    BY <2>1, <2>5 DEF t, Statuses
  <2> HIDE DEF v
  <2>8. \A k \in 1 .. Len(s) : s[k].sequence > n => \E j \in 1 .. Len(t) : t[j] = s[k]
    BY <2>4, <2>5
  <2>9. QED
    BY <2>6, <2>7, <2>8, <1>2 DEF v, s
<1>3. QED
  BY <1>1, <1>2

\* v is the log w after one more packet: it replaces the one with its number,
\* or joins the end.
WalGains(v, w, pk) ==
  /\ \A j \in 1 .. Len(v.pending) :
       v.pending[j] = pk \/ \E k \in 1 .. Len(w.pending) : v.pending[j] = w.pending[k]
  /\ Distinct(w.pending) => Distinct(v.pending)
  /\ (/\ Rising(w.pending)
      /\ \/ Under(w.pending, pk.sequence)
         \/ w.status # "ok"
         \/ \E k \in 1 .. Len(w.pending) : w.pending[k].sequence = pk.sequence)
     => Rising(v.pending)
  /\ v.status = "ok" =>
       /\ w.status = "ok"
       /\ \E j \in 1 .. Len(v.pending) : v.pending[j] = pk
       /\ \A k \in 1 .. Len(w.pending) : w.pending[k].sequence # pk.sequence =>
            \E j \in 1 .. Len(v.pending) : v.pending[j] = w.pending[k]

LEMMA WalPacket ==
  ASSUME NEW T, \A x \in T : x.sequence \in Nat,
         NEW w \in [status : Statuses, pending : Seq(T)], NEW pk \in T
  PROVE  /\ Extended(w, PacketRecord(pk)) \in [status : Statuses, pending : Seq(T)]
         /\ WalGains(Extended(w, PacketRecord(pk)), w, pk)
<1> USE DEF WalGains
<1> DEFINE v == Extended(w, PacketRecord(pk))
           s == w.pending
           S == SameNumber(s, pk)
<1>1. CASE w.status # "ok"
  <2>1. v = w
    BY <1>1 DEF Extended
  <2> HIDE DEF v
  <2>2. QED
    BY <2>1, <1>1 DEF v
<1>2. s \in Seq(T) /\ DOMAIN s = 1 .. Len(s) /\ Len(s) \in Nat /\ pk.sequence \in Nat
  OBVIOUS
<1>3. S = {i \in 1 .. Len(s) : s[i].sequence = pk.sequence}
  BY <1>2 DEF SameNumber
<1>4. \A i \in 1 .. Len(s) : s[i] \in T /\ s[i].sequence \in Nat
  BY <1>2
<1>5. CASE w.status = "ok" /\ S # {}
  <2> DEFINE t == [i \in 1 .. Len(s) |-> IF i \in S THEN pk ELSE s[i]]
  <2>1. v = [status |-> "ok", pending |-> t]
    BY <1>2, <1>5 DEF Extended, ApplyRecord, PacketRecord, Loaded
  <2>2. /\ t \in Seq(T) /\ Len(t) = Len(s)
        /\ \A i \in 1 .. Len(s) : t[i] = IF i \in S THEN pk ELSE s[i]
    BY <1>2, <1>4
  <2> HIDE DEF t
  <2> HIDE DEF v
  <2>3. v.status = "ok" /\ v.pending = t /\ v \in [status : Statuses, pending : Seq(T)]
    BY <2>1, <2>2 DEF Statuses
  <2> HIDE DEF v, s, S
  <2>4. \A i \in 1 .. Len(s) : t[i].sequence = s[i].sequence
    BY <2>2, <1>3
  <2>5. Distinct(s) => Distinct(t)
    BY <2>2, <2>4 DEF Distinct
  <2>6. Rising(s) => Rising(t)
    BY <2>2, <2>4 DEF Rising
  <2>7. \A j \in 1 .. Len(t) : t[j] = pk \/ \E k \in 1 .. Len(s) : t[j] = s[k]
    BY <2>2
  <2>8. \E j \in 1 .. Len(t) : t[j] = pk
    BY <2>2, <1>3, <1>5
  <2>9. \A k \in 1 .. Len(s) : s[k].sequence # pk.sequence => \E j \in 1 .. Len(t) : t[j] = s[k]
    BY <2>2, <1>3
  <2>10. QED
    BY <2>3, <2>5, <2>6, <2>7, <2>8, <2>9, <1>5 DEF v, s
<1>6. CASE w.status = "ok" /\ S = {} /\ Len(s) >= MaxRecords
  <2>1. v = [status |-> "TooManyRecords", pending |-> <<>>]
    BY <1>2, <1>6 DEF Extended, ApplyRecord, PacketRecord, Failed
  <2> HIDE DEF v
  <2>2. v.status # "ok" /\ v.pending = <<>> /\ v \in [status : Statuses, pending : Seq(T)]
    BY <2>1 DEF Statuses
  <2> HIDE DEF v
  <2>3. Distinct(v.pending) /\ Rising(v.pending)
    BY <2>2 DEF Distinct, Rising
  <2>4. \A j \in 1 .. Len(v.pending) : FALSE
    BY <2>2
  <2>5. QED
    BY <2>2, <2>3, <2>4 DEF v
<1>7. CASE w.status = "ok" /\ S = {} /\ ~(Len(s) >= MaxRecords)
  <2> DEFINE t == Append(s, pk)
  <2>1. v = [status |-> "ok", pending |-> t]
    BY <1>2, <1>7 DEF Extended, ApplyRecord, PacketRecord, Loaded
  <2>2. /\ t \in Seq(T) /\ Len(t) = Len(s) + 1
        /\ \A i \in 1 .. Len(s) : t[i] = s[i]
        /\ t[Len(s) + 1] = pk
    BY <1>2
  <2> HIDE DEF t
  <2> HIDE DEF v
  <2>3. v.status = "ok" /\ v.pending = t /\ v \in [status : Statuses, pending : Seq(T)]
    BY <2>1, <2>2 DEF Statuses
  <2>4. \A i \in 1 .. Len(s) : s[i].sequence # pk.sequence
    BY <1>3, <1>7
  <2> HIDE DEF v, s, S
  <2>5. \A i \in 1 .. Len(t) : (i \in 1 .. Len(s) /\ t[i] = s[i]) \/ (i = Len(s) + 1 /\ t[i] = pk)
    BY <2>2, <1>2
  <2>6. Distinct(s) => Distinct(t)
    BY <2>4, <2>5, <2>2, <1>2 DEF Distinct
  <2>7. Rising(s) /\ Under(s, pk.sequence) => Rising(t)
    BY <2>5, <2>2, <1>2, <1>4 DEF Rising, Under
  <2>8. \A j \in 1 .. Len(t) : t[j] = pk \/ \E k \in 1 .. Len(s) : t[j] = s[k]
    BY <2>5
  <2>9. \E j \in 1 .. Len(t) : t[j] = pk
    BY <2>2, <1>2, SMTT(30)
  <2>10. \A k \in 1 .. Len(s) : \E j \in 1 .. Len(t) : t[j] = s[k]
    BY <2>2, <1>2
  <2>11. QED
    BY <2>3, <2>4, <2>6, <2>7, <2>8, <2>9, <2>10, <1>7 DEF v, s
<1>8. QED
  BY <1>1, <1>5, <1>6, <1>7

-----------------------------------------------------------------------------
(* Types.                                                                  *)

LEMMA PacketFacts ==
  /\ \A x \in PacketType : x.sequence \in Nat /\ x.ack \in Nat /\ x.payload \in Nat
  /\ \A x \in Items : x.packet \in PacketType
BY DEF PacketType, Items

LEMMA PeerFacts ==
  ASSUME Types, NEW p \in Peers
  PROVE  /\ up[p] \in BOOLEAN /\ mode[p] \in {"Offline", "Online"}
         /\ next_sequence[p] \in Nat /\ next_sequence[p] >= 1
         /\ last_received[p] \in Nat /\ last_ack_sent[p] \in Nat
         /\ pending[p] \in Seq(PacketType) /\ in_flight[p] \in Seq(Items)
         /\ Len(pending[p]) \in Nat /\ Len(in_flight[p]) \in Nat
         /\ session_nonce[p] \in Nat /\ used[p] \in Nat
         /\ wal[p] \in Replays /\ wal[p].pending \in Seq(PacketType)
         /\ Len(wal[p].pending) \in Nat
         /\ net[p] \in SUBSET Envelopes
         /\ enqueued[p] \in Nat /\ delivered[p] \in Seq(PacketType)
         /\ Len(delivered[p]) \in Nat
         /\ acked[p] \in SUBSET Nat
         /\ Other[p] \in Peers /\ Other[Other[p]] = p
<1>1. Other[p] \in Peers /\ Other[Other[p]] = p
  BY ReplicatorAssumption
<1>2. /\ up[p] \in BOOLEAN /\ mode[p] \in {"Offline", "Online"}
      /\ next_sequence[p] \in Nat /\ next_sequence[p] >= 1
      /\ last_received[p] \in Nat /\ last_ack_sent[p] \in Nat
      /\ session_nonce[p] \in Nat /\ used[p] \in Nat /\ enqueued[p] \in Nat
  BY DEF Types
<1>3. /\ pending[p] \in Seq(PacketType) /\ in_flight[p] \in Seq(Items)
      /\ wal[p] \in Replays /\ delivered[p] \in Seq(PacketType)
      /\ net[p] \in SUBSET Envelopes /\ acked[p] \in SUBSET Nat
  BY DEF Types
<1>4. wal[p].pending \in Seq(PacketType)
  BY <1>3 DEF Replays
<1>5. /\ Len(pending[p]) \in Nat /\ Len(in_flight[p]) \in Nat
      /\ Len(wal[p].pending) \in Nat /\ Len(delivered[p]) \in Nat
  BY <1>3, <1>4
<1>6. QED
  BY <1>1, <1>2, <1>3, <1>4, <1>5

\* The two queues as one list.
QueueShape(p) ==
  /\ QueueOf(p) \in Seq(PacketType)
  /\ Len(QueueOf(p)) = Len(in_flight[p]) + Len(pending[p]) /\ Len(QueueOf(p)) \in Nat
  /\ \A i \in 1 .. Len(in_flight[p]) : QueueOf(p)[i] = in_flight[p][i].packet
  /\ \A i \in 1 .. Len(pending[p]) : QueueOf(p)[Len(in_flight[p]) + i] = pending[p][i]
  /\ \A k \in 1 .. Len(QueueOf(p)) :
       \/ \E i \in 1 .. Len(in_flight[p]) : k = i /\ QueueOf(p)[k] = in_flight[p][i].packet
       \/ \E i \in 1 .. Len(pending[p]) :
            k = Len(in_flight[p]) + i /\ QueueOf(p)[k] = pending[p][i]

LEMMA QueueFacts ==
  Types => \A p \in Peers : QueueShape(p)
<1> SUFFICES ASSUME Types, NEW p \in Peers PROVE QueueShape(p)
  OBVIOUS
<1> DEFINE a == PacketsOf(in_flight[p])
           b == pending[p]
<1>1. in_flight[p] \in Seq(Items) /\ b \in Seq(PacketType)
  BY PeerFacts
<1>2. \A d \in Seq(Items) : /\ PacketsOf(d) \in Seq(PacketType) /\ Len(PacketsOf(d)) = Len(d)
                            /\ \A i \in 1 .. Len(d) : PacketsOf(d)[i] = d[i].packet
  <2>1. \A x \in Items : x.packet \in PacketType
    BY PacketFacts
  <2>2. QED
    BY ONLY <2>1, PacketsOfFacts
<1>3. /\ a \in Seq(PacketType) /\ Len(a) = Len(in_flight[p])
      /\ \A i \in 1 .. Len(in_flight[p]) : a[i] = in_flight[p][i].packet
  BY <1>1, <1>2
<1> HIDE DEF a, b
<1>4. a \o b \in Seq(PacketType) /\ Joined(a \o b, a, b)
  BY <1>1, <1>3, JoinFacts
<1> DEFINE u == QueueOf(p)
<1>5. u = a \o b
  BY DEF QueueOf, a, b
<1> HIDE DEF u
<1>6. u \in Seq(PacketType) /\ Joined(u, a, b)
  BY <1>4, <1>5
<1>7. Len(u) \in Nat
  BY <1>6
<1>8. /\ Len(u) = Len(in_flight[p]) + Len(b)
      /\ \A i \in 1 .. Len(in_flight[p]) : u[i] = in_flight[p][i].packet
      /\ \A i \in 1 .. Len(b) : u[Len(in_flight[p]) + i] = b[i]
  BY <1>3, <1>6 DEF Joined
<1>9. ASSUME NEW k \in 1 .. Len(u)
      PROVE  \/ \E i \in 1 .. Len(in_flight[p]) : k = i /\ u[k] = in_flight[p][i].packet
             \/ \E i \in 1 .. Len(b) : k = Len(in_flight[p]) + i /\ u[k] = b[i]
  <2>1. \/ \E i \in 1 .. Len(a) : k = i /\ u[k] = a[i]
        \/ \E i \in 1 .. Len(b) : k = Len(a) + i /\ u[k] = b[i]
    BY <1>6 DEF Joined
  <2>2. QED
    BY <2>1, <1>3
<1>10. QED
  BY <1>6, <1>7, <1>8, <1>9 DEF b, u, QueueShape

-----------------------------------------------------------------------------
(* Steps.  A step of one peer leaves the others as they are; what is to be *)
(* shown of it before any crash is the conjunction of Moves and Locally.   *)

Calm(q) ==
  /\ up'[q] = up[q] /\ next_sequence'[q] = next_sequence[q]
  /\ last_received'[q] = last_received[q] /\ last_ack_sent'[q] = last_ack_sent[q]
  /\ pending'[q] = pending[q] /\ in_flight'[q] = in_flight[q]
  /\ session_nonce'[q] = session_nonce[q] /\ wal'[q] = wal[q]
  /\ used'[q] = used[q] /\ enqueued'[q] = enqueued[q] /\ delivered'[q] = delivered[q]
  /\ acked'[q] = acked[q] /\ SentBy(q)' = SentBy(q)

Onward ==
  /\ bounds' = bounds
  /\ crashes' >= crashes /\ walErrors' >= walErrors /\ agreed' >= agreed
  /\ \A q \in Peers : SentBy(q) \subseteq SentBy(q)'

\* What a step does to q that its counterpart may notice.
Moves(q) ==
  /\ \A n \in Nat : Passed(q, n) => Passed(q, n)'
  /\ \A x \in SentBy(q)' : x \in SentBy(q) \/ Passed(q, x.sequence)'
  /\ \/ last_received'[q] = last_received[q] \/ last_received'[q] = 0
     \/ \E x \in SentBy(Other[q]) : last_received'[q] = x.sequence
  /\ \A x \in Packets(q)' : x.ack = last_received[q] \/ \E y \in Packets(q) : x.ack = y.ack
  /\ \A n \in acked'[q] : n \in acked[q] \/ \E x \in SentBy(Other[q]) : n <= x.ack
  /\ agreed' = 1 /\ Steady(q)' => agreed = 1 /\ Steady(q) /\ last_received[q] <= last_received'[q]

Locally(q) ==
  /\ Rising(wal'[q].pending)
  /\ Pristine(q)'
  /\ Logged(q)'
  /\ used'[q] <= agreed'
  /\ used'[q] = NoSession => session_nonce'[q] = NoSession /\ last_received'[q] = 0
  /\ Deltas(q)'

\* The parts of the invariant that are about one peer, after a step.
Holds(q) ==
  /\ Numbered(q)' /\ PayloadsOnce(q)' /\ Deliveries(q)'
  /\ crashes' <= 1 => Ordered1(q)'
  /\ crashes' = 0 => Moves(q) /\ Locally(q)

LEMMA SentFacts ==
  ASSUME Types, NEW p \in Peers
  PROVE  SentBy(p) \subseteq PacketType /\ Packets(p) \subseteq PacketType
<1>1. net[Other[p]] \in SUBSET Envelopes /\ pending[p] \in Seq(PacketType)
  BY PeerFacts
<1>2. SentBy(p) \subseteq PacketType
  BY <1>1 DEF SentBy, Envelopes
<1>3. ToSet(pending[p]) \subseteq PacketType
  BY <1>1 DEF ToSet
<1>4. QED
  BY <1>2, <1>3 DEF Packets

LEMMA CalmKeeps ==
  ASSUME ReplicatorIInv, Types', Onward, NEW q \in Peers, Calm(q)
  PROVE  Holds(q)
<1>1. QueueOf(q)' = QueueOf(q)
  BY DEF QueueOf, Calm
<1>2. Numbered(q)'
  BY <1>1 DEF ReplicatorIInv, Numbered, Calm
<1>3. Known(q)' = Known(q)
  BY DEF Known, Calm
<1>4. PayloadsOnce(q)'
  BY <1>3 DEF ReplicatorIInv, PayloadsOnce, Calm
<1>5. Deliveries(q)'
  <2>1. Other[q] \in Peers
    BY PeerFacts DEF ReplicatorIInv
  <2>2. SentBy(Other[q]) \subseteq SentBy(Other[q])'
    BY <2>1 DEF Onward
  <2>3. QED
    BY <2>2 DEF ReplicatorIInv, Deliveries, Calm
<1>6. crashes' <= 1 => Ordered1(q)'
  <2>1. crashes' <= 1 => crashes <= 1
    BY DEF ReplicatorIInv, Types, Onward
  <2>2. QED
    BY <1>1, <2>1 DEF ReplicatorIInv, Ordered1, Calm
<1>7. ASSUME crashes' = 0
      PROVE  FirstLife(q) /\ (walErrors' = 0 => walErrors = 0)
             /\ (agreed' = 1 => agreed = 1) /\ agreed' >= agreed
  <2>1. crashes = 0
    BY <1>7 DEF ReplicatorIInv, Types, Onward
  <2>2. FirstLife(q)
    BY <2>1 DEF ReplicatorIInv
  <2>3. walErrors \in Nat /\ walErrors' \in Nat /\ agreed \in Nat \ {0} /\ agreed' \in Nat
    BY DEF ReplicatorIInv, Types
  <2>4. walErrors' >= walErrors /\ agreed' >= agreed
    BY DEF Onward
  <2>5. QED
    BY <2>2, <2>3, <2>4
<1>8. ASSUME crashes' = 0
      PROVE  Moves(q)
  <2>1. \A n \in Nat : Passed(q, n)' = Passed(q, n)
    BY DEF Passed, Calm
  <2>2. Packets(q)' = Packets(q)
    BY DEF Packets, Calm
  <2>3. Steady(q)' = Steady(q)
    BY DEF Steady, Calm
  <2>4. last_received[q] \in Nat
    BY PeerFacts DEF ReplicatorIInv
  <2>5. QED
    BY <1>7, <1>8, <2>1, <2>2, <2>3, <2>4 DEF Moves, Calm
<1>9. ASSUME crashes' = 0
      PROVE  Locally(q)
  <2>1. Packets(q)' = Packets(q)
    BY DEF Packets, Calm
  <2>2. Deltas(q)'
    BY <1>7, <1>9, <2>1 DEF FirstLife, Deltas, Calm
  <2>3. Logged(q)'
    BY <1>1, <1>7, <1>9 DEF FirstLife, Logged, Calm
  <2>4. Pristine(q)'
    BY <1>7, <1>9 DEF FirstLife, Pristine, Calm
  <2>5. used'[q] <= agreed'
    <3>1. used[q] \in Nat /\ agreed \in Nat /\ agreed' \in Nat
      BY DEF ReplicatorIInv, Types
    <3>2. QED
      BY <3>1, <1>7, <1>9 DEF FirstLife, Calm
  <2>6. QED
    BY <1>7, <1>9, <2>2, <2>3, <2>4, <2>5 DEF FirstLife, Locally, Calm
<1>10. QED
  BY <1>2, <1>4, <1>5, <1>6, <1>8, <1>9 DEF Holds

\* Before any crash: what the peers do to each other keeps the invariant.
LEMMA FirstLifeStep ==
  ASSUME ReplicatorIInv, Types', crashes = 0, \A q \in Peers : Moves(q) /\ Locally(q)
  PROVE  \A p \in Peers : FirstLife(p)'
<1> SUFFICES ASSUME NEW p \in Peers PROVE FirstLife(p)'
  OBVIOUS
<1> DEFINE o == Other[p]
<1>1. Types /\ o \in Peers /\ Other[o] = p
  BY PeerFacts DEF ReplicatorIInv
<1>2. FirstLife(p) /\ FirstLife(o)
  BY <1>1 DEF ReplicatorIInv
<1>3. Moves(p) /\ Locally(p) /\ Moves(o) /\ Locally(o)
  BY <1>1
<1>4. SentBy(p) \subseteq PacketType /\ Packets(o) \subseteq PacketType /\ Packets(p) \subseteq PacketType
  BY <1>1, SentFacts
<1>5. /\ \A x \in SentBy(p) : x.sequence \in Nat /\ x.ack \in Nat
      /\ \A x \in Packets(o) : x.ack \in Nat
      /\ \A x \in Packets(p) : x.ack \in Nat
  BY <1>4, PacketFacts
<1>6. /\ last_received[o] \in Nat /\ last_received[p] \in Nat /\ last_received'[p] \in Nat
      /\ next_sequence[p] \in Nat
      /\ \A n \in acked[o] : n \in Nat
      /\ \A n \in acked'[o] : n \in Nat
  BY <1>1 DEF Types
<1> HIDE DEF o
<1>7. \A x \in SentBy(p)' : Passed(p, x.sequence)'
  BY <1>2, <1>3, <1>5 DEF FirstLife, Moves
<1>8. Passed(p, last_received[o])'
  <2>1. Passed(p, last_received[o]) /\ Passed(p, 0)
    <3>1. Passed(p, last_received[o])
      BY <1>2 DEF FirstLife, o
    <3>2. \A i \in 1 .. Len(pending[p]) : pending[p][i].sequence \in Nat
      BY <1>1, PeerFacts, PacketFacts
    <3>3. QED
      BY <3>1, <3>2, <1>6 DEF Passed
  <2>3. CASE last_received'[o] = last_received[o]
    BY <2>1, <2>3, <1>3, <1>6 DEF Moves, Passed
  <2>4. CASE last_received'[o] = 0
    BY <2>1, <2>4, <1>3 DEF Moves, Passed
  <2>5. CASE \E x \in SentBy(Other[o]) : last_received'[o] = x.sequence
    <3>1. PICK x \in SentBy(p) : last_received'[o] = x.sequence
      BY <2>5, <1>1
    <3>2. Passed(p, x.sequence)'
      BY <3>1, <1>2, <1>3, <1>5 DEF FirstLife, Moves
    <3>3. QED
      BY <3>1, <3>2 DEF Passed
  <2>6. QED
    BY <2>3, <2>4, <2>5, <1>3 DEF Moves
<1>9. \A x \in Packets(o)' : Passed(p, x.ack)'
  <2>1. \A y \in Packets(o) : Passed(p, y.ack)'
    BY <1>2, <1>3, <1>5 DEF FirstLife, Moves, o
  <2>2. ASSUME NEW x, x.ack = last_received[o] PROVE Passed(p, x.ack)'
    <3>1. x.ack \in Nat /\ Passed(p, x.ack)
      BY <2>2, <1>6, <1>2 DEF FirstLife, o
    <3>2. QED
      BY <3>1, <1>3 DEF Moves
  <2>3. TAKE x \in Packets(o)'
  <2>4. CASE x.ack = last_received[o]
    BY <2>2, <2>4
  <2>5. CASE \E y \in Packets(o) : x.ack = y.ack
    <3>1. PICK y \in Packets(o) : x.ack = y.ack
      BY <2>5
    <3>2. QED
      BY <3>1, <2>1 DEF Passed
  <2>6. QED
    BY <2>4, <2>5, <1>3 DEF Moves
<1>10. ASSUME agreed' = 1, Steady(p)'
       PROVE  /\ \A x \in Packets(p)' : x.ack <= last_received'[p]
              /\ \A n \in acked'[o] : n <= last_received'[p]
  <2>1. agreed = 1 /\ Steady(p) /\ last_received[p] <= last_received'[p]
    BY <1>3, <1>10 DEF Moves
  <2>2. /\ \A x \in Packets(p) : x.ack <= last_received[p]
        /\ \A n \in acked[o] : n <= last_received[p]
    BY <1>2, <2>1 DEF FirstLife, Acknowledged, o
  <2>3. ASSUME NEW x \in Packets(p)' PROVE x.ack <= last_received'[p]
    <3>1. x.ack = last_received[p] \/ \E y \in Packets(p) : x.ack = y.ack
      BY <1>3 DEF Moves
    <3>2. QED
      BY <3>1, <2>1, <2>2, <1>5, <1>6
  <2>4. ASSUME NEW n \in acked'[o] PROVE n <= last_received'[p]
    <3>1. n \in acked[o] \/ \E x \in SentBy(p) : n <= x.ack
      BY <1>1, <1>3 DEF Moves
    <3>2. \A x \in SentBy(p) : x \in Packets(p)
      BY DEF Packets
    <3>3. CASE n \in acked[o]
      BY <3>3, <2>1, <2>2, <1>6
    <3>4. CASE \E x \in SentBy(p) : n <= x.ack
      <4>1. PICK x \in SentBy(p) : n <= x.ack
        BY <3>4
      <4>2. x.ack \in Nat /\ x.ack <= last_received[p] /\ n \in Nat
        BY <4>1, <3>2, <2>2, <1>5, <1>6
      <4>3. QED
        BY <4>1, <4>2, <2>1, <1>6
    <3>5. QED
      BY <3>1, <3>3, <3>4
  <2>5. QED
    BY <2>3, <2>4
<1>11. Acknowledged(p)'
  BY <1>10 DEF Acknowledged, o
<1>12. QED
  BY <1>3, <1>7, <1>8, <1>9, <1>11 DEF FirstLife, Locally, o

\* The invariant from its parts.
LEMMA Assemble ==
  ASSUME ReplicatorIInv, Types', Bounds', Onward, \A q \in Peers : Calm(q) \/ Holds(q)
  PROVE  ReplicatorIInv'
<1>1. \A q \in Peers : Holds(q)
  BY CalmKeeps
<1>2. crashes' = 0 => \A q \in Peers : FirstLife(q)'
  <2>1. crashes' = 0 => crashes = 0
    BY DEF Onward, ReplicatorIInv, Types
  <2>2. crashes' = 0 => \A q \in Peers : Moves(q) /\ Locally(q)
    BY <1>1 DEF Holds
  <2>3. QED
    BY <2>1, <2>2, FirstLifeStep
<1>3. \A q \in Peers : Numbered(q)' /\ PayloadsOnce(q)' /\ Deliveries(q)'
  BY <1>1 DEF Holds
<1>4. crashes' <= 1 => \A q \in Peers : Ordered1(q)'
  BY <1>1 DEF Holds
<1>5. QED
  BY <1>2, <1>3, <1>4 DEF ReplicatorIInv

LEMMA SameTypes ==
  ASSUME bounds' = bounds
  PROVE  PacketType' = PacketType /\ Items' = Items /\ Replays' = Replays /\ Envelopes' = Envelopes
<1>1. PacketType' = PacketType
  BY DEF PacketType
<1>2. QED
  BY <1>1 DEF Items, Replays, Envelopes

LEMMA SameNet ==
  ASSUME net' = net
  PROVE  \A q \in Peers : SentBy(q)' = SentBy(q)
BY DEF SentBy

\* A step that leaves the queues and the log of q.
Still(q) ==
  /\ next_sequence'[q] = next_sequence[q] /\ enqueued'[q] = enqueued[q]
  /\ pending'[q] = pending[q] /\ in_flight'[q] = in_flight[q]
  /\ wal'[q] = wal[q] /\ SentBy(q)' = SentBy(q)

LEMMA StillKeeps ==
  ASSUME ReplicatorIInv, Types', Onward, NEW q \in Peers, Still(q)
  PROVE  /\ QueueOf(q)' = QueueOf(q) /\ Packets(q)' = Packets(q)
         /\ Numbered(q)' /\ PayloadsOnce(q)'
         /\ \A n : Passed(q, n)' = Passed(q, n)
         /\ crashes' = 0 => /\ crashes = 0 /\ FirstLife(q)
                            /\ Rising(wal'[q].pending) /\ Logged(q)' /\ Deltas(q)'
<1>1. QueueOf(q)' = QueueOf(q) /\ Packets(q)' = Packets(q) /\ Known(q)' = Known(q)
  BY DEF QueueOf, Packets, Known, Still
<1>2. Numbered(q)'
  BY <1>1 DEF ReplicatorIInv, Numbered, Still
<1>3. PayloadsOnce(q)'
  BY <1>1 DEF ReplicatorIInv, PayloadsOnce, Still
<1>4. \A n : Passed(q, n)' = Passed(q, n)
  BY DEF Passed, Still
<1>5. ASSUME crashes' = 0
      PROVE  /\ crashes = 0 /\ FirstLife(q)
             /\ Rising(wal'[q].pending) /\ Logged(q)' /\ Deltas(q)'
  <2>1. crashes = 0
    BY <1>5 DEF ReplicatorIInv, Types, Onward
  <2>2. FirstLife(q)
    BY <2>1 DEF ReplicatorIInv
  <2>3. walErrors' = 0 => walErrors = 0
    BY DEF ReplicatorIInv, Types, Onward
  <2>4. Rising(wal'[q].pending)
    BY <2>2 DEF FirstLife, Still
  <2>5. Deltas(q)'
    BY <2>2, <1>1 DEF FirstLife, Deltas, Still
  <2>6. Logged(q)'
    BY <2>2, <2>3, <1>1 DEF FirstLife, Logged, Still
  <2>7. QED
    BY <2>1, <2>2, <2>4, <2>5, <2>6
<1>6. QED
  BY <1>1, <1>2, <1>3, <1>4, <1>5

\* The two queues as one list, after a step.
LEMMA QueueFactsNext ==
  Types' => \A p \in Peers : QueueShape(p)'
<1>1. (Types => \A p \in Peers : QueueShape(p))'
  BY QueueFacts, PTL
<1>2. QED
  BY <1>1

-----------------------------------------------------------------------------
(* The actions.                                                            *)

LEMMA RenewSessionKeeps ==
  ASSUME ReplicatorIInv, RenewSession
  PROVE  ReplicatorIInv'
<1> USE DEF RenewSession, local
<1>1. Types'
  <2>1. agreed' \in Nat \ {0}
    BY DEF ReplicatorIInv, Types
  <2>2. QED
    BY <2>1, SameTypes DEF ReplicatorIInv, Types
<1>2. \A q \in Peers : SentBy(q)' = SentBy(q)
  BY SameNet
<1>3. Onward
  BY <1>2 DEF Onward, ReplicatorIInv, Types
<1>4. \A q \in Peers : Calm(q)
  BY <1>2 DEF Calm
<1>5. Bounds'
  BY DEF ReplicatorIInv, Bounds
<1>6. QED
  BY <1>1, <1>3, <1>4, <1>5, Assemble

LEMMA SetModeKeeps ==
  ASSUME ReplicatorIInv, NEW p \in Peers, NEW m \in {"Offline", "Online"}, SetMode(p, m)
  PROVE  ReplicatorIInv'
<1> USE DEF SetMode
<1>1. Types'
  <2>1. mode' \in [Peers -> {"Offline", "Online"}]
    BY DEF ReplicatorIInv, Types
  <2>2. QED
    BY <2>1, SameTypes DEF ReplicatorIInv, Types
<1>2. \A q \in Peers : SentBy(q)' = SentBy(q)
  BY SameNet
<1>3. Onward
  BY <1>2 DEF Onward, ReplicatorIInv, Types
<1>4. \A q \in Peers : Calm(q)
  BY <1>2 DEF Calm
<1>5. Bounds'
  BY DEF ReplicatorIInv, Bounds
<1>6. QED
  BY <1>1, <1>3, <1>4, <1>5, Assemble

LEMMA CrashKeeps ==
  ASSUME ReplicatorIInv, NEW p \in Peers, Crash(p)
  PROVE  ReplicatorIInv'
<1> USE DEF Crash, local
<1>1. Types'
  <2>1. /\ up' \in [Peers -> BOOLEAN] /\ acked' \in [Peers -> SUBSET Nat]
        /\ crashes' \in Nat
    BY DEF ReplicatorIInv, Types
  <2>2. QED
    BY <2>1, SameTypes DEF ReplicatorIInv, Types
<1>2. \A q \in Peers : SentBy(q)' = SentBy(q)
  BY SameNet
<1>3. Onward
  BY <1>2 DEF Onward, ReplicatorIInv, Types
<1>4. \A q \in Peers : q # p => Calm(q)
  BY <1>2 DEF Calm, ReplicatorIInv, Types
<1>5. Bounds'
  BY DEF ReplicatorIInv, Bounds
<1>6. Holds(p)
  <2>1. Still(p)
    BY <1>2 DEF Still
  <2>2. Numbered(p)' /\ PayloadsOnce(p)' /\ QueueOf(p)' = QueueOf(p)
    BY <1>1, <1>3, <2>1, StillKeeps
  <2>3. Deliveries(p)'
    <3>1. Other[p] \in Peers
      BY PeerFacts DEF ReplicatorIInv
    <3>2. SentBy(Other[p])' = SentBy(Other[p])
      BY <1>2, <3>1
    <3>3. QED
      BY <3>2 DEF ReplicatorIInv, Deliveries
  <2>4. ASSUME crashes' <= 1 PROVE Ordered1(p)'
    <3>1. crashes = 0 /\ crashes <= 1
      BY <2>4 DEF ReplicatorIInv, Types
    <3>2. Ordered1(p) /\ FirstLife(p)
      BY <3>1 DEF ReplicatorIInv
    <3>3. QED
      BY <3>2, <2>2 DEF Ordered1, FirstLife
  <2>5. crashes' # 0
    BY DEF ReplicatorIInv, Types
  <2>6. QED
    BY <2>2, <2>3, <2>4, <2>5 DEF Holds
<1>7. \A q \in Peers : Calm(q) \/ Holds(q)
  BY <1>4, <1>6
<1>8. QED
  BY <1>1, <1>3, <1>5, <1>7, Assemble

\* Taking a nonce or dropping it.
LEMMA SessionKeeps ==
  ASSUME ReplicatorIInv, NEW p \in Peers, SetSessionNonce(p) \/ ClearSession(p)
  PROVE  ReplicatorIInv'
<1>0. PICK nonce \in Nat :
        /\ SessionReset(p, nonce)
        /\ \/ used[p] # agreed /\ used' = [used EXCEPT ![p] = agreed] /\ nonce = agreed
           \/ session_nonce[p] # NoSession /\ nonce = NoSession /\ used' = used
  BY DEF SetSessionNonce, ClearSession, NoSession, ReplicatorIInv, Types
<1>a. /\ agreed \in Nat \ {0} /\ agreed' = agreed /\ bounds' = bounds
      /\ net' = net /\ crashes' = crashes /\ walErrors' = walErrors
  BY <1>0 DEF SessionReset, ReplicatorIInv, Types
<1>1. Types'
  <2>1. /\ last_received' \in [Peers -> Nat] /\ last_ack_sent' \in [Peers -> Nat]
        /\ session_nonce' \in [Peers -> Nat]
    BY <1>0 DEF SessionReset, ReplicatorIInv, Types
  <2>2. used' \in [Peers -> Nat]
    BY <1>0, <1>a DEF ReplicatorIInv, Types
  <2>3. delivered' \in [Peers -> Seq(PacketType)]
    BY <1>0 DEF SessionReset, ReplicatorIInv, Types
  <2>4. QED
    BY <1>0, <2>1, <2>2, <2>3, SameTypes DEF SessionReset, ReplicatorIInv, Types
<1>2. \A q \in Peers : SentBy(q)' = SentBy(q)
  BY <1>a, SameNet
<1>3. Onward
  BY <1>a, <1>2 DEF Onward, ReplicatorIInv, Types
<1>4. \A q \in Peers : q # p => Calm(q)
  BY <1>0, <1>2 DEF Calm, ReplicatorIInv, Types, SessionReset
<1>5. Bounds'
  BY <1>0 DEF ReplicatorIInv, Bounds, SessionReset
<1>6. /\ up[p] /\ up'[p] = up[p] /\ last_received'[p] = 0 /\ session_nonce'[p] = nonce
      /\ delivered'[p] = <<>> /\ acked'[p] = acked[p] /\ wal'[p] = wal[p]
      /\ \/ used[p] # agreed /\ used'[p] = agreed /\ nonce = agreed
         \/ session_nonce[p] # NoSession /\ nonce = NoSession /\ used'[p] = used[p]
  BY <1>0 DEF ReplicatorIInv, Types, SessionReset
<1>7. Still(p)
  BY <1>0, <1>2 DEF Still, SessionReset
<1>8. /\ QueueOf(p)' = QueueOf(p) /\ Packets(p)' = Packets(p)
      /\ Numbered(p)' /\ PayloadsOnce(p)'
      /\ \A n : Passed(p, n)' = Passed(p, n)
      /\ crashes' = 0 => /\ crashes = 0 /\ FirstLife(p)
                         /\ Rising(wal'[p].pending) /\ Logged(p)' /\ Deltas(p)'
  BY <1>1, <1>3, <1>7, StillKeeps
<1>9. Deliveries(p)'
  BY <1>6 DEF Deliveries, Rising, Under
<1>10. crashes' <= 1 => Ordered1(p)'
  BY <1>6, <1>8, <1>a DEF ReplicatorIInv, Ordered1
<1>11. ASSUME crashes' = 0 PROVE Moves(p) /\ Locally(p)
  <2>1. FirstLife(p)
    BY <1>8, <1>11
  <2>2. used[p] \in Nat /\ last_received[p] \in Nat
    BY DEF ReplicatorIInv, Types
  <2>3. used[p] <= agreed /\ (used[p] = NoSession => session_nonce[p] = NoSession /\ last_received[p] = 0)
    BY <2>1 DEF FirstLife
  <2>4. agreed' = 1 /\ Steady(p)' => agreed = 1 /\ Steady(p) /\ last_received[p] <= last_received'[p]
    BY <1>6, <1>a, <2>2, <2>3 DEF Steady, NoSession
  <2>5. Moves(p)
    BY <1>2, <1>6, <1>8, <2>4 DEF Moves
  <2>6. Pristine(p)'
    BY <1>6 DEF Pristine
  <2>7. /\ used'[p] <= agreed'
        /\ used'[p] = NoSession => session_nonce'[p] = NoSession /\ last_received'[p] = 0
    BY <1>6, <1>a, <2>2, <2>3 DEF NoSession
  <2>8. QED
    BY <1>8, <1>11, <2>5, <2>6, <2>7 DEF Locally
<1>12. Holds(p)
  BY <1>8, <1>9, <1>10, <1>11 DEF Holds
<1>13. \A q \in Peers : Calm(q) \/ Holds(q)
  BY <1>4, <1>12
<1>14. QED
  BY <1>1, <1>3, <1>5, <1>13, Assemble

\* The first number after a recovery is above those of all recovered packets.
LEMMA NumberAfterFacts ==
  ASSUME NEW T, \A x \in T : x.sequence \in Nat,
         NEW s \in Seq(T), NEW b \in Nat \ {0}, Under(s, b)
  PROVE  /\ NumberAfter(s) \in Nat \ {0} /\ Under(s, NumberAfter(s))
         /\ s = <<>> => NumberAfter(s) = 1
<1> DEFINE S == {1} \cup {q.sequence + 1 : q \in ToSet(s)}
<1>1. \A i \in 1 .. Len(s) : s[i] \in T /\ s[i].sequence \in Nat /\ s[i] \in ToSet(s)
  BY DEF ToSet
<1>2. \A q \in ToSet(s) : q.sequence \in Nat /\ q.sequence < b
  BY DEF ToSet, Under
<1>3. S \in SUBSET Nat /\ 1 \in S
  BY <1>2
<1>4. \A x \in S : x <= b
  BY <1>2
<1>5. \A i \in 1 .. Len(s) : s[i].sequence + 1 \in S
  BY <1>1
<1>6. s = <<>> => S = {1}
  BY DEF ToSet
<1>7. NumberAfter(s) = Max(S)
  BY DEF NumberAfter
<1> HIDE DEF S
<1>8. \E m \in S : \A x \in S : x <= m
  BY <1>3, <1>4, GreatestNat
<1>9. \A x \in S : x \in Nat
  BY <1>3
<1>10. \E m \in S : \A x \in S : m >= x
  BY <1>8, <1>9
<1>11. Max(S) \in S /\ \A x \in S : Max(S) >= x
  BY <1>10 DEF Max
<1> DEFINE M == Max(S)
<1> HIDE DEF M
<1>12. M \in Nat /\ M >= 1 /\ \A x \in S : x <= M
  BY <1>3, <1>9, <1>11 DEF M
<1>13. Under(s, M)
  BY <1>1, <1>5, <1>12 DEF Under
<1>14. s = <<>> => M = 1
  BY <1>6, <1>11 DEF M
<1>15. QED
  BY <1>7, <1>12, <1>13, <1>14 DEF M

LEMMA BootKeeps ==
  ASSUME ReplicatorIInv, NEW p \in Peers, Boot(p)
  PROVE  ReplicatorIInv'
<1> DEFINE w == wal[p].pending
<1>0. Types /\ Numbered(p) /\ PayloadsOnce(p) /\ Deliveries(p)
  BY DEF ReplicatorIInv
<1>a. /\ w \in Seq(PacketType) /\ Len(w) \in Nat /\ next_sequence[p] \in Nat \ {0}
      /\ Distinct(w) /\ Under(w, next_sequence[p])
  BY <1>0, PeerFacts DEF Numbered, Types
<1>b. /\ NumberAfter(w) \in Nat \ {0} /\ Under(w, NumberAfter(w))
      /\ w = <<>> => NumberAfter(w) = 1
  <2> HIDE DEF w
  <2>1. \A x \in PacketType : x.sequence \in Nat
    BY PacketFacts
  <2>2. QED
    BY <1>a, <2>1, NumberAfterFacts
<1>c. /\ bounds' = bounds /\ net' = net /\ crashes' = crashes /\ walErrors' = walErrors
      /\ agreed' = agreed /\ wal' = wal
  BY DEF Boot
<1>1. Types'
  <2>1. /\ up' \in [Peers -> BOOLEAN] /\ mode' \in [Peers -> {"Offline", "Online"}]
        /\ last_received' \in [Peers -> Nat] /\ last_ack_sent' \in [Peers -> Nat]
        /\ session_nonce' \in [Peers -> Nat]
    BY <1>0 DEF Boot, Types, NoSession
  <2>2. next_sequence' \in [Peers -> Nat \ {0}]
    BY <1>0, <1>b DEF Boot, Types
  <2>3. pending' \in [Peers -> Seq(PacketType)]
    BY <1>0, <1>a DEF Boot, Types
  <2>4. in_flight' \in [Peers -> Seq(Items)]
    BY <1>0 DEF Boot, Types
  <2>5. QED
    BY <1>0, <2>1, <2>2, <2>3, <2>4, SameTypes DEF Boot, Types
<1>2. \A q \in Peers : SentBy(q)' = SentBy(q)
  BY <1>c, SameNet
<1>3. Onward
  BY <1>0, <1>c, <1>2 DEF Onward, Types
<1>4. \A q \in Peers : q # p => Calm(q)
  BY <1>0, <1>2 DEF Calm, Types, Boot
<1>5. /\ ~up[p] /\ up'[p] = TRUE /\ next_sequence'[p] = NumberAfter(w)
      /\ last_received'[p] = 0 /\ last_ack_sent'[p] = 0 /\ pending'[p] = w
      /\ in_flight'[p] = <<>> /\ session_nonce'[p] = NoSession /\ wal'[p] = wal[p]
      /\ used'[p] = used[p] /\ enqueued'[p] = enqueued[p] /\ delivered'[p] = delivered[p]
      /\ acked'[p] = acked[p] /\ Len(w) <= MaxPending
  BY <1>0 DEF Boot, Types, Recoverable
<1>6. Bounds'
  <2>1. \A q \in Peers : q # p => pending'[q] = pending[q] /\ in_flight'[q] = in_flight[q]
    BY <1>4 DEF Calm
  <2>2. Len(in_flight'[p]) = 0 /\ Len(pending'[p]) <= MaxPending
    BY <1>5
  <2>3. QED
    BY <2>1, <2>2, ReplicatorAssumption DEF ReplicatorIInv, Bounds
<1>7. /\ QueueOf(p)' \in Seq(PacketType) /\ Len(QueueOf(p)') = Len(w)
      /\ \A i \in 1 .. Len(w) : QueueOf(p)'[i] = w[i]
  <2>2. QueueShape(p)'
    BY <1>1, QueueFactsNext
  <2>3. /\ Len(QueueOf(p)') = Len(in_flight'[p]) + Len(pending'[p])
        /\ \A i \in 1 .. Len(pending'[p]) : QueueOf(p)'[Len(in_flight'[p]) + i] = pending'[p][i]
        /\ QueueOf(p)' \in Seq(PacketType)
    BY <2>2, <1>c, SameTypes DEF QueueShape
  <2>4. Len(in_flight'[p]) = 0 /\ \A i \in 1 .. Len(w) : 0 + i = i
    BY <1>5
  <2> HIDE DEF w
  <2>5. QED
    BY <2>3, <2>4, <1>5, <1>a
<1> HIDE DEF w
<1>8. Numbered(p)'
  <2>1. Distinct(QueueOf(p)') /\ Under(QueueOf(p)', NumberAfter(w))
    BY <1>7, <1>a, <1>b DEF Distinct, Under
  <2>2. Distinct(wal'[p].pending) /\ Under(wal'[p].pending, NumberAfter(w))
    BY <1>5, <1>a, <1>b DEF w
  <2>3. \A i \in 1 .. Len(in_flight'[p]) : FALSE
    BY <1>5
  <2>4. QED
    BY <2>1, <2>2, <2>3, <1>5 DEF Numbered
<1>9. PayloadsOnce(p)'
  <2>1. Known(p)' \subseteq Known(p)
    BY <1>2, <1>5 DEF Known, w
  <2>2. QED
    BY <2>1, <1>0, <1>5 DEF PayloadsOnce
<1>10. Deliveries(p)'
  <2>1. Other[p] \in Peers
    BY <1>0, PeerFacts
  <2>2. QED
    BY <2>1, <1>0, <1>2, <1>5 DEF Deliveries
<1>11. crashes' <= 1 => Ordered1(p)'
  <2>1. crashes' <= 1 => Rising(w)
    BY <1>5, <1>c DEF ReplicatorIInv, Ordered1, w
  <2>2. Rising(w) => Rising(QueueOf(p)')
    BY <1>7 DEF Rising
  <2>3. QED
    BY <2>1, <2>2, <1>5 DEF Ordered1
<1>12. ASSUME crashes' = 0 PROVE Moves(p) /\ Locally(p)
  <2>1. FirstLife(p)
    BY <1>c, <1>12 DEF ReplicatorIInv
  <2>2. /\ pending[p] = <<>> /\ in_flight[p] = <<>> /\ wal[p] = Loaded(<<>>)
        /\ next_sequence[p] = 1 /\ last_received[p] = 0 /\ last_ack_sent[p] = 0
        /\ session_nonce[p] = NoSession
    BY <2>1, <1>5 DEF FirstLife, Pristine
  <2>3. w = <<>>
    BY <2>2 DEF w, Loaded
  <2>4. Still(p)
    BY <1>2, <1>5, <1>b, <2>2, <2>3 DEF Still
  <2>5. /\ Packets(p)' = Packets(p)
        /\ \A n : Passed(p, n)' = Passed(p, n)
        /\ Rising(wal'[p].pending) /\ Logged(p)' /\ Deltas(p)'
    BY <1>1, <1>3, <1>12, <2>4, StillKeeps
  <2>6. Moves(p)
    BY <1>2, <1>5, <1>c, <2>2, <2>5 DEF Moves, Steady
  <2>7. Pristine(p)'
    BY <1>5 DEF Pristine
  <2>8. QED
    BY <2>1, <2>5, <2>6, <2>7, <1>5, <1>c DEF Locally, FirstLife
<1>13. \A q \in Peers : Calm(q) \/ Holds(q)
  BY <1>4, <1>8, <1>9, <1>10, <1>11, <1>12 DEF Holds
<1>14. QED
  BY <1>1, <1>3, <1>6, <1>13, Assemble

\* A payload that is new to p goes out under one number.
LEMMA PayloadsStep ==
  ASSUME Types, NEW p \in Peers, PayloadsOnce(p), NEW n,
         \A x \in Known(p)' : x \in Known(p) \/ (x.payload = enqueued[p] + 1 /\ x.sequence = n),
         enqueued'[p] = enqueued[p] + 1
  PROVE  PayloadsOnce(p)'
<1>1. Known(p) \subseteq PacketType
  <2>1. SentBy(p) \subseteq PacketType
    BY SentFacts
  <2>2. ToSet(pending[p]) \subseteq PacketType
    BY PeerFacts DEF ToSet
  <2>3. ToSet(wal[p].pending) \subseteq PacketType
    BY PeerFacts DEF ToSet
  <2>4. QED
    BY <2>1, <2>2, <2>3 DEF Known
<1>2. \A x \in Known(p) : x.payload \in Nat /\ x.payload <= enqueued[p]
  BY <1>1, PacketFacts DEF PayloadsOnce
<1>3. enqueued[p] \in Nat
  BY PeerFacts
<1>4. QED
  BY <1>2, <1>3 DEF PayloadsOnce

\* u is s with x behind it.
Appended(u, s, x) ==
  /\ Len(u) = Len(s) + 1
  /\ \A i \in 1 .. Len(s) : u[i] = s[i]
  /\ u[Len(s) + 1] = x

LEMMA AppendedKeeps ==
  ASSUME NEW T, \A x \in T : x.sequence \in Nat, NEW s \in Seq(T), NEW pk \in T,
         NEW u, Appended(u, s, pk), Under(s, pk.sequence)
  PROVE  /\ Distinct(s) => Distinct(u)
         /\ Rising(s) => Rising(u)
         /\ Under(u, pk.sequence + 1)
         /\ \A i \in 1 .. Len(u) : u[i] = pk \/ (i \in 1 .. Len(s) /\ u[i] = s[i])
<1>1. Len(s) \in Nat /\ pk.sequence \in Nat /\ Len(u) = Len(s) + 1
  BY DEF Appended
<1>2. \A i \in 1 .. Len(u) : (i \in 1 .. Len(s) /\ u[i] = s[i]) \/ (i = Len(s) + 1 /\ u[i] = pk)
  BY <1>1 DEF Appended
<1>3. \A i \in 1 .. Len(s) : s[i].sequence \in Nat /\ s[i].sequence < pk.sequence
  BY DEF Under
<1>4. Distinct(s) => Distinct(u)
  BY <1>1, <1>2, <1>3 DEF Distinct
<1>5. Rising(s) => Rising(u)
  BY <1>1, <1>2, <1>3 DEF Rising
<1>6. Under(u, pk.sequence + 1)
  BY <1>1, <1>2, <1>3 DEF Under
<1>7. QED
  BY <1>2, <1>4, <1>5, <1>6

\* What an enqueue does to its peer.
LEMMA EnqueueEffect ==
  ASSUME ReplicatorIInv, NEW p \in Peers, NEW kind \in bounds.kinds, NEW key \in Keys,
         Enqueue(p, kind, key)
  PROVE  \E pk \in PacketType :
           /\ pk.sequence = next_sequence[p] /\ pk.ack = last_received[p]
           /\ pk.kind = kind /\ pk.key = key /\ pk.payload = enqueued[p] + 1
           /\ Types' /\ Bounds' /\ Onward
           /\ \A q \in Peers : q # p => Calm(q)
           /\ kind = "Delta" => PendingDelta(p, key) = {}
           /\ up[p] /\ up'[p] = up[p] /\ next_sequence'[p] = next_sequence[p] + 1
           /\ enqueued'[p] = enqueued[p] + 1
           /\ last_received'[p] = last_received[p] /\ last_ack_sent'[p] = last_ack_sent[p]
           /\ in_flight'[p] = in_flight[p] /\ session_nonce'[p] = session_nonce[p]
           /\ used'[p] = used[p] /\ delivered'[p] = delivered[p] /\ acked'[p] = acked[p]
           /\ agreed' = agreed /\ crashes' = crashes
           /\ \A q \in Peers : SentBy(q)' = SentBy(q)
           /\ \/ /\ wal'[p] = Extended(wal[p], PacketRecord(pk)) /\ walErrors' = walErrors
                 /\ pending'[p] = Append(pending[p], pk)
              \/ /\ wal'[p] = wal[p] \/ wal'[p] = Extended(wal[p], PacketRecord(pk))
                 /\ walErrors' = walErrors + 1 /\ pending'[p] = pending[p]
<1> DEFINE pk == Packet(p, kind, key, next_sequence[p])
<1>0. Types
  BY DEF ReplicatorIInv
<1>1. /\ pk \in PacketType /\ pk.sequence = next_sequence[p] /\ pk.ack = last_received[p]
      /\ pk.kind = kind /\ pk.key = key /\ pk.payload = enqueued[p] + 1
  BY <1>0, PeerFacts DEF Packet, PacketType
<1>2. /\ kind = "Delta" => PendingDelta(p, key) = {}
      /\ up[p] /\ Len(pending[p]) < MaxPending
      /\ next_sequence' = [next_sequence EXCEPT ![p] = @ + 1]
      /\ enqueued' = [enqueued EXCEPT ![p] = @ + 1]
      /\ up' = up /\ mode' = mode /\ last_received' = last_received
      /\ last_ack_sent' = last_ack_sent /\ in_flight' = in_flight
      /\ session_nonce' = session_nonce /\ agreed' = agreed /\ used' = used /\ net' = net
      /\ delivered' = delivered /\ acked' = acked /\ crashes' = crashes /\ bounds' = bounds
  BY DEF Enqueue, CanEnqueue
<1>3. \/ /\ wal' = [wal EXCEPT ![p] = Extended(wal[p], PacketRecord(pk))] /\ walErrors' = walErrors
         /\ pending' = [pending EXCEPT ![p] = Append(pending[p], pk)]
      \/ /\ wal' = wal \/ wal' = [wal EXCEPT ![p] = Extended(wal[p], PacketRecord(pk))]
         /\ walErrors' = walErrors + 1 /\ pending' = pending
  BY DEF Enqueue, WalWrites, WalFails
<1> HIDE DEF pk
<1>4. Extended(wal[p], PacketRecord(pk)) \in Replays
  <2>1. \A x \in PacketType : x.sequence \in Nat
    BY PacketFacts
  <2>2. wal[p] \in [status : Statuses, pending : Seq(PacketType)]
    BY <1>0, PeerFacts DEF Replays
  <2>3. Extended(wal[p], PacketRecord(pk)) \in [status : Statuses, pending : Seq(PacketType)]
    BY <1>1, <2>1, <2>2, WalPacket
  <2>4. QED
    BY <2>3 DEF Replays
<1>5. Append(pending[p], pk) \in Seq(PacketType) /\ Len(Append(pending[p], pk)) = Len(pending[p]) + 1
  BY <1>0, <1>1, PeerFacts
<1>6. wal' \in [Peers -> Replays] /\ walErrors' \in Nat
  <2>1. wal \in [Peers -> Replays] /\ walErrors \in Nat
    BY <1>0 DEF Types
  <2>2. [wal EXCEPT ![p] = Extended(wal[p], PacketRecord(pk))] \in [Peers -> Replays]
    BY <2>1, <1>4
  <2>3. QED
    BY <2>1, <2>2, <1>3
<1>7. pending' \in [Peers -> Seq(PacketType)]
  BY <1>0, <1>3, <1>5, ZenonT(60) DEF Types
<1>8. next_sequence' \in [Peers -> Nat \ {0}] /\ enqueued' \in [Peers -> Nat]
  BY <1>0, <1>2 DEF Types
<1>9. Types'
  BY <1>0, <1>2, <1>6, <1>7, <1>8, SameTypes DEF Types
<1>10. \A q \in Peers : SentBy(q)' = SentBy(q)
  BY <1>2, SameNet
<1>11. /\ \/ /\ wal'[p] = Extended(wal[p], PacketRecord(pk)) /\ walErrors' = walErrors
             /\ pending'[p] = Append(pending[p], pk)
          \/ /\ wal'[p] = wal[p] \/ wal'[p] = Extended(wal[p], PacketRecord(pk))
             /\ walErrors' = walErrors + 1 /\ pending'[p] = pending[p]
       /\ \A q \in Peers : q # p => wal'[q] = wal[q] /\ pending'[q] = pending[q]
  BY <1>0, <1>3 DEF Types
<1>12. /\ next_sequence'[p] = next_sequence[p] + 1 /\ enqueued'[p] = enqueued[p] + 1
       /\ \A q \in Peers : q # p => next_sequence'[q] = next_sequence[q] /\ enqueued'[q] = enqueued[q]
  BY <1>0, <1>2 DEF Types
<1>13. \A q \in Peers : q # p => Calm(q)
  BY <1>2, <1>10, <1>11, <1>12 DEF Calm
<1>14. Onward
  <2>1. walErrors' >= walErrors /\ crashes' >= crashes /\ agreed' >= agreed
    BY <1>0, <1>2, <1>11 DEF Types
  <2>2. QED
    BY <1>2, <1>10, <2>1 DEF Onward
<1>15. Bounds'
  <2>1. Len(pending'[p]) <= MaxPending
    <3>1. Len(pending[p]) \in Nat /\ MaxPending \in Nat
      BY <1>0, PeerFacts, ReplicatorAssumption
    <3>2. QED
      BY <3>1, <1>2, <1>5, <1>11
  <2>2. QED
    BY <1>2, <1>11, <2>1 DEF ReplicatorIInv, Bounds
<1>16. QED
  BY <1>1, <1>2, <1>9, <1>10, <1>11, <1>12, <1>13, <1>14, <1>15

\* Before any crash, what a peer has sent or queued has older numbers and
\* payloads than what it enqueues next.
LEMMA PacketsBelow ==
  ASSUME ReplicatorIInv, NEW p \in Peers, FirstLife(p)
  PROVE  \A x \in Packets(p) : /\ x.sequence \in Nat /\ x.sequence < next_sequence[p]
                               /\ x.payload \in Nat /\ x.payload <= enqueued[p]
<1>1. Types /\ Numbered(p) /\ PayloadsOnce(p)
  BY DEF ReplicatorIInv
<1>2. \A x \in Packets(p) : x \in PacketType
  BY <1>1, SentFacts
<1>3. \A x \in Packets(p) : x.sequence \in Nat /\ x.payload \in Nat
  BY <1>2, PacketFacts
<1>4. \A x \in Packets(p) : x.payload <= enqueued[p]
  BY <1>1 DEF PayloadsOnce, Known, Packets
<1>5. \A x \in SentBy(p) : x.sequence < next_sequence[p]
  BY DEF FirstLife, Passed
<1>6. \A i \in 1 .. Len(pending[p]) : pending[p][i].sequence < next_sequence[p]
  <2>1. QueueShape(p)
    BY <1>1, QueueFacts
  <2>2. TAKE i \in 1 .. Len(pending[p])
  <2>3. Len(in_flight[p]) \in Nat /\ Len(pending[p]) \in Nat
    BY <1>1, PeerFacts
  <2>4. /\ Len(QueueOf(p)) = Len(in_flight[p]) + Len(pending[p])
        /\ QueueOf(p)[Len(in_flight[p]) + i] = pending[p][i]
    BY <2>1 DEF QueueShape
  <2>a. Len(in_flight[p]) + i \in 1 .. Len(QueueOf(p))
    <3> DEFINE f == Len(in_flight[p])
               g == Len(pending[p])
    <3>1. i \in 1 .. g /\ f \in Nat /\ g \in Nat
      BY <2>2, <2>3
    <3> HIDE DEF f, g
    <3>2. f + i \in 1 .. f + g
      BY <3>1
    <3>3. QED
      BY <3>2, <2>4 DEF f, g
  <2>5. QED
    BY <2>4, <2>a, <1>1 DEF Numbered, Under
<1>7. \A x \in ToSet(pending[p]) : x.sequence < next_sequence[p]
  <2>1. ToSet(pending[p]) = {pending[p][i] : i \in 1 .. Len(pending[p])}
    BY <1>1, PeerFacts, ToSetFacts
  <2>2. QED
    BY <2>1, <1>6
<1>8. QED
  BY <1>3, <1>4, <1>5, <1>7 DEF Packets

LEMMA EnqueueKeeps ==
  ASSUME ReplicatorIInv, NEW p \in Peers, NEW kind \in bounds.kinds, NEW key \in Keys,
         Enqueue(p, kind, key)
  PROVE  ReplicatorIInv'
<1>1. PICK pk \in PacketType :
        /\ pk.sequence = next_sequence[p] /\ pk.ack = last_received[p]
        /\ pk.kind = kind /\ pk.key = key /\ pk.payload = enqueued[p] + 1
        /\ Types' /\ Bounds' /\ Onward
        /\ \A q \in Peers : q # p => Calm(q)
        /\ kind = "Delta" => PendingDelta(p, key) = {}
        /\ up[p] /\ up'[p] = up[p] /\ next_sequence'[p] = next_sequence[p] + 1
        /\ enqueued'[p] = enqueued[p] + 1
        /\ last_received'[p] = last_received[p] /\ last_ack_sent'[p] = last_ack_sent[p]
        /\ in_flight'[p] = in_flight[p] /\ session_nonce'[p] = session_nonce[p]
        /\ used'[p] = used[p] /\ delivered'[p] = delivered[p] /\ acked'[p] = acked[p]
        /\ agreed' = agreed /\ crashes' = crashes
        /\ \A q \in Peers : SentBy(q)' = SentBy(q)
        /\ \/ /\ wal'[p] = Extended(wal[p], PacketRecord(pk)) /\ walErrors' = walErrors
              /\ pending'[p] = Append(pending[p], pk)
           \/ /\ wal'[p] = wal[p] \/ wal'[p] = Extended(wal[p], PacketRecord(pk))
              /\ walErrors' = walErrors + 1 /\ pending'[p] = pending[p]
  BY EnqueueEffect
<1> DEFINE s == pending[p]
           t == pending'[p]
           w == wal[p].pending
           v == wal'[p].pending
<1>2. Types /\ Numbered(p) /\ PayloadsOnce(p) /\ Deliveries(p)
  BY DEF ReplicatorIInv
<1>3. /\ s \in Seq(PacketType) /\ Len(s) \in Nat /\ w \in Seq(PacketType) /\ Len(w) \in Nat
      /\ next_sequence[p] \in Nat /\ enqueued[p] \in Nat /\ last_received[p] \in Nat
      /\ walErrors \in Nat
      /\ Len(in_flight[p]) \in Nat
  BY <1>2, PeerFacts DEF Types
<1>4. \A x \in PacketType : x.sequence \in Nat /\ x.ack \in Nat /\ x.payload \in Nat
  BY PacketFacts
<1>5. Distinct(w) /\ Under(w, pk.sequence) /\ Distinct(QueueOf(p)) /\ Under(QueueOf(p), pk.sequence)
  BY <1>1, <1>2 DEF Numbered
\* The log.
<1>6. /\ \A j \in 1 .. Len(v) : v[j] = pk \/ \E k \in 1 .. Len(w) : v[j] = w[k]
      /\ Distinct(v)
      /\ Rising(w) => Rising(v)
      /\ wal'[p].status = "ok" =>
           /\ wal[p].status = "ok"
           /\ t = Append(s, pk) => \E j \in 1 .. Len(v) : v[j] = pk
           /\ \A k \in 1 .. Len(w) : \E j \in 1 .. Len(v) : v[j] = w[k]
  <2>1. CASE wal'[p] = wal[p] /\ t = s
    <3>1. t # Append(s, pk)
      BY <2>1, <1>3
    <3>2. QED
      BY <2>1, <3>1, <1>5
  <2>2. CASE wal'[p] = Extended(wal[p], PacketRecord(pk))
    <3>1. wal[p] \in [status : Statuses, pending : Seq(PacketType)]
      BY <1>2, PeerFacts DEF Replays
    <3> DEFINE e == Extended(wal[p], PacketRecord(pk))
    <3>2. WalGains(e, wal[p], pk)
      BY <1>4, <3>1, WalPacket
    <3> HIDE DEF e
    <3>3. wal'[p] = e
      BY <2>2 DEF e
    <3>4. \A k \in 1 .. Len(w) : w[k].sequence # pk.sequence
      BY <1>3, <1>4, <1>5 DEF Under
    <3>5. QED
      BY <3>2, <3>3, <3>4, <1>5 DEF WalGains
  <2>3. QED
    BY <1>1, <2>1, <2>2
\* The queues.
<1>7. /\ \A i \in 1 .. Len(t) : t[i] = pk \/ (i \in 1 .. Len(s) /\ t[i] = s[i])
      /\ t = s \/ Appended(t, s, pk)
      /\ t = Append(s, pk) => Appended(t, s, pk)
  <2>1. CASE t = s
    <3>1. t # Append(s, pk)
      BY <2>1, <1>3
    <3>2. QED
      BY <2>1, <3>1
  <2>2. CASE t = Append(s, pk)
    <3>1. Appended(t, s, pk)
      BY <2>2, <1>3 DEF Appended
    <3> HIDE DEF s, t
    <3>2. QED
      BY <3>1, <1>3 DEF Appended
  <2>3. QED
    BY <1>1, <2>1, <2>2
<1>a. t \in Seq(PacketType) /\ v \in Seq(PacketType)
  <2>1. pending'[p] \in Seq(PacketType') /\ wal'[p] \in Replays'
    BY <1>1 DEF Types
  <2>2. QED
    BY <2>1, <1>1, SameTypes DEF Onward, Replays
<1>b. \A x \in ToSet(t) : x \in ToSet(s) \/ x = pk
  <2>1. ToSet(t) = {t[i] : i \in 1 .. Len(t)} /\ ToSet(s) = {s[i] : i \in 1 .. Len(s)}
    BY <1>a, <1>3, ToSetFacts
  <2> HIDE DEF s, t
  <2>2. QED
    BY <2>1, <1>7
<1>8. QueueShape(p) /\ QueueShape(p)'
  BY <1>1, <1>2, QueueFacts, QueueFactsNext
<1>9. QueueOf(p)' = QueueOf(p) \/ Appended(QueueOf(p)', QueueOf(p), pk)
  <2>1. CASE t = s
    BY <2>1, <1>1 DEF QueueOf
  <2>2. CASE Appended(t, s, pk)
    <3> DEFINE Q == QueueOf(p)
               R == QueueOf(p)'
               f == Len(in_flight[p])
    <3>1. /\ Len(Q) = f + Len(s) /\ Len(Q) \in Nat /\ f \in Nat
          /\ \A i \in 1 .. f : Q[i] = in_flight[p][i].packet
          /\ \A i \in 1 .. Len(s) : Q[f + i] = s[i]
          /\ \A k \in 1 .. Len(Q) :
               \/ \E i \in 1 .. f : k = i /\ Q[k] = in_flight[p][i].packet
               \/ \E i \in 1 .. Len(s) : k = f + i /\ Q[k] = s[i]
      BY <1>3, <1>8 DEF QueueShape
    <3>2. /\ Len(R) = f + Len(t)
          /\ \A i \in 1 .. f : R[i] = in_flight[p][i].packet
          /\ \A i \in 1 .. Len(t) : R[f + i] = t[i]
      BY <1>1, <1>8, ZenonT(60) DEF QueueShape
    <3>3. /\ Len(t) = Len(s) + 1 /\ t[Len(s) + 1] = pk
          /\ \A i \in 1 .. Len(s) : i \in 1 .. Len(t) /\ t[i] = s[i]
      BY <2>2, <1>3 DEF Appended
    <3> HIDE DEF Q, R, f, s, t
    <3>4. Len(R) = Len(Q) + 1 /\ R[Len(Q) + 1] = pk
      <4>1. Len(s) + 1 \in 1 .. Len(t) /\ f + (Len(s) + 1) = Len(Q) + 1 /\ Len(R) = Len(Q) + 1
        BY <3>1, <3>2, <3>3, <1>3
      <4>2. R[f + (Len(s) + 1)] = pk
        BY <4>1, <3>2, <3>3
      <4>3. QED
        BY <4>1, <4>2
    <3>5. \A k \in 1 .. Len(Q) : R[k] = Q[k]
      BY <3>1, <3>2, <3>3
    <3>6. QED
      BY <3>4, <3>5 DEF Appended, Q, R
  <2>3. QED
    BY <1>7, <2>1, <2>2
<1>10. /\ Distinct(QueueOf(p)') /\ Under(QueueOf(p)', pk.sequence + 1)
       /\ Rising(QueueOf(p)) => Rising(QueueOf(p)')
  <2>1. CASE QueueOf(p)' = QueueOf(p)
    <3>1. Under(QueueOf(p), pk.sequence + 1)
      <4>1. QueueOf(p) \in Seq(PacketType)
        BY <1>8 DEF QueueShape
      <4>2. \A i \in 1 .. Len(QueueOf(p)) : QueueOf(p)[i].sequence \in Nat
        BY <4>1, <1>4
      <4>3. QED
        BY <4>2, <1>4, <1>5 DEF Under
    <3>2. QED
      BY <2>1, <3>1, <1>5
  <2>2. CASE Appended(QueueOf(p)', QueueOf(p), pk)
    <3>1. QueueOf(p) \in Seq(PacketType)
      BY <1>8 DEF QueueShape
    <3>2. QED
      BY <2>2, <3>1, <1>4, <1>5, AppendedKeeps
  <2>3. QED
    BY <1>9, <2>1, <2>2
<1>11. Under(v, pk.sequence + 1)
  <2>1. \A k \in 1 .. Len(w) : w[k].sequence \in Nat /\ w[k].sequence < pk.sequence
    BY <1>3, <1>4, <1>5 DEF Under
  <2> HIDE DEF v, w
  <2>2. QED
    BY <1>4, <1>6, <2>1 DEF Under
<1>12. Numbered(p)'
  BY <1>1, <1>2, <1>6, <1>10, <1>11 DEF Numbered
<1>13. PayloadsOnce(p)'
  <2>1. \A x \in Known(p)' : x \in Known(p) \/ x = pk
    <3>2. \A x \in ToSet(v) : x \in ToSet(w) \/ x = pk
      <4>1. ToSet(v) = {v[i] : i \in 1 .. Len(v)} /\ ToSet(w) = {w[i] : i \in 1 .. Len(w)}
        BY <1>a, <1>3, ToSetFacts
      <4> HIDE DEF v, w
      <4>2. QED
        BY <4>1, <1>6
    <3>3. QED
      BY <1>1, <1>b, <3>2 DEF Known
  <2>2. \A x \in Known(p)' :
          x \in Known(p) \/ (x.payload = enqueued[p] + 1 /\ x.sequence = pk.sequence)
    BY <1>1, <2>1
  <2>3. QED
    BY <1>1, <1>2, <2>2, PayloadsStep
<1>14. Deliveries(p)'
  <2>1. Other[p] \in Peers
    BY <1>2, PeerFacts
  <2>2. QED
    BY <2>1, <1>1, <1>2 DEF Deliveries
<1>15. crashes' <= 1 => Ordered1(p)'
  BY <1>1, <1>10 DEF ReplicatorIInv, Ordered1
<1>16. ASSUME crashes' = 0 PROVE FirstLife(p)
  BY <1>1, <1>16 DEF ReplicatorIInv
<1>17. \A x \in Packets(p)' : x \in Packets(p) \/ x = pk
  BY <1>1, <1>b DEF Packets
<1>18. \A i \in 1 .. Len(s) : s[i] \in PacketType
  BY <1>3
<1>19. ASSUME crashes' = 0 PROVE Moves(p)
  <2>1. ASSUME NEW n \in Nat, Passed(p, n) PROVE Passed(p, n)'
    <3>1. n < next_sequence[p] /\ \A i \in 1 .. Len(s) : n < s[i].sequence
      BY <2>1 DEF Passed
    <3> HIDE DEF s, t
    <3>2. n < next_sequence[p] + 1 /\ \A i \in 1 .. Len(t) : n < t[i].sequence
      <4>1. pk.sequence = next_sequence[p] /\ next_sequence[p] \in Nat
        BY <1>1, <1>3
      <4>2. n < pk.sequence /\ n < next_sequence[p] + 1
        BY <4>1, <3>1
      <4>3. \A i \in 1 .. Len(t) : t[i] = pk \/ (i \in 1 .. Len(s) /\ t[i] = s[i])
        BY <1>7
      <4>4. QED
        BY <3>1, <4>2, <4>3, Zenon
    <3>3. QED
      BY <3>2, <1>1 DEF Passed, t
  <2>2. Steady(p)' = Steady(p)
    BY <1>1 DEF Steady
  <2>3. QED
    BY <1>1, <1>3, <1>17, <2>1, <2>2 DEF Moves
<1>20. ASSUME crashes' = 0 PROVE Logged(p)'
  <2>1. Logged(p)
    BY <1>16, <1>20 DEF FirstLife
  <2>2. SUFFICES ASSUME wal'[p].status = "ok" PROVE
          /\ \A i \in 1 .. Len(t) : \E j \in 1 .. Len(v) : v[j].sequence = t[i].sequence
          /\ walErrors' = 0 =>
               \A i \in 1 .. Len(QueueOf(p)') : \E j \in 1 .. Len(v) :
                 v[j].sequence = QueueOf(p)'[i].sequence /\ v[j].payload = QueueOf(p)'[i].payload
    BY DEF Logged
  <2>3. /\ wal[p].status = "ok"
        /\ \A k \in 1 .. Len(w) : \E j \in 1 .. Len(v) : v[j] = w[k]
        /\ t = Append(s, pk) => \E j \in 1 .. Len(v) : v[j] = pk
    BY <1>6, <2>2
  <2>4. /\ \A i \in 1 .. Len(s) : \E j \in 1 .. Len(w) : w[j].sequence = s[i].sequence
        /\ walErrors = 0 =>
             \A i \in 1 .. Len(QueueOf(p)) : \E j \in 1 .. Len(w) :
               w[j].sequence = QueueOf(p)[i].sequence /\ w[j].payload = QueueOf(p)[i].payload
    BY <2>1, <2>3 DEF Logged
  <2> HIDE DEF v, w, s, t
  <2>5. CASE t = s /\ walErrors' = walErrors + 1
    <3>1. \A i \in 1 .. Len(s) : \E j \in 1 .. Len(v) : v[j].sequence = s[i].sequence
      BY <2>3, <2>4
    <3>2. QED
      BY <3>1, <2>5, <1>3
  <2>6. CASE Appended(t, s, pk) /\ walErrors' = walErrors /\ \E j \in 1 .. Len(v) : v[j] = pk
    <3>1. \A i \in 1 .. Len(s) : \E j \in 1 .. Len(v) : v[j].sequence = s[i].sequence
      BY <2>3, <2>4
    <3>2. \A i \in 1 .. Len(t) : \E j \in 1 .. Len(v) : v[j].sequence = t[i].sequence
      BY <3>1, <2>6, <1>7
    <3>3. ASSUME walErrors = 0, NEW i \in 1 .. Len(QueueOf(p))
          PROVE  \E j \in 1 .. Len(v) :
                   v[j].sequence = QueueOf(p)[i].sequence /\ v[j].payload = QueueOf(p)[i].payload
      BY <2>3, <2>4, <3>3
    <3>4. \A i \in 1 .. Len(QueueOf(p)') :
            QueueOf(p)'[i] = pk \/ (i \in 1 .. Len(QueueOf(p)) /\ QueueOf(p)'[i] = QueueOf(p)[i])
      <4>1. Len(QueueOf(p)) \in Nat
        BY <1>8 DEF QueueShape
      <4>2. QED
        BY <4>1, <1>9 DEF Appended
    <3>5. QED
      BY <2>6, <3>2, <3>3, <3>4
  <2>7. \/ t = Append(s, pk) /\ walErrors' = walErrors
        \/ t = s /\ walErrors' = walErrors + 1
    BY <1>1 DEF s, t
  <2>8. QED
    BY <1>7, <2>3, <2>5, <2>6, <2>7
<1>21. ASSUME crashes' = 0 PROVE Deltas(p)'
  <2>1. Deltas(p)
    BY <1>16, <1>21 DEF FirstLife
  <2>2. \A x \in Packets(p) : /\ x.sequence \in Nat /\ x.sequence < pk.sequence
                             /\ x.payload \in Nat /\ x.payload <= enqueued[p]
    BY <1>1, <1>16, <1>21, PacketsBelow
  <2>3. ASSUME NEW x \in Packets(p)', NEW y \in Packets(p)',
               x.kind = "Delta", y.kind = "Delta", x.key = y.key, x.sequence < y.sequence
        PROVE  x.payload < y.payload
    <3>1. CASE x \in Packets(p) /\ y \in Packets(p)
      BY <2>1, <2>3, <3>1 DEF Deltas
    <3>2. CASE x \in Packets(p) /\ y = pk
      BY <1>1, <1>3, <2>2, <3>2
    <3>3. CASE x = pk
      BY <1>3, <1>4, <1>17, <2>2, <2>3, <3>3, SMTT(30)
    <3>4. QED
      BY <1>17, <3>1, <3>2, <3>3
  <2>4. ASSUME NEW i \in 1 .. Len(t), NEW j \in 1 .. Len(t),
               t[i].kind = "Delta", t[j].kind = "Delta", t[i].key = t[j].key
        PROVE  i = j
    <3>1. \A k \in 1 .. Len(s) : ~(pk.kind = "Delta" /\ s[k].kind = "Delta" /\ s[k].key = pk.key)
      <4>1. DOMAIN s = 1 .. Len(s)
        BY <1>3
      <4>2. QED
        BY <1>1, <4>1 DEF PendingDelta
    <3>2. \A a, b \in 1 .. Len(s) :
            s[a].kind = "Delta" /\ s[b].kind = "Delta" /\ s[a].key = s[b].key => a = b
      BY <2>1 DEF Deltas
    <3> HIDE DEF s, t
    <3>3. CASE t = s
      BY <2>4, <3>2, <3>3
    <3>4. CASE Appended(t, s, pk)
      <4>1. \A k \in 1 .. Len(t) : (k \in 1 .. Len(s) /\ t[k] = s[k]) \/ (k = Len(s) + 1 /\ t[k] = pk)
        BY <3>4, <1>3 DEF Appended
      <4>2. QED
        BY <4>1, <3>1, <3>2, <2>4
    <3>5. QED
      BY <1>7, <3>3, <3>4
  <2>5. QED
    BY <2>3, <2>4 DEF Deltas
<1>22. ASSUME crashes' = 0 PROVE Locally(p)
  <2>1. Pristine(p)'
    BY <1>1 DEF Pristine
  <2>2. QED
    BY <1>1, <1>6, <1>16, <1>20, <1>21, <1>22, <2>1 DEF Locally, FirstLife
<1>23. \A q \in Peers : Calm(q) \/ Holds(q)
  BY <1>1, <1>12, <1>13, <1>14, <1>15, <1>19, <1>22 DEF Holds
<1>24. QED
  BY <1>1, <1>23, Assemble

LEMMA MinFacts ==
  ASSUME NEW S \in SUBSET Nat, S # {}
  PROVE  Min(S) \in S /\ \A y \in S : Min(S) <= y
<1>1. \E x \in S : \A y \in S : x <= y
  BY LeastNat
<1>2. QED
  BY <1>1 DEF Min

\* t is s with another payload, e, in place i.
Replaced(t, s, i, e) ==
  /\ Len(t) = Len(s)
  /\ \A k \in 1 .. Len(s) : k # i => t[k] = s[k]
  /\ t[i].sequence = s[i].sequence /\ t[i].ack = s[i].ack
  /\ t[i].kind = s[i].kind /\ t[i].key = s[i].key /\ t[i].payload = e

\* What a coalescing enqueue_delta does to its peer.
LEMMA CoalesceEffect ==
  ASSUME ReplicatorIInv, NEW p \in Peers, NEW key \in Keys, Coalesce(p, key)
  PROVE  \E i \in 1 .. Len(pending[p]), pk \in PacketType :
           /\ pk.sequence = pending[p][i].sequence /\ pk.payload = enqueued[p] + 1
           /\ pending[p][i].kind = "Delta"
           /\ Types' /\ Bounds' /\ Onward
           /\ \A q \in Peers : q # p => Calm(q)
           /\ up[p] /\ up'[p] = up[p] /\ next_sequence'[p] = next_sequence[p]
           /\ enqueued'[p] = enqueued[p] + 1
           /\ last_received'[p] = last_received[p] /\ last_ack_sent'[p] = last_ack_sent[p]
           /\ in_flight'[p] = in_flight[p] /\ session_nonce'[p] = session_nonce[p]
           /\ used'[p] = used[p] /\ delivered'[p] = delivered[p] /\ acked'[p] = acked[p]
           /\ agreed' = agreed /\ crashes' = crashes
           /\ \A q \in Peers : SentBy(q)' = SentBy(q)
           /\ \/ /\ wal'[p] = Extended(wal[p], PacketRecord(pk)) /\ walErrors' = walErrors
                 /\ Replaced(pending'[p], pending[p], i, enqueued[p] + 1)
              \/ /\ wal'[p] = wal[p] \/ wal'[p] = Extended(wal[p], PacketRecord(pk))
                 /\ walErrors' = walErrors + 1 /\ pending'[p] = pending[p]
<1> DEFINE i == Min(PendingDelta(p, key))
           s == pending[p]
           pk == Packet(p, "Delta", key, s[i].sequence)
           t == [s EXCEPT ![i].payload = enqueued[p] + 1]
<1>0. Types
  BY DEF ReplicatorIInv
<1>1. s \in Seq(PacketType) /\ DOMAIN s = 1 .. Len(s) /\ Len(s) \in Nat
  BY <1>0, PeerFacts
<1>2. i \in 1 .. Len(s) /\ s[i].kind = "Delta" /\ s[i].key = key
  <2>a. PendingDelta(p, key) # {}
    BY DEF Coalesce
  <2>b. PendingDelta(p, key) \in SUBSET Nat
    BY <1>1 DEF PendingDelta
  <2>1. PendingDelta(p, key) # {} /\ PendingDelta(p, key) \in SUBSET Nat
    BY <2>a, <2>b
  <2>2. i \in PendingDelta(p, key)
    BY <2>1, MinFacts
  <2> HIDE DEF i
  <2>3. QED
    BY <2>2, <1>1 DEF PendingDelta
<1>3. /\ up[p]
      /\ enqueued' = [enqueued EXCEPT ![p] = @ + 1] /\ next_sequence' = next_sequence
      /\ up' = up /\ mode' = mode /\ last_received' = last_received
      /\ last_ack_sent' = last_ack_sent /\ in_flight' = in_flight
      /\ session_nonce' = session_nonce /\ agreed' = agreed /\ used' = used /\ net' = net
      /\ delivered' = delivered /\ acked' = acked /\ crashes' = crashes /\ bounds' = bounds
  BY DEF Coalesce, CanEnqueue
<1>4. \/ /\ wal' = [wal EXCEPT ![p] = Extended(wal[p], PacketRecord(pk))] /\ walErrors' = walErrors
         /\ pending' = [pending EXCEPT ![p] = t]
      \/ /\ wal' = wal \/ wal' = [wal EXCEPT ![p] = Extended(wal[p], PacketRecord(pk))]
         /\ walErrors' = walErrors + 1 /\ pending' = pending
  <2>1. pk.payload = enqueued[p] + 1
    BY DEF Packet
  <2>2. QED
    BY <2>1 DEF Coalesce, WalWrites, WalFails
<1> HIDE DEF i
<1>5. s[i] \in PacketType /\ s[i].sequence \in Nat /\ enqueued[p] \in Nat
  BY <1>0, <1>1, <1>2, PacketFacts, PeerFacts
<1>6. /\ pk \in PacketType /\ pk.sequence = s[i].sequence /\ pk.payload = enqueued[p] + 1
  <2>1. "Delta" \in bounds.kinds /\ last_received[p] \in Nat
    BY <1>0, <1>2, <1>5, PeerFacts DEF PacketType
  <2>2. QED
    BY <1>5, <2>1 DEF Packet, PacketType
<1>7. t \in Seq(PacketType) /\ Replaced(t, s, i, enqueued[p] + 1)
  <2> DEFINE r == [s[i] EXCEPT !.payload = enqueued[p] + 1]
  <2>1. /\ r \in PacketType /\ r.sequence = s[i].sequence /\ r.ack = s[i].ack /\ r.kind = s[i].kind
        /\ r.key = s[i].key /\ r.payload = enqueued[p] + 1
    BY <1>5 DEF PacketType
  <2>2. t = [s EXCEPT ![i] = r]
    OBVIOUS
  <2> HIDE DEF r, t
  <2>3. t \in Seq(PacketType) /\ Len(t) = Len(s) /\ t[i] = r
        /\ \A k \in 1 .. Len(s) : k # i => t[k] = s[k]
    BY <1>1, <1>2, <2>1, <2>2
  <2>4. QED
    BY <2>1, <2>3 DEF Replaced
<1> HIDE DEF pk, t
<1>8. Extended(wal[p], PacketRecord(pk)) \in Replays
  <2>1. \A x \in PacketType : x.sequence \in Nat
    BY PacketFacts
  <2>2. wal[p] \in [status : Statuses, pending : Seq(PacketType)]
    BY <1>0, PeerFacts DEF Replays
  <2>3. Extended(wal[p], PacketRecord(pk)) \in [status : Statuses, pending : Seq(PacketType)]
    BY <1>6, <2>1, <2>2, WalPacket
  <2>4. QED
    BY <2>3 DEF Replays
<1>9. wal' \in [Peers -> Replays] /\ walErrors' \in Nat
  <2>1. wal \in [Peers -> Replays] /\ walErrors \in Nat
    BY <1>0 DEF Types
  <2>2. [wal EXCEPT ![p] = Extended(wal[p], PacketRecord(pk))] \in [Peers -> Replays]
    BY <2>1, <1>8
  <2>3. QED
    BY <2>1, <2>2, <1>4
<1>10. pending' \in [Peers -> Seq(PacketType)]
  BY <1>0, <1>4, <1>7 DEF Types
<1>11. enqueued' \in [Peers -> Nat]
  BY <1>0, <1>3 DEF Types
<1>12. Types'
  BY <1>0, <1>3, <1>9, <1>10, <1>11, SameTypes DEF Types
<1>13. \A q \in Peers : SentBy(q)' = SentBy(q)
  BY <1>3, SameNet
<1>14. /\ \/ /\ wal'[p] = Extended(wal[p], PacketRecord(pk)) /\ walErrors' = walErrors
             /\ pending'[p] = t
          \/ /\ wal'[p] = wal[p] \/ wal'[p] = Extended(wal[p], PacketRecord(pk))
             /\ walErrors' = walErrors + 1 /\ pending'[p] = pending[p]
       /\ \A q \in Peers : q # p => wal'[q] = wal[q] /\ pending'[q] = pending[q]
  BY <1>0, <1>4 DEF Types
<1>15. /\ enqueued'[p] = enqueued[p] + 1
       /\ \A q \in Peers : q # p => enqueued'[q] = enqueued[q]
  BY <1>0, <1>3 DEF Types
<1>16. \A q \in Peers : q # p => Calm(q)
  BY <1>3, <1>13, <1>14, <1>15 DEF Calm
<1>17. Onward
  <2>1. walErrors' >= walErrors /\ crashes' >= crashes /\ agreed' >= agreed
    BY <1>0, <1>3, <1>14 DEF Types
  <2>2. QED
    BY <1>3, <1>13, <2>1 DEF Onward
<1>18. Bounds'
  <2>1. Len(pending'[p]) = Len(pending[p])
    BY <1>7, <1>14 DEF Replaced
  <2>2. QED
    BY <1>3, <1>14, <2>1 DEF ReplicatorIInv, Bounds
<1>19. QED
  BY <1>2, <1>3, <1>6, <1>7, <1>12, <1>13, <1>14, <1>15, <1>16, <1>17, <1>18

LEMMA CoalesceKeeps ==
  ASSUME ReplicatorIInv, NEW p \in Peers, NEW key \in Keys, Coalesce(p, key)
  PROVE  ReplicatorIInv'
<1>1. PICK i \in 1 .. Len(pending[p]), pk \in PacketType :
        /\ pk.sequence = pending[p][i].sequence /\ pk.payload = enqueued[p] + 1
        /\ pending[p][i].kind = "Delta"
        /\ Types' /\ Bounds' /\ Onward
        /\ \A q \in Peers : q # p => Calm(q)
        /\ up[p] /\ up'[p] = up[p] /\ next_sequence'[p] = next_sequence[p]
        /\ enqueued'[p] = enqueued[p] + 1
        /\ last_received'[p] = last_received[p] /\ last_ack_sent'[p] = last_ack_sent[p]
        /\ in_flight'[p] = in_flight[p] /\ session_nonce'[p] = session_nonce[p]
        /\ used'[p] = used[p] /\ delivered'[p] = delivered[p] /\ acked'[p] = acked[p]
        /\ agreed' = agreed /\ crashes' = crashes
        /\ \A q \in Peers : SentBy(q)' = SentBy(q)
        /\ \/ /\ wal'[p] = Extended(wal[p], PacketRecord(pk)) /\ walErrors' = walErrors
              /\ Replaced(pending'[p], pending[p], i, enqueued[p] + 1)
           \/ /\ wal'[p] = wal[p] \/ wal'[p] = Extended(wal[p], PacketRecord(pk))
              /\ walErrors' = walErrors + 1 /\ pending'[p] = pending[p]
  BY CoalesceEffect
<1> DEFINE s == pending[p]
           t == pending'[p]
           w == wal[p].pending
           v == wal'[p].pending
           Q == QueueOf(p)
           R == QueueOf(p)'
<1>2. Types /\ Numbered(p) /\ PayloadsOnce(p) /\ Deliveries(p)
  BY DEF ReplicatorIInv
<1>3. /\ s \in Seq(PacketType) /\ Len(s) \in Nat /\ w \in Seq(PacketType) /\ Len(w) \in Nat
      /\ next_sequence[p] \in Nat /\ enqueued[p] \in Nat /\ last_received[p] \in Nat
      /\ walErrors \in Nat /\ Len(in_flight[p]) \in Nat
  BY <1>2, PeerFacts DEF Types
<1>4. \A x \in PacketType : x.sequence \in Nat /\ x.ack \in Nat /\ x.payload \in Nat
  BY PacketFacts
<1>5. Distinct(w) /\ Under(w, next_sequence[p]) /\ Distinct(Q) /\ Under(Q, next_sequence[p])
  BY <1>2 DEF Numbered
<1>6. t \in Seq(PacketType) /\ v \in Seq(PacketType)
  <2>1. pending'[p] \in Seq(PacketType') /\ wal'[p] \in Replays'
    BY <1>1 DEF Types
  <2>2. QED
    BY <2>1, <1>1, SameTypes DEF Onward, Replays
<1>7. QueueShape(p) /\ QueueShape(p)'
  BY <1>1, <1>2, QueueFacts, QueueFactsNext
\* The queues: the numbers stay where they are.
<1>8. t = s \/ Replaced(t, s, i, enqueued[p] + 1)
  BY <1>1
<1>9. /\ Len(t) = Len(s)
      /\ \A k \in 1 .. Len(s) : t[k].sequence = s[k].sequence /\ t[k].ack = s[k].ack
                                /\ t[k].kind = s[k].kind /\ t[k].key = s[k].key
      /\ \A k \in 1 .. Len(s) : k # i => t[k] = s[k]
      /\ t[i] = s[i] \/ t[i].payload = enqueued[p] + 1
  <2> HIDE DEF s, t
  <2>1. QED
    BY <1>8 DEF Replaced
<1>10. /\ Len(R) = Len(Q) /\ Len(Q) \in Nat
       /\ \A k \in 1 .. Len(Q) : R[k].sequence = Q[k].sequence
       /\ \A k \in 1 .. Len(Q) : R[k] = Q[k] \/ (R[k] = t[i] /\ Q[k] = s[i])
  <2> DEFINE f == Len(in_flight[p])
  <2>1. /\ Len(Q) = f + Len(s) /\ Len(Q) \in Nat /\ f \in Nat
        /\ \A k \in 1 .. Len(Q) :
             \/ \E j \in 1 .. f : k = j /\ Q[k] = in_flight[p][j].packet
             \/ \E j \in 1 .. Len(s) : k = f + j /\ Q[k] = s[j]
    BY <1>3, <1>7 DEF QueueShape
  <2>2. /\ Len(R) = f + Len(t)
        /\ \A j \in 1 .. f : R[j] = in_flight[p][j].packet
        /\ \A j \in 1 .. Len(t) : R[f + j] = t[j]
    BY <1>1, <1>7, ZenonT(60) DEF QueueShape
  <2> HIDE DEF Q, R, f, s, t
  <2>3. ASSUME NEW k \in 1 .. Len(Q)
        PROVE  R[k].sequence = Q[k].sequence /\ (R[k] = Q[k] \/ (R[k] = t[i] /\ Q[k] = s[i]))
    <3>1. CASE \E j \in 1 .. f : k = j /\ Q[k] = in_flight[p][j].packet
      BY <3>1, <2>2
    <3>2. CASE \E j \in 1 .. Len(s) : k = f + j /\ Q[k] = s[j]
      BY <3>2, <2>2, <1>9
    <3>3. QED
      BY <2>1, <3>1, <3>2
  <2>4. QED
    BY <2>1, <2>2, <2>3, <1>9
<1>11. Distinct(R) /\ Under(R, next_sequence[p]) /\ (Rising(Q) => Rising(R))
  <2> HIDE DEF Q, R
  <2>1. Distinct(R)
    BY <1>5, <1>10 DEF Distinct
  <2>2. Under(R, next_sequence[p])
    BY <1>5, <1>10 DEF Under
  <2>3. Rising(Q) => Rising(R)
    BY <1>10 DEF Rising
  <2>4. QED
    BY <2>1, <2>2, <2>3
<1>12. \A k \in 1 .. Len(s) : s[k].sequence < next_sequence[p] /\ s[k] \in PacketType
  <2> DEFINE f == Len(in_flight[p])
  <2>1. Len(Q) = f + Len(s) /\ f \in Nat /\ \A k \in 1 .. Len(s) : Q[f + k] = s[k]
    BY <1>3, <1>7 DEF QueueShape
  <2>2. \A k \in 1 .. Len(s) : s[k] \in PacketType
    BY <1>3
  <2> HIDE DEF Q, f, s
  <2>3. \A k \in 1 .. Len(s) : f + k \in 1 .. Len(Q)
    BY <1>3, <2>1
  <2>4. QED
    BY <1>5, <2>1, <2>2, <2>3 DEF Under
\* The log.
<1>13. wal'[p] = wal[p] \/ WalGains(wal'[p], wal[p], pk)
  <2>1. wal[p] \in [status : Statuses, pending : Seq(PacketType)]
    BY <1>2, PeerFacts DEF Replays
  <2>2. WalGains(Extended(wal[p], PacketRecord(pk)), wal[p], pk)
    BY <1>4, <2>1, WalPacket
  <2>3. QED
    BY <1>1, <2>2
<1>14. \A j \in 1 .. Len(v) : v[j] = pk \/ \E k \in 1 .. Len(w) : v[j] = w[k]
  BY <1>13 DEF WalGains
<1>15. Distinct(v) /\ Under(v, next_sequence[p])
  <2>1. Distinct(v)
    BY <1>5, <1>13 DEF WalGains
  <2>2. pk.sequence < next_sequence[p]
    BY <1>1, <1>12
  <2> HIDE DEF v, w
  <2>3. Under(v, next_sequence[p])
    BY <1>5, <1>14, <2>2 DEF Under
  <2>4. QED
    BY <2>1, <2>3
<1>16. Numbered(p)'
  BY <1>1, <1>2, <1>11, <1>15 DEF Numbered
<1>17. \A x \in ToSet(t) : x \in ToSet(s) \/ x = t[i]
  <2>1. ToSet(t) = {t[k] : k \in 1 .. Len(t)} /\ ToSet(s) = {s[k] : k \in 1 .. Len(s)}
    BY <1>3, <1>6, ToSetFacts
  <2> HIDE DEF s, t
  <2>2. QED
    BY <2>1, <1>9
<1>18. s[i] \in ToSet(s) /\ t[i] \in ToSet(t)
  <2>1. ToSet(t) = {t[k] : k \in 1 .. Len(t)} /\ ToSet(s) = {s[k] : k \in 1 .. Len(s)}
    BY <1>3, <1>6, ToSetFacts
  <2>2. i \in 1 .. Len(s) /\ i \in 1 .. Len(t)
    BY <1>9
  <2>3. QED
    BY <2>1, <2>2
<1>19. PayloadsOnce(p)'
  <2>1. \A x \in ToSet(v) : x \in ToSet(w) \/ x = pk
    <3>1. ToSet(v) = {v[k] : k \in 1 .. Len(v)} /\ ToSet(w) = {w[k] : k \in 1 .. Len(w)}
      BY <1>3, <1>6, ToSetFacts
    <3> HIDE DEF v, w
    <3>2. QED
      BY <3>1, <1>14
  <2>2. t[i] \in ToSet(s) \/ (t[i].payload = enqueued[p] + 1 /\ t[i].sequence = pk.sequence)
    BY <1>1, <1>9, <1>18
  <2>3. \A x \in Known(p)' :
          x \in Known(p) \/ (x.payload = enqueued[p] + 1 /\ x.sequence = pk.sequence)
    BY <1>1, <1>17, <2>1, <2>2 DEF Known
  <2>4. QED
    BY <1>1, <1>2, <2>3, PayloadsStep
<1>20. Deliveries(p)'
  <2>1. Other[p] \in Peers
    BY <1>2, PeerFacts
  <2>2. QED
    BY <2>1, <1>1, <1>2 DEF Deliveries
<1>21. crashes' <= 1 => Ordered1(p)'
  BY <1>1, <1>11 DEF ReplicatorIInv, Ordered1
<1>22. ASSUME crashes' = 0 PROVE FirstLife(p)
  BY <1>1, <1>22 DEF ReplicatorIInv
<1>23. ASSUME crashes' = 0 PROVE Moves(p)
  <2>1. ASSUME NEW n \in Nat, Passed(p, n) PROVE Passed(p, n)'
    <3>1. n < next_sequence[p] /\ \A k \in 1 .. Len(s) : n < s[k].sequence
      BY <2>1 DEF Passed
    <3>2. \A k \in 1 .. Len(t) : n < t[k].sequence
      BY <3>1, <1>9
    <3>3. QED
      BY <3>1, <3>2, <1>1 DEF Passed
  <2>2. Steady(p)' = Steady(p)
    BY <1>1 DEF Steady
  <2>3. \A x \in Packets(p)' : \E y \in Packets(p) : x.ack = y.ack
    <3>1. t[i].ack = s[i].ack
      BY <1>9
    <3>2. QED
      BY <1>1, <1>17, <1>18, <3>1 DEF Packets
  <2>4. QED
    BY <1>1, <1>3, <2>1, <2>2, <2>3 DEF Moves
<1>24. ASSUME crashes' = 0 PROVE Rising(v) /\ Logged(p)'
  <2>1. Logged(p) /\ Rising(w)
    BY <1>22, <1>24 DEF FirstLife
  <2>2. Rising(v)
    <3>1. wal[p].status = "ok" => \E k \in 1 .. Len(w) : w[k].sequence = pk.sequence
      BY <2>1, <1>1 DEF Logged
    <3>2. QED
      BY <2>1, <3>1, <1>13 DEF WalGains
  <2>3. SUFFICES ASSUME wal'[p].status = "ok" PROVE
          /\ \A k \in 1 .. Len(t) : \E j \in 1 .. Len(v) : v[j].sequence = t[k].sequence
          /\ walErrors' = 0 =>
               \A k \in 1 .. Len(R) : \E j \in 1 .. Len(v) :
                 v[j].sequence = R[k].sequence /\ v[j].payload = R[k].payload
    BY <2>2 DEF Logged
  <2>4. wal[p].status = "ok"
    BY <1>13, <2>3 DEF WalGains
  <2>5. /\ \A k \in 1 .. Len(s) : \E j \in 1 .. Len(w) : w[j].sequence = s[k].sequence
        /\ walErrors = 0 =>
             \A k \in 1 .. Len(Q) : \E j \in 1 .. Len(w) :
               w[j].sequence = Q[k].sequence /\ w[j].payload = Q[k].payload
    BY <2>1, <2>4 DEF Logged
  <2>6. \A k \in 1 .. Len(w) : \E j \in 1 .. Len(v) :
          /\ v[j].sequence = w[k].sequence
          /\ w[k].sequence # pk.sequence => v[j] = w[k]
    <3>1. CASE wal'[p] = wal[p]
      BY <3>1
    <3>2. CASE WalGains(wal'[p], wal[p], pk)
      <4>1. /\ \E j \in 1 .. Len(v) : v[j] = pk
            /\ \A k \in 1 .. Len(w) : w[k].sequence # pk.sequence =>
                 \E j \in 1 .. Len(v) : v[j] = w[k]
        BY <3>2, <2>3 DEF WalGains
      <4> HIDE DEF v, w
      <4>2. QED
        BY <4>1
    <3>3. QED
      BY <1>13, <3>1, <3>2
  <2>7. walErrors' = 0 =>
          walErrors = 0 /\ WalGains(wal'[p], wal[p], pk) /\ Replaced(t, s, i, enqueued[p] + 1)
    <3>1. wal[p] \in [status : Statuses, pending : Seq(PacketType)]
      BY <1>2, PeerFacts DEF Replays
    <3>2. WalGains(Extended(wal[p], PacketRecord(pk)), wal[p], pk)
      BY <1>4, <3>1, WalPacket
    <3>3. QED
      BY <1>1, <1>3, <3>2
  <2>8. \A k \in 1 .. Len(t) : \E j \in 1 .. Len(v) : v[j].sequence = t[k].sequence
    <3> HIDE DEF s, t, v, w
    <3>1. TAKE k \in 1 .. Len(t)
    <3>2. k \in 1 .. Len(s) /\ t[k].sequence = s[k].sequence
      BY <3>1, <1>9
    <3>3. PICK j \in 1 .. Len(w) : w[j].sequence = s[k].sequence
      BY <3>2, <2>5
    <3>4. PICK m \in 1 .. Len(v) : v[m].sequence = w[j].sequence
      BY <3>3, <2>6
    <3>5. QED
      BY <3>2, <3>3, <3>4
  <2>9. ASSUME walErrors' = 0, NEW k \in 1 .. Len(R)
        PROVE  \E j \in 1 .. Len(v) : v[j].sequence = R[k].sequence /\ v[j].payload = R[k].payload
    <3>1. \E j \in 1 .. Len(v) : v[j] = pk
      BY <2>3, <2>7, <2>9 DEF WalGains
    <3>2. t[i].payload = pk.payload /\ t[i].sequence = pk.sequence
      BY <1>1, <2>7, <2>9 DEF Replaced
    <3>3. k \in 1 .. Len(Q) /\ R[k].sequence = Q[k].sequence
          /\ (R[k] = Q[k] \/ (R[k] = t[i] /\ Q[k] = s[i]))
      BY <1>10, <2>9
    <3>a. pk.sequence = s[i].sequence
      BY <1>1
    <3> HIDE DEF s, t, v, w, Q, R
    <3>4. CASE R[k] = t[i]
      BY <3>1, <3>2, <3>4
    <3>5. CASE R[k] = Q[k] /\ Q[k].sequence # pk.sequence
      <4>1. PICK j \in 1 .. Len(w) : w[j].sequence = Q[k].sequence /\ w[j].payload = Q[k].payload
        BY <2>5, <2>7, <2>9, <3>3
      <4>2. PICK m \in 1 .. Len(v) : v[m] = w[j]
        BY <4>1, <2>6, <3>5
      <4>3. QED
        BY <4>1, <4>2, <3>5
    <3>6. CASE R[k] = Q[k] /\ Q[k].sequence = pk.sequence
      <4> DEFINE m == Len(in_flight[p]) + i
      <4>1. m \in 1 .. Len(Q) /\ Q[m] = s[i] /\ R[m] = t[i]
        <5>1. /\ Len(Q) = Len(in_flight[p]) + Len(s) /\ Q[m] = s[i] /\ i \in 1 .. Len(s)
          BY <1>7 DEF QueueShape, Q, s
        <5>2. R[m] = t[i]
          <6>1. i \in 1 .. Len(t)
            BY <5>1, <1>9
          <6>2. QED
            BY <6>1, <1>1, <1>7 DEF QueueShape, R, t
        <5>3. m \in 1 .. Len(Q)
          <6> DEFINE f == Len(in_flight[p])
                     g == Len(s)
          <6>1. i \in 1 .. g /\ f \in Nat /\ g \in Nat /\ m = f + i /\ Len(Q) = f + g
            BY <5>1, <1>3 DEF s
          <6> HIDE DEF f, g, m
          <6>2. QED
            BY <6>1
        <5>4. QED
          BY <5>1, <5>2, <5>3
      <4> HIDE DEF m
      <4>2. m = k
        BY <4>1, <3>3, <3>6, <3>a, <1>5 DEF Distinct
      <4>3. QED
        BY <4>1, <4>2, <3>4
    <3>7. QED
      BY <3>3, <3>4, <3>5, <3>6
  <2>10. QED
    BY <2>8, <2>9
<1>25. ASSUME crashes' = 0 PROVE Deltas(p)'
  <2>1. Deltas(p)
    BY <1>22, <1>25 DEF FirstLife
  <2>2. \A x \in Packets(p) : x.payload \in Nat /\ x.payload <= enqueued[p]
    BY <1>22, <1>25, PacketsBelow
  <2>3. \A a, b \in 1 .. Len(t) :
          t[a].kind = "Delta" /\ t[b].kind = "Delta" /\ t[a].key = t[b].key => a = b
    <3>1. \A a, b \in 1 .. Len(s) :
            s[a].kind = "Delta" /\ s[b].kind = "Delta" /\ s[a].key = s[b].key => a = b
      BY <2>1 DEF Deltas
    <3> HIDE DEF s, t
    <3>2. QED
      BY <3>1, <1>9
  <2>4. \A x \in Packets(p)' : x \in Packets(p) \/ x = t[i]
    BY <1>1, <1>17 DEF Packets
  <2>5. t[i] \in Packets(p) \/ t[i].payload = enqueued[p] + 1
    BY <1>9, <1>18 DEF Packets
  <2>6. ASSUME NEW x \in Packets(p)', NEW y \in Packets(p)',
               x.kind = "Delta", y.kind = "Delta", x.key = y.key, x.sequence < y.sequence
        PROVE  x.payload < y.payload
    <3>1. CASE x \in Packets(p) /\ y \in Packets(p)
      BY <2>1, <2>6, <3>1 DEF Deltas
    <3>2. CASE x \in Packets(p) /\ y = t[i] /\ t[i].payload = enqueued[p] + 1
      BY <1>3, <2>2, <3>2
    <3>3. CASE x = t[i]
      <4>1. x.sequence = s[i].sequence /\ x.key = s[i].key /\ s[i].sequence \in Nat
        BY <1>4, <1>9, <1>12, <3>3
      <4>2. CASE y \in SentBy(p)
        <5>1. y.sequence < s[i].sequence
          BY <1>22, <1>25, <4>2 DEF FirstLife, Passed
        <5>2. y.sequence \in Nat
          BY <4>2, <1>2, <1>4, SentFacts
        <5>3. QED
          BY <5>1, <5>2, <4>1, <2>6
      <4>3. CASE y \in ToSet(t)
        <5>1. ToSet(t) = {t[k] : k \in 1 .. Len(t)}
          BY <1>6, ToSetFacts
        <5>2. PICK k \in 1 .. Len(t) : y = t[k]
          BY <4>3, <5>1
        <5>3. k = i
          <6>1. i \in 1 .. Len(t)
            BY <1>9
          <6>2. QED
            BY <5>2, <6>1, <2>3, <2>6, <3>3
        <5>4. QED
          BY <5>2, <5>3, <3>3, <2>6, <4>1
      <4>4. QED
        BY <1>1, <4>2, <4>3 DEF Packets
    <3>4. QED
      BY <2>4, <2>5, <3>1, <3>2, <3>3
  <2>7. QED
    BY <2>3, <2>6 DEF Deltas
<1>26. ASSUME crashes' = 0 PROVE Locally(p)
  <2>1. Pristine(p)'
    BY <1>1 DEF Pristine
  <2>2. QED
    BY <1>1, <1>22, <1>24, <1>25, <1>26, <2>1 DEF Locally, FirstLife
<1>27. \A q \in Peers : Calm(q) \/ Holds(q)
  BY <1>1, <1>16, <1>19, <1>20, <1>21, <1>23, <1>26 DEF Holds
<1>28. QED
  BY <1>1, <1>27, Assemble

\* The items of a pump.
LEMMA ItemFacts ==
  /\ \A x \in Items : /\ Aged(x) \in Items /\ Aged(x).packet = x.packet
                      /\ Due(Aged(x)) => /\ Resent(Aged(x)) \in Items
                                         /\ Resent(Aged(x)).packet = x.packet
  /\ \A q \in PacketType : InFlight(q) \in Items /\ InFlight(q).packet = q
<1>1. ResendAfter \in Nat /\ MaxRetries \in Nat
  BY ReplicatorAssumption
<1>2. ASSUME NEW x \in Items
      PROVE  /\ Aged(x) \in Items /\ Aged(x).packet = x.packet
             /\ Due(Aged(x)) => /\ Resent(Aged(x)) \in Items
                                /\ Resent(Aged(x)).packet = x.packet
  <2>1. x.packet \in PacketType /\ x.age \in 0 .. ResendAfter /\ x.retries \in 0 .. MaxRetries
    BY DEF Items
  <2>2. /\ Aged(x) \in Items /\ Aged(x).packet = x.packet /\ Aged(x).retries = x.retries
    BY <1>1, <2>1 DEF Aged, Items
  <2> DEFINE y == Aged(x)
  <2> HIDE DEF y
  <2>3. Due(y) => y.retries + 1 \in 0 .. MaxRetries
    BY <1>1, <2>1, <2>2 DEF Due, y
  <2>4. Due(y) => Resent(y) \in Items /\ Resent(y).packet = y.packet
    BY <1>1, <2>1, <2>2, <2>3 DEF Resent, Items, y
  <2>5. QED
    BY <2>2, <2>4 DEF y
<1>3. ASSUME NEW q \in PacketType
      PROVE  InFlight(q) \in Items /\ InFlight(q).packet = q
  BY <1>1 DEF InFlight, Items
<1>4. QED
  BY <1>2, <1>3

\* What a pump does to its peer's queues.
PumpsTo(p, n) ==
  /\ Types' /\ Bounds' /\ Onward
  /\ \A q \in Peers : q # p => Calm(q)
  /\ up[p] /\ up'[p] = up[p] /\ next_sequence'[p] = next_sequence[p]
  /\ enqueued'[p] = enqueued[p]
  /\ last_received'[p] = last_received[p] /\ last_ack_sent'[p] = last_ack_sent[p]
  /\ session_nonce'[p] = session_nonce[p] /\ wal'[p] = wal[p]
  /\ used'[p] = used[p] /\ delivered'[p] = delivered[p] /\ acked'[p] = acked[p]
  /\ agreed' = agreed /\ crashes' = crashes /\ walErrors' = walErrors
  /\ pending'[p] = SubSeq(pending[p], n + 1, Len(pending[p]))
  /\ Sub(QueueOf(p)', QueueOf(p))
  /\ \A x \in SentBy(p)' : x \in SentBy(p) \/ \E i \in 1 .. n : x = pending[p][i]
  /\ \A i \in 1 .. Len(in_flight'[p]) : in_flight'[p][i].packet \in SentBy(p)'

LEMMA PumpOnlineEffect ==
  ASSUME ReplicatorIInv, NEW p \in Peers, NEW n \in Nat, NEW again, PumpOnline(p, n, again)
  PROVE  n \in 0 .. Len(pending[p]) /\ PumpsTo(p, n)
<1> DEFINE a == in_flight[p]
           b == pending[p]
           aged == [i \in DOMAIN a |-> Aged(a[i])]
           first == [i \in 1 .. n |-> InFlight(b[i])]
           moved == [i \in DOMAIN aged |-> IF i \in again THEN Resent(aged[i]) ELSE aged[i]]
           c == moved \o first
           S == {i \in DOMAIN c : ~Exhausted(c[i])}
           out == Sent(p, {b[i] : i \in 1 .. n} \cup {aged[i].packet : i \in again})
<1>0. Types /\ Bounds /\ Numbered(p)
  BY DEF ReplicatorIInv
<1>1. /\ a \in Seq(Items) /\ DOMAIN a = 1 .. Len(a) /\ Len(a) \in Nat
      /\ b \in Seq(PacketType) /\ DOMAIN b = 1 .. Len(b) /\ Len(b) \in Nat
      /\ Other[p] \in Peers
  BY <1>0, PeerFacts
<1>2. /\ up[p] /\ n <= Len(b) /\ n <= Room(p)
      /\ \A i \in again : i \in 1 .. Len(a) /\ Due(aged[i])
      /\ pending' = [pending EXCEPT ![p] = SubSeq(b, n + 1, Len(b))]
      /\ in_flight' = [in_flight EXCEPT ![p] = Kept(c, S)]
      /\ net' = [net EXCEPT ![Other[p]] = net[Other[p]] \cup out]
      /\ up' = up /\ mode' = mode /\ next_sequence' = next_sequence /\ last_received' = last_received
      /\ last_ack_sent' = last_ack_sent
      /\ session_nonce' = session_nonce /\ wal' = wal /\ agreed' = agreed /\ used' = used
      /\ enqueued' = enqueued /\ walErrors' = walErrors
      /\ delivered' = delivered /\ acked' = acked /\ crashes' = crashes /\ bounds' = bounds
  BY <1>1 DEF PumpOnline
<1>3. n \in 0 .. Len(b)
  BY <1>1, <1>2
<1>4. /\ DOMAIN aged = 1 .. Len(a)
      /\ \A i \in 1 .. Len(a) : /\ aged[i] = Aged(a[i]) /\ aged[i] \in Items
                                /\ aged[i].packet = a[i].packet
                                /\ Due(aged[i]) => /\ Resent(aged[i]) \in Items
                                                   /\ Resent(aged[i]).packet = a[i].packet
  BY <1>1, ItemFacts
<1> HIDE DEF aged
<1>5. /\ moved \in Seq(Items) /\ Len(moved) = Len(a)
      /\ \A i \in 1 .. Len(a) : moved[i].packet = a[i].packet
  <2>1. \A i \in 1 .. Len(a) : moved[i] \in Items /\ moved[i].packet = a[i].packet
    BY <1>2, <1>4
  <2>2. moved = [i \in 1 .. Len(a) |-> moved[i]]
    BY <1>4
  <2> HIDE DEF moved
  <2> DEFINE N == Len(a)
  <2>a. N \in Nat /\ moved = [i \in 1 .. N |-> moved[i]] /\ \A i \in 1 .. N : moved[i] \in Items
    BY <1>1, <2>1, <2>2
  <2> HIDE DEF N
  <2>b. moved \in Seq(Items) /\ Len(moved) = N
    BY <2>a
  <2>3. moved \in Seq(Items) /\ Len(moved) = Len(a)
    BY <2>b DEF N
  <2>4. QED
    BY <2>1, <2>3
<1>6. /\ first \in Seq(Items) /\ Len(first) = n
      /\ \A i \in 1 .. n : first[i].packet = b[i]
  <2>1. \A i \in 1 .. n : first[i] \in Items /\ first[i].packet = b[i]
    <3>1. \A i \in 1 .. n : b[i] \in PacketType
      BY <1>1, <1>3
    <3>2. QED
      BY <3>1, ItemFacts
  <2>2. first = [i \in 1 .. n |-> first[i]]
    OBVIOUS
  <2> HIDE DEF first
  <2>3. first \in Seq(Items) /\ Len(first) = n
    BY <2>1, <2>2
  <2>4. QED
    BY <2>1, <2>3
<1> HIDE DEF moved, first
<1>7. c \in Seq(Items) /\ Joined(c, moved, first)
  BY <1>5, <1>6, JoinFacts
<1> HIDE DEF c
<1>8. /\ Len(c) = Len(a) + n
      /\ \A i \in 1 .. Len(a) : c[i].packet = a[i].packet
      /\ \A i \in 1 .. n : c[Len(a) + i].packet = b[i]
      /\ \A k \in 1 .. Len(c) :
           \/ \E i \in 1 .. Len(a) : c[k].packet = a[i].packet
           \/ \E i \in 1 .. n : c[k].packet = b[i]
  <2>1. /\ Len(c) = Len(a) + n
        /\ \A i \in 1 .. Len(a) : c[i].packet = a[i].packet
        /\ \A i \in 1 .. n : c[Len(a) + i].packet = b[i]
    BY <1>5, <1>6, <1>7 DEF Joined
  <2>2. ASSUME NEW k \in 1 .. Len(c)
        PROVE  \/ \E i \in 1 .. Len(a) : c[k].packet = a[i].packet
               \/ \E i \in 1 .. n : c[k].packet = b[i]
    <3>1. \/ \E i \in 1 .. Len(moved) : k = i /\ c[k] = moved[i]
          \/ \E i \in 1 .. Len(first) : k = Len(moved) + i /\ c[k] = first[i]
      BY <1>7 DEF Joined
    <3>2. QED
      BY <3>1, <1>5, <1>6
  <2>3. QED
    BY <2>1, <2>2
<1>9. S \in SUBSET (1 .. Len(c))
  BY <1>7
<1> HIDE DEF S
<1> DEFINE K == Kept(c, S)
<1>10. /\ K \in Seq(Items) /\ Len(K) <= Len(c) /\ Len(K) \in Nat
       /\ \A i \in 1 .. Len(K) : \E k \in S : K[i] = c[k]
  <2>1. /\ K \in Seq(Items) /\ Len(K) <= Len(c)
        /\ \A i \in 1 .. Len(K) : \E k \in S : K[i] = c[k]
    BY <1>7, <1>9, KeptSub
  <2> HIDE DEF K
  <2>2. QED
    BY <2>1
<1>11. Sub(PacketsOf(K) \o SubSeq(b, n + 1, Len(b)), PacketsOf(a) \o b)
  <2>1. \A x \in Items : x.packet \in PacketType
    BY PacketFacts
  <2>2. QED
    BY <2>1, <1>1, <1>3, <1>7, <1>8, <1>9, KeptQueue
<1>12. SubSeq(b, n + 1, Len(b)) \in Seq(PacketType) /\ Len(SubSeq(b, n + 1, Len(b))) = Len(b) - n
  BY <1>1, <1>3, RestFacts
<1> HIDE DEF K
<1>13. /\ pending'[p] = SubSeq(b, n + 1, Len(b)) /\ in_flight'[p] = K
       /\ \A q \in Peers : q # p => pending'[q] = pending[q] /\ in_flight'[q] = in_flight[q]
  BY <1>0, <1>2 DEF Types, K
<1>14. /\ net'[Other[p]] = net[Other[p]] \cup out
       /\ \A r \in Peers : r # Other[p] => net'[r] = net[r]
  BY <1>0, <1>1, <1>2 DEF Types
<1>15. out \subseteq Envelopes
  <2>1. \A i \in 1 .. n : b[i] \in PacketType
    BY <1>1, <1>3
  <2>2. \A i \in again : aged[i].packet \in PacketType
    BY <1>2, <1>4, PacketFacts
  <2>3. session_nonce[p] \in Nat
    BY <1>0, PeerFacts
  <2>4. QED
    BY <2>1, <2>2, <2>3 DEF Sent, Envelopes
<1>16. Types'
  <2>1. pending' \in [Peers -> Seq(PacketType)]
    BY <1>0, <1>2, <1>12 DEF Types
  <2>2. in_flight' \in [Peers -> Seq(Items)]
    BY <1>0, <1>2, <1>10 DEF Types, K
  <2>3. net' \in [Peers -> SUBSET Envelopes]
    <3>1. net \in [Peers -> SUBSET Envelopes]
      BY <1>0 DEF Types
    <3>2. net[Other[p]] \cup out \in SUBSET Envelopes
      BY <3>1, <1>1, <1>15
    <3> HIDE DEF out
    <3>3. QED
      BY <3>1, <3>2, <1>2
  <2>4. QED
    BY <1>0, <1>2, <2>1, <2>2, <2>3, SameTypes DEF Types
<1>17. /\ SentBy(p) \subseteq SentBy(p)'
       /\ \A x \in SentBy(p)' : x \in SentBy(p) \/ \E i \in 1 .. n : x = b[i]
       /\ \A i \in 1 .. n : b[i] \in SentBy(p)'
  <2>1. \A i \in again : aged[i].packet \in SentBy(p)
    BY <1>0, <1>2, <1>4 DEF Numbered
  <2>2. \A m \in out : m.packet \in SentBy(p) \/ \E i \in 1 .. n : m.packet = b[i]
    BY <2>1 DEF Sent
  <2>3. \A i \in 1 .. n : \E m \in out : m.packet = b[i]
    <3>1. TAKE i \in 1 .. n
    <3>2. [nonce |-> session_nonce[p], packet |-> b[i]] \in out
      BY <3>1 DEF Sent
    <3>3. [nonce |-> session_nonce[p], packet |-> b[i]].packet = b[i]
      OBVIOUS
    <3> HIDE DEF out
    <3>4. QED
      BY <3>2, <3>3
  <2> HIDE DEF out
  <2>4. QED
    BY <1>14, <2>2, <2>3 DEF SentBy
<1>18. \A q \in Peers : q # p => SentBy(q)' = SentBy(q)
  <2>1. \A q \in Peers : q # p => Other[q] # Other[p] /\ Other[q] \in Peers
    BY ReplicatorAssumption
  <2>2. QED
    BY <2>1, <1>14 DEF SentBy
<1>19. Onward
  <2>1. crashes' >= crashes /\ walErrors' >= walErrors /\ agreed' >= agreed
    BY <1>0, <1>2 DEF Types
  <2>2. \A q \in Peers : SentBy(q) \subseteq SentBy(q)'
    BY <1>17, <1>18
  <2>3. QED
    BY <1>2, <2>1, <2>2 DEF Onward
<1>20. \A q \in Peers : q # p => Calm(q)
  BY <1>2, <1>13, <1>18 DEF Calm
<1>21. Bounds'
  <2>1. Len(in_flight'[p]) <= MaxInFlight
    <3>1. Len(a) <= MaxInFlight /\ MaxInFlight \in Nat
      BY <1>0, ReplicatorAssumption DEF Bounds
    <3>2. Len(a) + n <= MaxInFlight
      BY <3>1, <1>1, <1>2 DEF Room
    <3>3. QED
      BY <3>1, <3>2, <1>1, <1>8, <1>10, <1>13
  <2>2. Len(pending'[p]) <= MaxPending
    <3>1. Len(b) <= MaxPending /\ MaxPending \in Nat
      BY <1>0, ReplicatorAssumption DEF Bounds
    <3>2. QED
      BY <3>1, <1>1, <1>3, <1>12, <1>13
  <2>3. QED
    BY <2>1, <2>2, <1>0, <1>13 DEF Bounds
<1>22. \A i \in 1 .. Len(K) : K[i].packet \in SentBy(p)'
  <2>1. \A k \in 1 .. Len(c) : c[k].packet \in SentBy(p)'
    BY <1>0, <1>8, <1>17 DEF Numbered
  <2>2. QED
    BY <2>1, <1>9, <1>10
<1>23. Sub(QueueOf(p)', QueueOf(p))
  BY <1>11, <1>13 DEF QueueOf
<1>24. QED
  BY <1>2, <1>3, <1>13, <1>16, <1>17, <1>19, <1>20, <1>21, <1>22, <1>23 DEF PumpsTo

LEMMA PumpOfflineEffect ==
  ASSUME ReplicatorIInv, NEW p \in Peers, PumpOffline(p)
  PROVE  PumpsTo(p, 0)
<1> DEFINE a == in_flight[p]
           b == pending[p]
           K == [i \in DOMAIN a |-> Aged(a[i])]
<1>0. Types /\ Bounds /\ Numbered(p)
  BY DEF ReplicatorIInv
<1>1. /\ a \in Seq(Items) /\ DOMAIN a = 1 .. Len(a) /\ Len(a) \in Nat
      /\ b \in Seq(PacketType)
  BY <1>0, PeerFacts
<1>2. /\ up[p] /\ in_flight' = [in_flight EXCEPT ![p] = K]
      /\ pending' = pending /\ net' = net
      /\ up' = up /\ mode' = mode /\ next_sequence' = next_sequence /\ last_received' = last_received
      /\ last_ack_sent' = last_ack_sent
      /\ session_nonce' = session_nonce /\ wal' = wal /\ agreed' = agreed /\ used' = used
      /\ enqueued' = enqueued /\ walErrors' = walErrors
      /\ delivered' = delivered /\ acked' = acked /\ crashes' = crashes /\ bounds' = bounds
  BY DEF PumpOffline
<1>3. \A i \in 1 .. Len(a) : K[i] \in Items /\ K[i].packet = a[i].packet
  BY <1>1, ItemFacts
<1>4. K = [i \in 1 .. Len(a) |-> K[i]]
  BY <1>1
<1> HIDE DEF K
<1>5. K \in Seq(Items) /\ Len(K) = Len(a) /\ DOMAIN K = 1 .. Len(a)
  <2> DEFINE N == Len(a)
  <2>1. N \in Nat /\ K = [i \in 1 .. N |-> K[i]] /\ \A i \in 1 .. N : K[i] \in Items
    BY <1>1, <1>3, <1>4
  <2> HIDE DEF N
  <2>2. K \in Seq(Items) /\ Len(K) = N /\ DOMAIN K = 1 .. N
    BY <2>1
  <2>3. QED
    BY <2>2 DEF N
<1>6. in_flight'[p] = K /\ \A q \in Peers : q # p => in_flight'[q] = in_flight[q]
  BY <1>0, <1>2 DEF Types
<1>7. QueueOf(p)' = QueueOf(p)
  <2>1. PacketsOf(K) = PacketsOf(a)
    BY <1>1, <1>3, <1>5 DEF PacketsOf
  <2>2. QED
    BY <2>1, <1>2, <1>6 DEF QueueOf
<1>8. Sub(QueueOf(p), QueueOf(p))
  <2>1. QueueShape(p)
    BY <1>0, QueueFacts
  <2>2. QED
    BY <2>1, SubSelf DEF QueueShape
<1>9. Types'
  <2>1. in_flight' \in [Peers -> Seq(Items)]
    BY <1>0, <1>2, <1>5 DEF Types
  <2>2. QED
    BY <1>0, <1>2, <2>1, SameTypes DEF Types
<1>10. \A q \in Peers : SentBy(q)' = SentBy(q)
  BY <1>2, SameNet
<1>11. Onward
  BY <1>0, <1>2, <1>10 DEF Onward, Types
<1>12. \A q \in Peers : q # p => Calm(q)
  BY <1>2, <1>6, <1>10 DEF Calm
<1>13. Bounds'
  BY <1>0, <1>2, <1>5, <1>6 DEF Bounds
<1>14. \A i \in 1 .. Len(K) : K[i].packet \in SentBy(p)'
  BY <1>0, <1>3, <1>5, <1>10 DEF Numbered
<1>15. SubSeq(b, 0 + 1, Len(b)) = b
  BY <1>1
<1>16. QED
  BY <1>2, <1>6, <1>7, <1>8, <1>9, <1>10, <1>11, <1>12, <1>13, <1>14, <1>15 DEF PumpsTo

LEMMA PumpKeeps ==
  ASSUME ReplicatorIInv, NEW p \in Peers, Pump(p)
  PROVE  ReplicatorIInv'
<1>0. Types /\ Numbered(p) /\ PayloadsOnce(p) /\ Deliveries(p)
  BY DEF ReplicatorIInv
<1>1. PICK n \in 0 .. Len(pending[p]) : PumpsTo(p, n)
  <2>1. CASE PumpOffline(p)
    <3>1. 0 \in 0 .. Len(pending[p])
      BY <1>0, PeerFacts
    <3>2. QED
      BY <2>1, <3>1, PumpOfflineEffect
  <2>2. CASE \E n \in 0 .. Min({Len(pending[p]), Room(p)}) :
               \E again \in SUBSET {i \in DOMAIN in_flight[p] : Due(Aged(in_flight[p][i]))} :
                  PumpOnline(p, n, again)
    <3>1. Len(pending[p]) \in Nat /\ Room(p) \in Nat
      BY <1>0, PeerFacts, ReplicatorAssumption DEF Room
    <3>2. {Len(pending[p]), Room(p)} \in SUBSET Nat /\ {Len(pending[p]), Room(p)} # {}
      BY <3>1
    <3>3. Min({Len(pending[p]), Room(p)}) \in Nat
      <4>1. Min({Len(pending[p]), Room(p)}) \in {Len(pending[p]), Room(p)}
        BY <3>2, MinFacts
      <4>2. QED
        BY <3>1, <4>1
    <3>4. PICK n \in 0 .. Min({Len(pending[p]), Room(p)}) :
            \E again \in SUBSET {i \in DOMAIN in_flight[p] : Due(Aged(in_flight[p][i]))} :
              PumpOnline(p, n, again)
      BY <2>2
    <3>5. PICK again \in SUBSET {i \in DOMAIN in_flight[p] : Due(Aged(in_flight[p][i]))} :
            PumpOnline(p, n, again)
      BY <3>4
    <3>6. n \in Nat
      BY <3>3
    <3>7. QED
      BY <3>5, <3>6, PumpOnlineEffect
  <2>3. QED
    BY <2>1, <2>2 DEF Pump
<1>2. Types' /\ Bounds' /\ Onward /\ (\A q \in Peers : q # p => Calm(q)) /\ SentBy(p) \subseteq SentBy(p)'
  BY <1>1 DEF PumpsTo, Onward
<1>3. /\ up[p] /\ up'[p] = up[p] /\ next_sequence'[p] = next_sequence[p]
      /\ enqueued'[p] = enqueued[p]
      /\ last_received'[p] = last_received[p] /\ last_ack_sent'[p] = last_ack_sent[p]
      /\ session_nonce'[p] = session_nonce[p] /\ wal'[p] = wal[p]
      /\ used'[p] = used[p] /\ delivered'[p] = delivered[p] /\ acked'[p] = acked[p]
      /\ agreed' = agreed /\ crashes' = crashes /\ walErrors' = walErrors
      /\ \A i \in 1 .. Len(in_flight'[p]) : in_flight'[p][i].packet \in SentBy(p)'
      /\ \A x \in SentBy(p)' : x \in SentBy(p) \/ \E i \in 1 .. n : x = pending[p][i]
      /\ Sub(QueueOf(p)', QueueOf(p))
      /\ pending'[p] = SubSeq(pending[p], n + 1, Len(pending[p]))
  BY <1>1 DEF PumpsTo
<1> DEFINE s == pending[p]
           t == pending'[p]
           Q == QueueOf(p)
           R == QueueOf(p)'
<1>4. \A x \in PacketType : x.sequence \in Nat /\ x.ack \in Nat /\ x.payload \in Nat
  BY PacketFacts
<1>5. s \in Seq(PacketType) /\ Len(s) \in Nat /\ n \in Nat /\ n <= Len(s)
  BY <1>0, PeerFacts
<1>6. t \in Seq(PacketType) /\ Len(t) = Len(s) - n /\ \A i \in 1 .. Len(t) : t[i] = s[n + i]
  BY <1>3, <1>5, RestFacts
<1>7. QueueShape(p) /\ QueueShape(p)' /\ Q \in Seq(PacketType) /\ R \in Seq(PacketType)
  <2>1. QueueShape(p) /\ QueueShape(p)'
    BY <1>0, <1>2, QueueFacts, QueueFactsNext
  <2>2. PacketType' = PacketType
    BY <1>2, SameTypes DEF Onward
  <2>3. QED
    BY <2>1, <2>2 DEF QueueShape
<1>8. /\ \A i \in 1 .. Len(R) : \E k \in 1 .. Len(Q) : R[i] = Q[k]
      /\ Distinct(Q) => Distinct(R)
      /\ Rising(Q) => Rising(R)
      /\ Under(Q, next_sequence[p]) => Under(R, next_sequence[p])
  <2>1. next_sequence[p] \in Nat
    BY <1>0, PeerFacts
  <2> HIDE DEF Q, R
  <2>2. Sub(R, Q)
    BY <1>3 DEF Q, R
  <2>3. QED
    BY <1>4, <1>7, <2>1, <2>2, SubKeeps
<1>9. Numbered(p)'
  BY <1>0, <1>3, <1>8 DEF Numbered
<1>10. \A x \in ToSet(t) : x \in ToSet(s)
  <2>1. ToSet(t) = {t[k] : k \in 1 .. Len(t)} /\ ToSet(s) = {s[k] : k \in 1 .. Len(s)}
    BY <1>5, <1>6, ToSetFacts
  <2>2. \A i \in 1 .. Len(t) : n + i \in 1 .. Len(s)
    BY <1>5, <1>6
  <2> HIDE DEF s, t
  <2>3. QED
    BY <2>1, <2>2, <1>6
<1>11. \A i \in 1 .. n : s[i] \in ToSet(s)
  <2>1. ToSet(s) = {s[k] : k \in 1 .. Len(s)}
    BY <1>5, ToSetFacts
  <2>2. \A i \in 1 .. n : i \in 1 .. Len(s)
    BY <1>5
  <2>3. QED
    BY <2>1, <2>2
<1>12. PayloadsOnce(p)'
  <2>1. \A x \in Known(p)' : x \in Known(p)
    BY <1>3, <1>10, <1>11 DEF Known
  <2>2. QED
    BY <2>1, <1>0, <1>3 DEF PayloadsOnce
<1>13. Deliveries(p)'
  <2>1. Other[p] \in Peers
    BY <1>0, PeerFacts
  <2>2. SentBy(Other[p]) \subseteq SentBy(Other[p])'
    BY <2>1, <1>2 DEF Onward
  <2>3. QED
    BY <2>2, <1>0, <1>3 DEF Deliveries
<1>14. crashes' <= 1 => Ordered1(p)'
  BY <1>3, <1>8 DEF ReplicatorIInv, Ordered1
<1>15. ASSUME crashes' = 0 PROVE FirstLife(p) /\ Ordered1(p)
  <2>1. crashes = 0
    BY <1>3, <1>15
  <2>2. QED
    BY <2>1 DEF ReplicatorIInv
<1>16. \A x \in Packets(p)' : x \in Packets(p)
  BY <1>3, <1>10, <1>11 DEF Packets
<1>17. ASSUME crashes' = 0 PROVE Moves(p)
  <2>1. ASSUME NEW m \in Nat, Passed(p, m) PROVE Passed(p, m)'
    <3>1. m < next_sequence[p] /\ \A i \in 1 .. Len(s) : m < s[i].sequence
      BY <2>1 DEF Passed
    <3>2. \A i \in 1 .. Len(t) : n + i \in 1 .. Len(s)
      BY <1>5, <1>6
    <3> HIDE DEF s, t
    <3>3. \A i \in 1 .. Len(t) : m < t[i].sequence
      BY <3>1, <3>2, <1>6
    <3>4. QED
      BY <3>1, <3>3, <1>3 DEF Passed, t
  <2>2. ASSUME NEW i \in 1 .. n PROVE Passed(p, s[i].sequence)
                                       \/ \A k \in 1 .. Len(t) : s[i].sequence < t[k].sequence
    <3> DEFINE f == Len(in_flight[p])
    <3>1. /\ Rising(Q) /\ f \in Nat /\ Len(Q) = f + Len(s)
          /\ \A k \in 1 .. Len(s) : Q[f + k] = s[k]
      BY <1>0, <1>7, <1>15, <1>17, PeerFacts DEF Ordered1, QueueShape
    <3> HIDE DEF f, Q, s, t
    <3>2. ASSUME NEW k \in 1 .. Len(t) PROVE s[i].sequence < t[k].sequence
      <4>1. /\ i \in 1 .. Len(s) /\ n + k \in 1 .. Len(s) /\ i < n + k
            /\ f + i \in 1 .. Len(Q) /\ f + (n + k) \in 1 .. Len(Q) /\ f + i < f + (n + k)
        BY <1>5, <1>6, <3>1
      <4>2. Q[f + i].sequence < Q[f + (n + k)].sequence
        BY <3>1, <4>1 DEF Rising
      <4>3. QED
        BY <3>1, <4>1, <4>2, <1>6
    <3>3. QED
      BY <3>2
  <2>3. ASSUME NEW x, NEW i \in 1 .. n, x = s[i] PROVE Passed(p, x.sequence)'
    <3>1. x \in Packets(p)
      BY <1>11, <2>3 DEF Packets
    <3>2. x.sequence < next_sequence[p] /\ x.sequence \in Nat
      BY <3>1, <1>15, <1>17, PacketsBelow
    <3>3. CASE Passed(p, x.sequence)
      BY <2>1, <3>2, <3>3
    <3>4. CASE \A k \in 1 .. Len(t) : x.sequence < t[k].sequence
      BY <3>2, <3>4, <1>3 DEF Passed
    <3>5. QED
      BY <2>2, <2>3, <3>3, <3>4
  <2>4. \A x \in SentBy(p)' : x \in SentBy(p) \/ Passed(p, x.sequence)'
    BY <1>3, <2>3
  <2>5. Steady(p)' = Steady(p)
    BY <1>3 DEF Steady
  <2>6. last_received[p] \in Nat
    BY <1>0, PeerFacts
  <2>7. QED
    BY <1>3, <1>16, <2>1, <2>4, <2>5, <2>6 DEF Moves
<1>18. ASSUME crashes' = 0 PROVE Logged(p)'
  <2>1. Logged(p)
    BY <1>15, <1>18 DEF FirstLife
  <2>2. \A i \in 1 .. Len(t) : n + i \in 1 .. Len(s)
    BY <1>5, <1>6
  <2>3. wal'[p].status = "ok" =>
          \A i \in 1 .. Len(t) : \E j \in 1 .. Len(wal'[p].pending) :
            wal'[p].pending[j].sequence = t[i].sequence
    BY <2>1, <2>2, <1>3, <1>6 DEF Logged
  <2>4. ASSUME wal'[p].status = "ok", walErrors' = 0, NEW i \in 1 .. Len(R)
        PROVE  \E j \in 1 .. Len(wal'[p].pending) :
                 /\ wal'[p].pending[j].sequence = R[i].sequence
                 /\ wal'[p].pending[j].payload = R[i].payload
    <3>1. PICK k \in 1 .. Len(Q) : R[i] = Q[k]
      BY <1>8
    <3>2. wal[p].status = "ok" /\ walErrors = 0
      BY <2>4, <1>3
    <3>3. \A m \in 1 .. Len(Q) : \E j \in 1 .. Len(wal[p].pending) :
            wal[p].pending[j].sequence = Q[m].sequence /\ wal[p].pending[j].payload = Q[m].payload
      BY <2>1, <3>2 DEF Logged
    <3> HIDE DEF Q, R
    <3>4. QED
      BY <3>1, <3>3, <1>3
  <2>5. QED
    BY <2>3, <2>4 DEF Logged
<1>19. ASSUME crashes' = 0 PROVE Deltas(p)'
  <2>1. Deltas(p)
    BY <1>15, <1>19 DEF FirstLife
  <2>2. \A a, b \in 1 .. Len(t) :
          t[a].kind = "Delta" /\ t[b].kind = "Delta" /\ t[a].key = t[b].key => a = b
    <3>1. \A a, b \in 1 .. Len(s) :
            s[a].kind = "Delta" /\ s[b].kind = "Delta" /\ s[a].key = s[b].key => a = b
      BY <2>1 DEF Deltas
    <3>2. \A i \in 1 .. Len(t) : n + i \in 1 .. Len(s)
      BY <1>5, <1>6
    <3> HIDE DEF s, t
    <3>3. ASSUME NEW a \in 1 .. Len(t), NEW b \in 1 .. Len(t),
                 t[a].kind = "Delta", t[b].kind = "Delta", t[a].key = t[b].key
          PROVE  a = b
      <4>1. n + a = n + b
        BY <3>1, <3>2, <3>3, <1>6
      <4>2. QED
        BY <4>1, <1>5
    <3>4. QED
      BY <3>3
  <2>3. QED
    BY <2>1, <2>2, <1>16 DEF Deltas
<1>20. ASSUME crashes' = 0 PROVE Locally(p)
  <2>1. Pristine(p)'
    BY <1>3 DEF Pristine
  <2>2. QED
    BY <1>3, <1>15, <1>18, <1>19, <1>20, <2>1 DEF Locally, FirstLife
<1>21. \A q \in Peers : Calm(q) \/ Holds(q)
  BY <1>2, <1>9, <1>12, <1>13, <1>14, <1>17, <1>20 DEF Holds
<1>22. QED
  BY <1>2, <1>21, Assemble

\* What an acknowledgement of number k does to the log, the in-flight queue and
\* the history of acknowledged numbers of p.
AcksTo(p, k) ==
  /\ wal' \in [Peers -> Replays] /\ in_flight' \in [Peers -> Seq(Items)]
  /\ acked' \in [Peers -> SUBSET Nat] /\ walErrors' \in Nat /\ walErrors' >= walErrors
  /\ \A q \in Peers : q # p =>
       wal'[q] = wal[q] /\ in_flight'[q] = in_flight[q] /\ acked'[q] = acked[q]
  /\ wal'[p] = wal[p] \/ WalLoses(wal'[p], wal[p], k)
  /\ Sub(PacketsOf(in_flight'[p]) \o pending[p], PacketsOf(in_flight[p]) \o pending[p])
  /\ Len(in_flight'[p]) <= Len(in_flight[p])
  /\ \A i \in 1 .. Len(in_flight'[p]) : \E j \in 1 .. Len(in_flight[p]) :
       in_flight'[p][i] = in_flight[p][j]
  /\ walErrors' = 0 =>
       \/ wal'[p] = wal[p]
       \/ \A i \in 1 .. Len(in_flight'[p]) : in_flight'[p][i].packet.sequence > k
  /\ \A x \in acked'[p] : x \in acked[p] \/ x <= k

LEMMA NoAckEffect ==
  ASSUME Types, NEW p \in Peers, NEW k \in Nat,
         UNCHANGED <<wal, walErrors, in_flight, acked>>
  PROVE  AcksTo(p, k)
<1>1. Sub(PacketsOf(in_flight[p]) \o pending[p], PacketsOf(in_flight[p]) \o pending[p])
  <2>1. QueueShape(p)
    BY QueueFacts
  <2>2. Len(PacketsOf(in_flight[p]) \o pending[p]) \in Nat
    BY <2>1 DEF QueueShape, QueueOf
  <2>3. QED
    BY <2>2, SubSelf
<1>2. /\ wal \in [Peers -> Replays] /\ in_flight \in [Peers -> Seq(Items)]
      /\ acked \in [Peers -> SUBSET Nat] /\ walErrors \in Nat /\ Len(in_flight[p]) \in Nat
  BY PeerFacts DEF Types
<1>3. QED
  BY <1>1, <1>2 DEF AcksTo

LEMMA AcknowledgeEffect ==
  ASSUME Types, NEW p \in Peers, NEW k \in Nat, Acknowledge(p, k)
  PROVE  AcksTo(p, k)
<1> DEFINE a == in_flight[p]
           b == pending[p]
           S == {i \in DOMAIN a : a[i].packet.sequence > k}
           e == Extended(wal[p], AckRecord(k))
           D == {x.packet.sequence : x \in {y \in ToSet(a) : y.packet.sequence <= k}}
<1>1. /\ a \in Seq(Items) /\ DOMAIN a = 1 .. Len(a) /\ Len(a) \in Nat
      /\ b \in Seq(PacketType) /\ Len(b) \in Nat
  BY PeerFacts
<1>2. /\ wal \in [Peers -> Replays] /\ in_flight \in [Peers -> Seq(Items)]
      /\ acked \in [Peers -> SUBSET Nat] /\ walErrors \in Nat
  BY DEF Types
<1>3. /\ \A x \in PacketType : x.sequence \in Nat
      /\ \A x \in Items : x.packet \in PacketType /\ x.packet.sequence \in Nat
  BY PacketFacts
<1>4. e \in Replays /\ WalLoses(e, wal[p], k)
  <2>1. wal[p] \in [status : Statuses, pending : Seq(PacketType)]
    BY PeerFacts DEF Replays
  <2>2. QED
    BY <1>3, <2>1, WalAck DEF Replays
<1>5. \/ /\ wal' = [wal EXCEPT ![p] = e] /\ walErrors' = walErrors
         /\ in_flight' = [in_flight EXCEPT ![p] = Kept(a, S)]
         /\ acked' = [acked EXCEPT ![p] = acked[p] \cup D]
      \/ /\ wal' = wal \/ wal' = [wal EXCEPT ![p] = e]
         /\ walErrors' = walErrors + 1 /\ in_flight' = in_flight /\ acked' = acked
  BY DEF Acknowledge, WalWrites, WalFails
<1> HIDE DEF e
<1>6. [wal EXCEPT ![p] = e] \in [Peers -> Replays]
  BY <1>2, <1>4
<1>7. Sub(PacketsOf(a) \o b, PacketsOf(a) \o b)
  <2>1. QueueShape(p)
    BY QueueFacts
  <2>2. Len(PacketsOf(a) \o b) \in Nat
    BY <2>1 DEF QueueShape, QueueOf
  <2>3. QED
    BY <2>2, SubSelf
<1>8. CASE /\ wal' = wal \/ wal' = [wal EXCEPT ![p] = e]
           /\ walErrors' = walErrors + 1 /\ in_flight' = in_flight /\ acked' = acked
  <2>1. wal' \in [Peers -> Replays] /\ (wal'[p] = wal[p] \/ WalLoses(wal'[p], wal[p], k))
        /\ \A q \in Peers : q # p => wal'[q] = wal[q]
    BY <1>2, <1>4, <1>6, <1>8
  <2>2. walErrors' \in Nat /\ walErrors' >= walErrors /\ walErrors' # 0
    BY <1>2, <1>8
  <2>3. QED
    BY <1>1, <1>2, <1>7, <1>8, <2>1, <2>2 DEF AcksTo
<1>9. CASE /\ wal' = [wal EXCEPT ![p] = e] /\ walErrors' = walErrors
           /\ in_flight' = [in_flight EXCEPT ![p] = Kept(a, S)]
           /\ acked' = [acked EXCEPT ![p] = acked[p] \cup D]
  <2>1. S \in SUBSET (1 .. Len(a)) /\ \A i \in S : a[i].packet.sequence > k
    BY <1>1
  <2>2. \A x \in D : x \in Nat /\ x <= k
    <3>1. \A y \in ToSet(a) : y \in Items
      BY <1>1, ToSetFacts
    <3>2. QED
      BY <3>1, <1>3
  <2> HIDE DEF S, D
  <2> DEFINE K == Kept(a, S)
  <2>3. /\ K \in Seq(Items) /\ Len(K) <= Len(a)
        /\ \A i \in 1 .. Len(K) : \E j \in S : K[i] = a[j]
    BY <1>1, <2>1, KeptSub
  <2>4. Sub(PacketsOf(K) \o b, PacketsOf(a) \o b)
    <3>1. SubSeq(b, 0 + 1, Len(b)) = b
      BY <1>1
    <3>2. /\ 0 \in 0 .. Len(b) /\ Len(a) = Len(a) + 0
          /\ \A i \in 1 .. Len(a) : a[i].packet = a[i].packet
          /\ \A i \in 1 .. 0 : a[Len(a) + i].packet = b[i]
          /\ \A x \in Items : x.packet \in PacketType
      BY <1>1, <1>3
    <3>3. Sub(PacketsOf(K) \o SubSeq(b, 0 + 1, Len(b)), PacketsOf(a) \o b)
      BY <1>1, <2>1, <3>2, KeptQueue
    <3>4. QED
      BY <3>1, <3>3
  <2> HIDE DEF K
  <2>5. /\ wal'[p] = e /\ in_flight'[p] = K /\ acked'[p] = acked[p] \cup D
        /\ \A q \in Peers : q # p =>
             wal'[q] = wal[q] /\ in_flight'[q] = in_flight[q] /\ acked'[q] = acked[q]
    BY <1>2, <1>9 DEF K
  <2>6. wal' \in [Peers -> Replays] /\ in_flight' \in [Peers -> Seq(Items)]
    BY <1>2, <1>6, <1>9, <2>3 DEF K
  <2>7. acked' \in [Peers -> SUBSET Nat]
    <3>1. acked[p] \cup D \in SUBSET Nat
      BY <1>2, <2>2
    <3>2. QED
      BY <1>2, <1>9, <3>1
  <2>8. \A i \in 1 .. Len(K) : K[i].packet.sequence > k
    BY <2>1, <2>3
  <2>9. \A i \in 1 .. Len(K) : \E j \in 1 .. Len(a) : K[i] = a[j]
    BY <2>1, <2>3
  <2>10. \A x \in acked'[p] : x \in acked[p] \/ x <= k
    BY <2>2, <2>5
  <2>11. walErrors' \in Nat /\ walErrors' >= walErrors
    BY <1>2, <1>9
  <2>12. QED
    BY <1>4, <2>3, <2>4, <2>5, <2>6, <2>7, <2>8, <2>9, <2>10, <2>11 DEF AcksTo
<1>10. QED
  BY <1>5, <1>8, <1>9

LEMMA ReceiveKeeps ==
  ASSUME ReplicatorIInv, NEW p \in Peers, NEW m \in net[p], Receive(p, m)
  PROVE  ReplicatorIInv'
<1> DEFINE x == m.packet
           k == m.packet.ack
<1>0. Types /\ Bounds /\ Numbered(p) /\ PayloadsOnce(p) /\ Deliveries(p)
  BY DEF ReplicatorIInv
<1>1. /\ x \in PacketType /\ x.sequence \in Nat /\ k \in Nat
      /\ Other[p] \in Peers /\ x \in SentBy(Other[p])
  <2>1. net[p] \in SUBSET Envelopes /\ Other[p] \in Peers /\ Other[Other[p]] = p
    BY <1>0, PeerFacts
  <2>2. x \in PacketType
    BY <2>1 DEF Envelopes
  <2>3. x \in SentBy(Other[p])
    BY <2>1 DEF SentBy
  <2>4. QED
    BY <2>1, <2>2, <2>3, PacketFacts
<1>2. /\ up[p] /\ session_nonce[p] # NoSession /\ x.sequence > last_received[p]
      /\ last_received' = [last_received EXCEPT ![p] = x.sequence]
      /\ last_ack_sent' = [last_ack_sent EXCEPT ![p] = k] \/ last_ack_sent' = last_ack_sent
      /\ delivered' = [delivered EXCEPT ![p] = Append(delivered[p], x)]
      /\ up' = up /\ mode' = mode /\ next_sequence' = next_sequence /\ pending' = pending
      /\ session_nonce' = session_nonce /\ agreed' = agreed /\ used' = used /\ net' = net
      /\ enqueued' = enqueued /\ crashes' = crashes /\ bounds' = bounds
  BY DEF Receive, NotADuplicate
<1>3. AcksTo(p, k)
  <2>1. CASE k > last_ack_sent[p]
    <3>1. Acknowledge(p, k)
      BY <2>1 DEF Receive
    <3>2. QED
      BY <3>1, <1>0, <1>1, AcknowledgeEffect
  <2>2. CASE ~(k > last_ack_sent[p])
    <3>1. UNCHANGED <<wal, walErrors, in_flight, acked>>
      BY <2>2 DEF Receive
    <3>2. QED
      BY <3>1, <1>0, <1>1, NoAckEffect
  <2>3. QED
    BY <2>1, <2>2
<1> HIDE DEF x, k
<1>4. /\ last_received[p] \in Nat /\ delivered[p] \in Seq(PacketType) /\ Len(delivered[p]) \in Nat
      /\ next_sequence[p] \in Nat /\ Len(in_flight[p]) \in Nat
      /\ wal[p].pending \in Seq(PacketType) /\ Len(wal[p].pending) \in Nat
      /\ pending[p] \in Seq(PacketType)
  BY <1>0, PeerFacts
<1>5. Append(delivered[p], x) \in Seq(PacketType)
      /\ Appended(Append(delivered[p], x), delivered[p], x)
  BY <1>1, <1>4 DEF Appended
<1>6. Types'
  <2>1. last_received' \in [Peers -> Nat] /\ last_ack_sent' \in [Peers -> Nat]
    BY <1>0, <1>1, <1>2, ZenonT(60) DEF Types
  <2>2. delivered' \in [Peers -> Seq(PacketType)]
    BY <1>0, <1>2, <1>5 DEF Types
  <2>3. /\ wal' \in [Peers -> Replays] /\ in_flight' \in [Peers -> Seq(Items)]
        /\ acked' \in [Peers -> SUBSET Nat] /\ walErrors' \in Nat
    BY <1>3 DEF AcksTo
  <2>4. QED
    BY <1>0, <1>2, <2>1, <2>2, <2>3, SameTypes DEF Types
<1>7. \A q \in Peers : SentBy(q)' = SentBy(q)
  BY <1>2, SameNet
<1>8. Onward
  <2>1. walErrors' >= walErrors /\ crashes' >= crashes /\ agreed' >= agreed
    BY <1>0, <1>2, <1>3 DEF AcksTo, Types
  <2>2. QED
    BY <1>2, <1>7, <2>1 DEF Onward
<1>9. /\ last_received'[p] = x.sequence /\ delivered'[p] = Append(delivered[p], x)
      /\ \A q \in Peers : q # p => /\ last_received'[q] = last_received[q]
                                   /\ last_ack_sent'[q] = last_ack_sent[q]
                                   /\ delivered'[q] = delivered[q]
  BY <1>0, <1>2 DEF Types
<1>10. \A q \in Peers : q # p => Calm(q)
  <2>1. \A q \in Peers : q # p =>
          wal'[q] = wal[q] /\ in_flight'[q] = in_flight[q] /\ acked'[q] = acked[q]
    BY <1>3 DEF AcksTo
  <2>2. QED
    BY <1>2, <1>7, <1>9, <2>1 DEF Calm
<1>11. /\ Len(in_flight'[p]) <= Len(in_flight[p])
       /\ \A i \in 1 .. Len(in_flight'[p]) : \E j \in 1 .. Len(in_flight[p]) :
            in_flight'[p][i] = in_flight[p][j]
       /\ wal'[p] = wal[p] \/ WalLoses(wal'[p], wal[p], k)
       /\ \A n \in acked'[p] : n \in acked[p] \/ n <= k
  BY <1>3 DEF AcksTo
<1>12. Bounds'
  <2>1. Len(in_flight'[p]) <= MaxInFlight
    <3>1. Len(in_flight'[p]) \in Nat /\ Len(in_flight[p]) <= MaxInFlight /\ MaxInFlight \in Nat
      <4>1. in_flight'[p] \in Seq(Items)
        BY <1>3 DEF AcksTo
      <4>2. QED
        BY <4>1, <1>0, ReplicatorAssumption DEF Bounds
    <3>2. QED
      BY <3>1, <1>4, <1>11
  <2>2. \A q \in Peers : q # p => in_flight'[q] = in_flight[q]
    BY <1>10 DEF Calm
  <2>3. QED
    BY <2>1, <2>2, <1>0, <1>2 DEF Bounds
<1> DEFINE Q == QueueOf(p)
           R == QueueOf(p)'
           w == wal[p].pending
           v == wal'[p].pending
<1>13. \A y \in PacketType : y.sequence \in Nat
  BY PacketFacts
<1>14. QueueShape(p) /\ QueueShape(p)' /\ Q \in Seq(PacketType) /\ R \in Seq(PacketType)
  <2>1. QueueShape(p) /\ QueueShape(p)'
    BY <1>0, <1>6, QueueFacts, QueueFactsNext
  <2>2. PacketType' = PacketType
    BY <1>2, SameTypes
  <2>3. QED
    BY <2>1, <2>2 DEF QueueShape
<1>15. /\ \A i \in 1 .. Len(R) : \E j \in 1 .. Len(Q) : R[i] = Q[j]
       /\ Distinct(Q) => Distinct(R)
       /\ Rising(Q) => Rising(R)
       /\ Under(Q, next_sequence[p]) => Under(R, next_sequence[p])
  <2>1. Sub(R, Q)
    BY <1>2, <1>3 DEF AcksTo, QueueOf
  <2> HIDE DEF Q, R
  <2>2. QED
    BY <1>4, <1>13, <1>14, <2>1, SubKeeps
<1>16. /\ \A j \in 1 .. Len(v) : \E i \in 1 .. Len(w) : v[j] = w[i]
       /\ Distinct(w) => Distinct(v)
       /\ Rising(w) => Rising(v)
  <2>1. CASE wal'[p] = wal[p]
    BY <2>1
  <2>2. CASE WalLoses(wal'[p], wal[p], k)
    BY <2>2 DEF WalLoses
  <2>3. QED
    BY <1>11, <2>1, <2>2
<1>17. Numbered(p)'
  <2>1. Distinct(w) /\ Under(w, next_sequence[p]) /\ Distinct(Q) /\ Under(Q, next_sequence[p])
    BY <1>0 DEF Numbered
  <2>2. Under(v, next_sequence[p])
    BY <1>16, <2>1 DEF Under
  <2>3. \A i \in 1 .. Len(in_flight'[p]) : in_flight'[p][i].packet \in SentBy(p)'
    BY <1>0, <1>7, <1>11 DEF Numbered
  <2>4. QED
    BY <1>2, <1>15, <1>16, <2>1, <2>2, <2>3 DEF Numbered
<1>18. PayloadsOnce(p)'
  <2>1. ToSet(v) \subseteq ToSet(w)
    <3>1. v \in Seq(PacketType)
      BY <1>3 DEF AcksTo, Replays
    <3>2. ToSet(v) = {v[j] : j \in 1 .. Len(v)} /\ ToSet(w) = {w[j] : j \in 1 .. Len(w)}
      BY <1>4, <3>1, ToSetFacts
    <3> HIDE DEF v, w
    <3>3. QED
      BY <3>2, <1>16
  <2>2. Known(p)' \subseteq Known(p)
    BY <1>2, <1>7, <2>1 DEF Known
  <2>3. QED
    BY <1>0, <1>2, <2>2 DEF PayloadsOnce
<1>19. Deliveries(p)'
  <2> DEFINE d == delivered[p]
             e == delivered'[p]
  <2>1. Rising(d) /\ Under(d, last_received[p] + 1) /\ \A i \in 1 .. Len(d) : d[i] \in SentBy(Other[p])
    BY <1>0, <1>2 DEF Deliveries
  <2>2. Under(d, x.sequence)
    <3>1. \A i \in 1 .. Len(d) : d[i].sequence \in Nat
      BY <1>4, <1>13
    <3>2. \A i \in 1 .. Len(d) : d[i].sequence < last_received[p] + 1
      BY <2>1 DEF Under
    <3> HIDE DEF d
    <3>3. QED
      BY <1>1, <1>2, <1>4, <3>1, <3>2 DEF Under
  <2>3. Appended(e, d, x)
    BY <1>5, <1>9
  <2> HIDE DEF d, e
  <2>4. d \in Seq(PacketType)
    BY <1>4 DEF d
  <2>5. /\ Rising(d) => Rising(e)
        /\ Under(e, x.sequence + 1)
        /\ \A i \in 1 .. Len(e) : e[i] = x \/ (i \in 1 .. Len(d) /\ e[i] = d[i])
    BY <1>1, <1>13, <2>2, <2>3, <2>4, AppendedKeeps
  <2>6. \A i \in 1 .. Len(e) : e[i] \in SentBy(Other[p])'
    BY <1>1, <1>7, <2>1, <2>5
  <2>7. QED
    BY <1>9, <2>1, <2>5, <2>6 DEF Deliveries, e
<1>20. crashes' <= 1 => Ordered1(p)'
  BY <1>2, <1>15 DEF ReplicatorIInv, Ordered1
<1>21. ASSUME crashes' = 0 PROVE FirstLife(p)
  BY <1>2, <1>21 DEF ReplicatorIInv
<1>22. Packets(p)' = Packets(p)
  BY <1>2, <1>7 DEF Packets
<1>23. ASSUME crashes' = 0 PROVE Moves(p)
  <2>1. \A n \in Nat : Passed(p, n) => Passed(p, n)'
    BY <1>2 DEF Passed
  <2>2. Steady(p)' = Steady(p)
    BY <1>2 DEF Steady
  <2>3. \A n \in acked'[p] : n \in acked[p] \/ \E y \in SentBy(Other[p]) : n <= y.ack
    BY <1>1, <1>11 DEF k, x
  <2>4. last_received[p] <= last_received'[p]
    BY <1>1, <1>2, <1>4, <1>9
  <2>5. \E y \in SentBy(Other[p]) : last_received'[p] = y.sequence
    BY <1>1, <1>9
  <2>6. QED
    BY <1>2, <1>7, <1>22, <2>1, <2>2, <2>3, <2>4, <2>5 DEF Moves
<1>24. ASSUME crashes' = 0 PROVE Logged(p)'
  <2>1. Logged(p)
    BY <1>21, <1>24 DEF FirstLife
  <2>2. \A i \in 1 .. Len(pending[p]) : k < pending[p][i].sequence /\ pending[p][i].sequence \in Nat
    <3>1. FirstLife(p)
      BY <1>21, <1>24
    <3>2. x \in Packets(Other[p])
      BY <1>1 DEF Packets
    <3>3. Passed(p, k)
      BY <3>1, <3>2 DEF FirstLife, k, x
    <3>4. QED
      BY <3>3, <1>4, <1>13 DEF Passed
  <2>3. SUFFICES ASSUME wal'[p].status = "ok" PROVE
          /\ \A i \in 1 .. Len(pending[p]) : \E j \in 1 .. Len(v) :
               v[j].sequence = pending[p][i].sequence
          /\ walErrors' = 0 =>
               \A i \in 1 .. Len(R) : \E j \in 1 .. Len(v) :
                 v[j].sequence = R[i].sequence /\ v[j].payload = R[i].payload
    BY <1>2 DEF Logged
  <2>4. /\ wal[p].status = "ok"
        /\ \A i \in 1 .. Len(w) : wal'[p] = wal[p] \/ w[i].sequence > k =>
             \E j \in 1 .. Len(v) : v[j] = w[i]
    <3>1. CASE wal'[p] = wal[p]
      BY <3>1, <2>3
    <3>2. CASE WalLoses(wal'[p], wal[p], k) /\ wal'[p] # wal[p]
      BY <3>2, <2>3 DEF WalLoses
    <3>3. QED
      BY <1>11, <3>1, <3>2
  <2>5. /\ \A i \in 1 .. Len(pending[p]) : \E j \in 1 .. Len(w) : w[j].sequence = pending[p][i].sequence
        /\ walErrors = 0 =>
             \A i \in 1 .. Len(Q) : \E j \in 1 .. Len(w) :
               w[j].sequence = Q[i].sequence /\ w[j].payload = Q[i].payload
    BY <2>1, <2>4 DEF Logged
  <2>6. ASSUME NEW i \in 1 .. Len(pending[p])
        PROVE  \E j \in 1 .. Len(v) : v[j].sequence = pending[p][i].sequence
    <3>1. PICK j \in 1 .. Len(w) : w[j].sequence = pending[p][i].sequence
      BY <2>5
    <3> HIDE DEF w, v
    <3>2. w[j].sequence > k
      BY <3>1, <2>2, <1>1
    <3>3. PICK l \in 1 .. Len(v) : v[l] = w[j]
      BY <3>2, <2>4
    <3>4. QED
      BY <3>1, <3>3
  <2>7. ASSUME walErrors' = 0, NEW i \in 1 .. Len(R)
        PROVE  \E j \in 1 .. Len(v) : v[j].sequence = R[i].sequence /\ v[j].payload = R[i].payload
    <3>1. walErrors = 0
      BY <2>7, <1>0, <1>3 DEF AcksTo, Types
    <3>2. wal'[p] = wal[p] \/ R[i].sequence > k
      <4>1. \/ \E j \in 1 .. Len(in_flight'[p]) : R[i] = in_flight'[p][j].packet
            \/ \E j \in 1 .. Len(pending[p]) : R[i] = pending[p][j]
        BY <1>2, <1>14 DEF QueueShape
      <4>2. \/ wal'[p] = wal[p]
            \/ \A j \in 1 .. Len(in_flight'[p]) : in_flight'[p][j].packet.sequence > k
        BY <2>7, <1>3 DEF AcksTo
      <4>3. \A j \in 1 .. Len(pending[p]) : pending[p][j].sequence > k
        BY <2>2, <1>1
      <4> HIDE DEF R
      <4>4. QED
        BY <4>1, <4>2, <4>3
    <3>3. PICK l \in 1 .. Len(Q) : R[i] = Q[l]
      BY <1>15
    <3>4. PICK j \in 1 .. Len(w) : w[j].sequence = Q[l].sequence /\ w[j].payload = Q[l].payload
      BY <2>5, <3>1
    <3> HIDE DEF Q, R, w, v
    <3>5. PICK n \in 1 .. Len(v) : v[n] = w[j]
      BY <2>4, <3>2, <3>3, <3>4
    <3>6. QED
      BY <3>3, <3>4, <3>5
  <2>8. QED
    BY <2>6, <2>7
<1>25. ASSUME crashes' = 0 PROVE Locally(p)
  <2>1. Pristine(p)'
    BY <1>2 DEF Pristine
  <2>2. Deltas(p)'
    BY <1>2, <1>21, <1>22, <1>25 DEF FirstLife, Deltas
  <2>3. Rising(v)
    BY <1>16, <1>21, <1>25 DEF FirstLife
  <2>4. /\ used'[p] <= agreed'
        /\ used'[p] = NoSession => session_nonce'[p] = NoSession /\ last_received'[p] = 0
    BY <1>2, <1>21, <1>25 DEF FirstLife
  <2>5. QED
    BY <1>24, <1>25, <2>1, <2>2, <2>3, <2>4 DEF Locally
<1>26. \A q \in Peers : Calm(q) \/ Holds(q)
  BY <1>10, <1>17, <1>18, <1>19, <1>20, <1>23, <1>25 DEF Holds
<1>27. QED
  BY <1>6, <1>8, <1>12, <1>26, Assemble

-----------------------------------------------------------------------------
(* The invariant of the specification, and what follows from it.           *)

LEMMA ReplicatorStart ==
  ASSUME Init
  PROVE  ReplicatorIInv
<1> USE DEF Init
<1>1. Types
  <2>1. wal \in [Peers -> Replays]
    BY DEF Loaded, Replays, Statuses
  <2>2. pending \in [Peers -> Seq(PacketType)] /\ delivered \in [Peers -> Seq(PacketType)]
        /\ in_flight \in [Peers -> Seq(Items)]
    OBVIOUS
  <2>3. QED
    BY <2>1, <2>2 DEF Types, NoSession
<1>2. Bounds
  BY ReplicatorAssumption DEF Bounds
<1>3. \A p \in Peers : SentBy(p) = {}
  BY ReplicatorAssumption DEF SentBy
<1>4. ASSUME NEW p \in Peers
      PROVE  /\ pending[p] = <<>> /\ in_flight[p] = <<>> /\ wal[p].pending = <<>>
             /\ wal[p] = Loaded(<<>>)
             /\ delivered[p] = <<>> /\ Len(QueueOf(p)) = 0 /\ acked[p] = {}
             /\ ToSet(pending[p]) = {} /\ ToSet(wal[p].pending) = {}
             /\ SentBy(p) = {} /\ SentBy(Other[p]) = {} /\ Other[p] \in Peers
             /\ ToSet(pending[Other[p]]) = {} /\ acked[Other[p]] = {}
             /\ next_sequence[p] = 1 /\ last_received[p] = 0 /\ last_received[Other[p]] = 0
             /\ last_ack_sent[p] = 0 /\ session_nonce[p] = NoSession /\ used[p] = NoSession
             /\ ~up[p]
  <2>1. Other[p] \in Peers
    BY ReplicatorAssumption
  <2>2. pending[p] = <<>> /\ in_flight[p] = <<>> /\ wal[p].pending = <<>> /\ delivered[p] = <<>>
        /\ pending[Other[p]] = <<>> /\ wal[p] = Loaded(<<>>)
    BY <2>1 DEF Loaded
  <2>3. ToSet(<<>>) = {}
    BY DEF ToSet
  <2>4. Len(QueueOf(p)) = 0
    <3>1. QueueShape(p)
      BY <1>1, QueueFacts
    <3>2. QED
      BY <2>2, <3>1 DEF QueueShape
  <2>5. QED
    BY <1>3, <2>1, <2>2, <2>3, <2>4
<1>5. ASSUME NEW p \in Peers
      PROVE  Numbered(p) /\ PayloadsOnce(p) /\ Deliveries(p) /\ Ordered1(p)
  <2>1. Numbered(p)
    BY <1>4 DEF Numbered, Distinct, Under
  <2>2. PayloadsOnce(p)
    BY <1>4 DEF PayloadsOnce, Known
  <2>3. Deliveries(p)
    BY <1>4 DEF Deliveries, Rising, Under
  <2>4. Ordered1(p)
    <3>1. Rising(QueueOf(p))
      BY <1>4 DEF Rising
    <3>2. Rising(wal[p].pending)
      BY <1>4 DEF Rising
    <3>3. QED
      BY <3>1, <3>2 DEF Ordered1
  <2>5. QED
    BY <2>1, <2>2, <2>3, <2>4
<1>6. ASSUME NEW p \in Peers
      PROVE  FirstLife(p)
  <2>1. Packets(p) = {} /\ Packets(Other[p]) = {}
    BY <1>4 DEF Packets
  <2>2. Rising(wal[p].pending)
    BY <1>4 DEF Rising
  <2>3. Pristine(p)
    BY <1>4 DEF Pristine
  <2>4. Passed(p, 0)
    BY <1>4 DEF Passed
  <2>5. Logged(p)
    BY <1>4 DEF Logged
  <2>6. Acknowledged(p)
    BY <1>4, <2>1 DEF Acknowledged
  <2>7. Deltas(p)
    BY <1>4, <2>1 DEF Deltas
  <2>8. used[p] <= agreed
    BY <1>4 DEF NoSession
  <2>9. QED
    BY <1>4, <2>1, <2>2, <2>3, <2>4, <2>5, <2>6, <2>7, <2>8 DEF FirstLife
<1>7. QED
  BY <1>1, <1>2, <1>5, <1>6 DEF ReplicatorIInv

LEMMA ReplicatorStep ==
  ASSUME ReplicatorIInv, [Next]_vars
  PROVE  ReplicatorIInv'
<1>1. CASE RenewSession
  BY <1>1, RenewSessionKeeps
<1>2. ASSUME NEW p \in Peers, Boot(p) PROVE ReplicatorIInv'
  BY <1>2, BootKeeps
<1>3. ASSUME NEW p \in Peers, Crash(p) PROVE ReplicatorIInv'
  BY <1>3, CrashKeeps
<1>4. ASSUME NEW p \in Peers, NEW m \in {"Offline", "Online"}, SetMode(p, m) PROVE ReplicatorIInv'
  BY <1>4, SetModeKeeps
<1>5. ASSUME NEW p \in Peers, SetSessionNonce(p) \/ ClearSession(p) PROVE ReplicatorIInv'
  BY <1>5, SessionKeeps
<1>6. ASSUME NEW p \in Peers, NEW kind \in bounds.kinds, NEW key \in Keys, Enqueue(p, kind, key)
      PROVE  ReplicatorIInv'
  BY <1>6, EnqueueKeeps
<1>7. ASSUME NEW p \in Peers, NEW key \in Keys, Coalesce(p, key) PROVE ReplicatorIInv'
  BY <1>7, CoalesceKeeps
<1>8. ASSUME NEW p \in Peers, Pump(p) PROVE ReplicatorIInv'
  BY <1>8, PumpKeeps
<1>9. ASSUME NEW p \in Peers, NEW m \in net[p], Receive(p, m) PROVE ReplicatorIInv'
  BY <1>9, ReceiveKeeps
<1>10. CASE UNCHANGED vars
  <2> USE <1>10 DEF vars, local
  <2>1. Types'
    BY SameTypes DEF ReplicatorIInv, Types
  <2>2. \A q \in Peers : SentBy(q)' = SentBy(q)
    BY SameNet
  <2>3. Onward
    BY <2>2 DEF Onward, ReplicatorIInv, Types
  <2>4. \A q \in Peers : Calm(q)
    BY <2>2 DEF Calm
  <2>5. Bounds'
    BY DEF ReplicatorIInv, Bounds
  <2>6. QED
    BY <2>1, <2>3, <2>4, <2>5, Assemble
<1>11. QED
  BY <1>1, <1>2, <1>3, <1>4, <1>5, <1>6, <1>7, <1>8, <1>9, <1>10 DEF Next

\* QueueInv follows: the queues of the property are the list of the invariant.
LEMMA QueuesFollow ==
  ReplicatorIInv => QueueInv
<1> SUFFICES ASSUME ReplicatorIInv PROVE QueueInv
  OBVIOUS
<1>1. Types /\ Bounds
  BY DEF ReplicatorIInv
<1>2. ASSUME NEW p \in Peers
      PROVE  /\ Queue(p) = QueueOf(p) /\ DOMAIN Queue(p) = 1 .. Len(QueueOf(p))
             /\ ToSet(Queue(p)) = {QueueOf(p)[i] : i \in 1 .. Len(QueueOf(p))}
  <2>1. Queue(p) = QueueOf(p)
    BY DEF Queue, QueueOf, PacketsOf
  <2>2. QueueOf(p) \in Seq(PacketType)
    BY <1>1, QueueFacts DEF QueueShape
  <2>3. QED
    BY <2>1, <2>2, ToSetFacts
<1>3. TypeOK
  <2>1. /\ up \in [Peers -> BOOLEAN] /\ mode \in [Peers -> {"Offline", "Online"}]
        /\ \A f \in {next_sequence, last_received, last_ack_sent, session_nonce, enqueued} :
             f \in [Peers -> Nat]
    BY <1>1 DEF Types
  <2>2. ASSUME NEW p \in Peers
        PROVE  /\ ToSet(pending[p]) \subseteq PacketType /\ Len(pending[p]) <= MaxPending
               /\ Len(in_flight[p]) <= MaxInFlight
               /\ ToSet(wal[p].pending) \subseteq PacketType
               /\ \A m \in net[p] : m.packet \in PacketType
    <3>1. /\ pending[p] \in Seq(PacketType) /\ wal[p].pending \in Seq(PacketType)
          /\ net[p] \in SUBSET Envelopes
      BY <1>1, PeerFacts
    <3>2. ToSet(pending[p]) \subseteq PacketType /\ ToSet(wal[p].pending) \subseteq PacketType
      BY <3>1, ToSetFacts
    <3>3. \A m \in net[p] : m.packet \in PacketType
      BY <3>1 DEF Envelopes
    <3>4. QED
      BY <3>2, <3>3, <1>1 DEF Bounds
  <2>3. ASSUME NEW p \in Peers, NEW x \in ToSet(in_flight[p])
        PROVE  x.packet \in PacketType /\ x.age \in 0 .. ResendAfter /\ x.retries \in 0 .. MaxRetries
    <3>1. x \in Items
      BY <1>1, PeerFacts, ToSetFacts
    <3>2. QED
      BY <3>1 DEF Items
  <2>4. QED
    BY <2>1, <2>2, <2>3 DEF TypeOK
<1>4. NumbersIncrease
  <2>1. ASSUME NEW p \in Peers
        PROVE  /\ \A i, j \in 1 .. Len(QueueOf(p)) :
                    QueueOf(p)[i].sequence = QueueOf(p)[j].sequence => i = j
               /\ \A i \in 1 .. Len(QueueOf(p)) : QueueOf(p)[i].sequence < next_sequence[p]
               /\ crashes <= 1 =>
                    \A i, j \in 1 .. Len(QueueOf(p)) :
                      i < j => QueueOf(p)[i].sequence < QueueOf(p)[j].sequence
    <3>1. Numbered(p) /\ (crashes <= 1 => Ordered1(p))
      BY DEF ReplicatorIInv
    <3>2. Distinct(QueueOf(p)) /\ Under(QueueOf(p), next_sequence[p])
          /\ (crashes <= 1 => Rising(QueueOf(p)))
      BY <3>1 DEF Numbered, Ordered1
    <3>3. QED
      BY <3>2 DEF Distinct, Under, Rising
  <2>2. QED
    BY <1>2, <2>1 DEF NumbersIncrease
<1>5. LogCoversQueue
  <2>1. SUFFICES ASSUME NEW p \in Peers, crashes = 0, walErrors = 0, wal[p].status = "ok",
                        NEW q \in ToSet(Queue(p))
                 PROVE  \E r \in ToSet(wal[p].pending) :
                          r.sequence = q.sequence /\ r.payload = q.payload
    BY DEF LogCoversQueue
  <2>2. Logged(p)
    BY <2>1 DEF ReplicatorIInv, FirstLife
  <2>3. PICK i \in 1 .. Len(QueueOf(p)) : q = QueueOf(p)[i]
    BY <1>2, <2>1
  <2>4. \A k \in 1 .. Len(QueueOf(p)) : \E j \in 1 .. Len(wal[p].pending) :
          /\ wal[p].pending[j].sequence = QueueOf(p)[k].sequence
          /\ wal[p].pending[j].payload = QueueOf(p)[k].payload
    BY <2>1, <2>2 DEF Logged
  <2>5. PICK j \in 1 .. Len(wal[p].pending) :
          wal[p].pending[j].sequence = q.sequence /\ wal[p].pending[j].payload = q.payload
    BY <2>3, <2>4
  <2>6. wal[p].pending[j] \in ToSet(wal[p].pending)
    <3>1. wal[p].pending \in Seq(PacketType)
      BY <1>1, PeerFacts
    <3>2. QED
      BY <3>1, ToSetFacts
  <2>7. QED
    BY <2>5, <2>6
<1>6. QED
  BY <1>3, <1>4, <1>5 DEF QueueInv

\* A payload has one number, numbers of deliveries rise, and before any crash
\* the payloads of a key's deltas rise with their numbers.
LEMMA DeliveriesFollow ==
  ReplicatorIInv => DeliveredInOrder
<1> SUFFICES ASSUME ReplicatorIInv PROVE DeliveredInOrder
  OBVIOUS
<1>1. ASSUME NEW p \in Peers
      PROVE  /\ Other[p] \in Peers /\ DOMAIN delivered[p] = 1 .. Len(delivered[p])
             /\ \A i \in 1 .. Len(delivered[p]) : /\ delivered[p][i] \in SentBy(Other[p])
                                                  /\ delivered[p][i].sequence \in Nat
             /\ Rising(delivered[p])
  <2>1. Types /\ Deliveries(p)
    BY DEF ReplicatorIInv
  <2>2. delivered[p] \in Seq(PacketType) /\ Other[p] \in Peers
    BY <2>1, PeerFacts
  <2>3. \A i \in 1 .. Len(delivered[p]) : delivered[p][i].sequence \in Nat
    BY <2>2, PacketFacts
  <2>4. QED
    BY <2>1, <2>2, <2>3 DEF Deliveries
<1>2. DeliveredOnce
  <2>1. SUFFICES ASSUME NEW p \in Peers, NEW i \in 1 .. Len(delivered[p]),
                        NEW j \in 1 .. Len(delivered[p]), i # j,
                        delivered[p][i].payload = delivered[p][j].payload
                 PROVE  FALSE
    BY <1>1 DEF DeliveredOnce
  <2>2. delivered[p][i] \in Known(Other[p]) /\ delivered[p][j] \in Known(Other[p])
    BY <1>1, <2>1 DEF Known
  <2>3. delivered[p][i].sequence = delivered[p][j].sequence
    BY <1>1, <2>1, <2>2 DEF ReplicatorIInv, PayloadsOnce
  <2>4. i < j \/ j < i
    BY <2>1
  <2>5. QED
    BY <1>1, <2>1, <2>3, <2>4 DEF Rising
<1>3. DeltasInOrder
  <2>1. SUFFICES ASSUME crashes = 0, NEW p \in Peers, NEW i \in 1 .. Len(delivered[p]),
                        NEW j \in 1 .. Len(delivered[p]), i < j,
                        delivered[p][i].kind = "Delta", delivered[p][j].kind = "Delta",
                        delivered[p][i].key = delivered[p][j].key
                 PROVE  delivered[p][i].payload < delivered[p][j].payload
    BY <1>1 DEF DeltasInOrder
  <2>2. delivered[p][i] \in Packets(Other[p]) /\ delivered[p][j] \in Packets(Other[p])
    BY <1>1, <2>1 DEF Packets
  <2>3. delivered[p][i].sequence < delivered[p][j].sequence
    BY <1>1, <2>1 DEF Rising
  <2>4. Deltas(Other[p])
    BY <1>1, <2>1 DEF ReplicatorIInv, FirstLife
  <2>5. QED
    BY <2>1, <2>2, <2>3, <2>4 DEF Deltas
<1>4. QED
  BY <1>2, <1>3 DEF DeliveredInOrder

LEMMA AcksFollow ==
  ReplicatorIInv => AckedIsReached
<1> SUFFICES ASSUME ReplicatorIInv, crashes = 0, agreed = 1,
                    \A p \in Peers : session_nonce[p] # NoSession,
                    NEW p \in Peers, NEW n \in acked[p]
             PROVE  n <= last_received[Other[p]]
  BY DEF AckedIsReached
<1>1. Other[p] \in Peers /\ Other[Other[p]] = p
  BY PeerFacts DEF ReplicatorIInv
<1>2. Acknowledged(Other[p])
  BY <1>1 DEF ReplicatorIInv, FirstLife
<1>3. Steady(Other[p])
  BY <1>1 DEF Steady
<1>4. QED
  BY <1>1, <1>2, <1>3 DEF Acknowledged

(***************************************************************************)
(* The invariant holds in every reachable state.                           *)
(***************************************************************************)
THEOREM ReplicatorInvariant == Spec => []ReplicatorIInv
<1>1. Init => ReplicatorIInv
  BY ReplicatorStart
<1>2. ReplicatorIInv /\ [Next]_vars => ReplicatorIInv'
  BY ReplicatorStep
<1>3. QED
  BY <1>1, <1>2, PTL DEF Spec

(***************************************************************************)
(* The queues of a replicator (pending and in_flight of sync.rs) stay      *)
(* within their limits, hold no number twice and none that is still to be  *)
(* given out, are in order up to the first restart from the log, and are   *)
(* covered by the log while nobody has crashed and no log write failed.    *)
(***************************************************************************)
THEOREM QueuesAreSound == Spec => []QueueInv
BY ReplicatorInvariant, QueuesFollow, PTL

(***************************************************************************)
(* try_acknowledge drops a packet from in_flight only when the peer has    *)
(* received its number or a later one, while nobody restarts and the       *)
(* session lasts.                                                          *)
(***************************************************************************)
THEOREM AcksAreReached == Spec => []AckedIsReached
BY ReplicatorInvariant, AcksFollow, PTL

(***************************************************************************)
(* receive hands no payload to the application twice in a session, through *)
(* any crashes, duplicates and resends; and before any crash it hands over *)
(* the deltas of a key in the order they were enqueued.                    *)
(***************************************************************************)
THEOREM DeliveriesAreOrdered == Spec => []DeliveredInOrder
BY ReplicatorInvariant, DeliveriesFollow, PTL
=============================================================================
