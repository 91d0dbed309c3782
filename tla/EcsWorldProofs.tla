--------------------------- MODULE EcsWorldProofs ---------------------------
(***************************************************************************)
(* The ECS world for any number of slots, generations, component types and *)
(* bits per word.  Three layers: what the operations of the bit mask do to *)
(* the set of slots it marks; what try_insert and remove do to one         *)
(* sparse-set storage; and the world, whose entity table, masks and        *)
(* storages stay in step (WorldIsCoherent), never lead from an old handle  *)
(* to a new entity (RecyclingIsSound), and give a query only what belongs  *)
(* to the entity it visits (QueriesAreSound).                              *)
(***************************************************************************)
EXTENDS EcsWorld, NatSets, FiniteSetTheorems, TLAPS

Words == Seq(SUBSET (0 .. WordBits - 1))

-----------------------------------------------------------------------------
(* The bit mask.                                                           *)

\* Bit i of a mask, as the code addresses it: word i / 64, bit i % 64.
Bit(words, i) ==
  (i \div WordBits) + 1 <= Len(words) /\ i % WordBits \in words[(i \div WordBits) + 1]

\* A mask is a sequence.
LEMMA WordsLength ==
  ASSUME NEW words \in Words
  PROVE  Len(words) \in Nat
  BY DEF Words

\* Where an index is in a mask.
LEMMA BitPlace ==
  ASSUME NEW i \in Nat
  PROVE  /\ i \div WordBits \in Nat /\ i % WordBits \in 0 .. WordBits - 1
         /\ i = WordBits * (i \div WordBits) + (i % WordBits)
         /\ word_count(i + 1) = (i \div WordBits) + 1
<1> DEFINE W == WordBits
           q == i \div W
           r == i % W
<1>1. W \in Nat /\ W > 0
  BY WordBitsAssumption
<1>2. q \in Nat /\ r \in 0 .. W - 1 /\ i = W * q + r
  BY <1>1, Division
<1>3. (i + 1) + W - 1 = W * (q + 1) + r
  <2> HIDE DEF W, q, r
  <2>1. W * (q + 1) = W * q + W /\ W * q \in Nat
    BY <1>1, <1>2
  <2>2. QED
    BY <1>1, <1>2, <2>1
<1>4. (W * (q + 1) + r) \div W = q + 1
  <2> HIDE DEF W, q, r
  <2>1. q + 1 \in Nat
    BY <1>2
  <2>2. QED
    BY <1>1, <1>2, <2>1, DivisionUnique
<1>5. QED
  BY <1>2, <1>3, <1>4 DEF word_count

\* The walk meets exactly the indices whose bit is set.
LEMMA WalkMeetsBits ==
  ASSUME NEW words \in Words
  PROVE  /\ Walk(words) \subseteq Nat
         /\ \A i \in Nat : i \in Walk(words) <=> Bit(words, i)
<1>0. /\ Len(words) \in Nat /\ WordBits \in Nat /\ WordBits > 0
      /\ \A w \in 1 .. Len(words) : words[w] \subseteq 0 .. WordBits - 1
  BY WordBitsAssumption DEF Words
<1>1. ASSUME NEW w \in 1 .. Len(words), NEW b \in 0 .. WordBits - 1
      PROVE  /\ (w - 1) * WordBits + b \in Nat
             /\ ((w - 1) * WordBits + b) \div WordBits = w - 1
             /\ ((w - 1) * WordBits + b) % WordBits = b
  <2> DEFINE q == w - 1
             W == WordBits
  <2>1. q \in Nat /\ q * W = W * q
    BY <1>0
  <2> HIDE DEF q, W
  <2>2. W \in Nat /\ W > 0 /\ b \in 0 .. W - 1
    BY <1>0 DEF W
  <2>3. (W * q + b) \div W = q /\ (W * q + b) % W = b /\ W * q + b \in Nat
    BY <2>1, <2>2, DivisionUnique
  <2>4. QED
    BY <2>1, <2>3 DEF q, W
<1>2. \A i : i \in Walk(words) <=> \E w \in 1 .. Len(words), b \in 0 .. WordBits - 1 :
                 b \in words[w] /\ i = (w - 1) * WordBits + b
  BY <1>0 DEF Walk
<1>3. Walk(words) \subseteq Nat
  BY <1>1, <1>2
<1>4. ASSUME NEW i \in Nat, i \in Walk(words)
      PROVE  Bit(words, i)
  <2>1. PICK w \in 1 .. Len(words), b \in 0 .. WordBits - 1 :
                 b \in words[w] /\ i = (w - 1) * WordBits + b
    BY <1>2, <1>4
  <2>2. i \div WordBits = w - 1 /\ i % WordBits = b
    BY <1>1, <2>1
  <2>3. (w - 1) + 1 = w /\ w <= Len(words)
    BY <1>0
  <2>4. QED
    BY <2>1, <2>2, <2>3 DEF Bit
<1>5. ASSUME NEW i \in Nat, Bit(words, i)
      PROVE  i \in Walk(words)
  <2> DEFINE w == (i \div WordBits) + 1
             b == i % WordBits
  <2>1. /\ i \div WordBits \in Nat /\ b \in 0 .. WordBits - 1
        /\ i = WordBits * (i \div WordBits) + b
    BY BitPlace
  <2>2. w <= Len(words) /\ b \in words[w]
    BY <1>5 DEF Bit
  <2>3. w \in 1 .. Len(words) /\ w - 1 = i \div WordBits
    BY <1>0, <2>1, <2>2
  <2>4. (w - 1) * WordBits = WordBits * (i \div WordBits)
    BY <1>0, <2>1, <2>3
  <2> HIDE DEF w, b
  <2>5. QED
    BY <1>2, <2>1, <2>2, <2>3, <2>4
<1>6. QED
  BY <1>3, <1>4, <1>5

\* The slots of a mask.
LEMMA MarkedBits ==
  ASSUME NEW words \in Words
  PROVE  \A s : s \in Marked(words) <=> s \in Nat /\ s >= 1 /\ Bit(words, s - 1)
<1>1. /\ Walk(words) \subseteq Nat
      /\ \A i \in Nat : i \in Walk(words) <=> Bit(words, i)
  BY WalkMeetsBits
<1>2. \A s : s \in Marked(words) <=> \E i \in Walk(words) : s = i + 1
  BY DEF Marked
<1>3. ASSUME NEW s \in Marked(words)
      PROVE  s \in Nat /\ s >= 1 /\ Bit(words, s - 1)
  <2>1. PICK i \in Walk(words) : s = i + 1
    BY <1>2
  <2>2. i \in Nat /\ s - 1 = i
    BY <1>1, <2>1
  <2>3. QED
    BY <1>1, <2>1, <2>2
<1>4. ASSUME NEW s \in Nat, s >= 1, Bit(words, s - 1)
      PROVE  s \in Marked(words)
  <2>1. s - 1 \in Nat /\ s = (s - 1) + 1
    BY <1>4
  <2>2. QED
    BY <1>1, <1>2, <1>4, <2>1
<1>5. QED
  BY <1>3, <1>4

\* Growing a mask adds words of zeros up to the word of the index.
LEMMA ReservedWords ==
  ASSUME NEW words \in Words, NEW i \in Nat
  PROVE  /\ Reserved(words, i) \in Words
         /\ Len(Reserved(words, i)) \in Nat
         /\ Len(words) <= Len(Reserved(words, i))
         /\ (i \div WordBits) + 1 <= Len(Reserved(words, i))
         /\ \A w \in 1 .. Len(Reserved(words, i)) :
              Reserved(words, i)[w] = IF w <= Len(words) THEN words[w] ELSE {}
<1> DEFINE T == SUBSET (0 .. WordBits - 1)
           q == (i \div WordBits) + 1
           n == IF word_count(i + 1) > Len(words) THEN word_count(i + 1) - Len(words) ELSE 0
           z == [w \in 1 .. n |-> {}]
<1>1. Len(words) \in Nat /\ q \in Nat /\ word_count(i + 1) = q
  <2>1. i \div WordBits \in Nat /\ word_count(i + 1) = (i \div WordBits) + 1
    BY BitPlace
  <2>2. \A n0 \in Nat : n0 + 1 \in Nat
    OBVIOUS
  <2>3. QED
    BY <2>1, <2>2, WordsLength
<1>2. n \in Nat /\ Len(words) + n >= q
  <2> HIDE DEF q
  <2>1. QED
    BY <1>1
<1>3. words \in Seq(T) /\ {} \in T
  BY DEF Words
<1> HIDE DEF n, q, T
<1>4. z \in Seq(T) /\ Len(z) = n /\ \A w \in 1 .. n : z[w] = {}
  BY <1>2, <1>3
<1> HIDE DEF z
<1>5. /\ words \o z \in Seq(T) /\ Len(words \o z) = Len(words) + n
      /\ \A w \in 1 .. Len(words) + n :
           (words \o z)[w] = IF w <= Len(words) THEN words[w] ELSE z[w - Len(words)]
  BY <1>1, <1>2, <1>3, <1>4
<1>6. \A w \in 1 .. Len(words) + n : ~(w <= Len(words)) => w - Len(words) \in 1 .. n
  BY <1>1, <1>2
<1>7. Reserved(words, i) = words \o z
  BY DEF Reserved, z, n
<1>8. Len(words) + n \in Nat /\ Len(words) <= Len(words) + n
  BY <1>1, <1>2
<1>9. QED
  BY <1>2, <1>4, <1>5, <1>6, <1>7, <1>8 DEF Words, T, q

\* Growing a mask marks nothing.
LEMMA ReservedMarks ==
  ASSUME NEW words \in Words, NEW i \in Nat
  PROVE  Reserved(words, i) \in Words /\ Marked(Reserved(words, i)) = Marked(words)
<1> DEFINE R == Reserved(words, i)
<1>1. /\ R \in Words /\ Len(R) \in Nat /\ Len(words) <= Len(R)
      /\ \A w \in 1 .. Len(R) : R[w] = IF w <= Len(words) THEN words[w] ELSE {}
  BY ReservedWords
<1> HIDE DEF R
<1>2. ASSUME NEW k \in Nat
      PROVE  Bit(R, k) <=> Bit(words, k)
  <2>1. k \div WordBits \in Nat /\ Len(words) \in Nat
    BY BitPlace, WordsLength
  <2>2. QED
    BY <1>1, <2>1 DEF Bit
<1>3. \A s \in Nat : s >= 1 => s - 1 \in Nat
  OBVIOUS
<1>4. Marked(R) = Marked(words)
  <2>1. \A s : s \in Marked(R) <=> s \in Nat /\ s >= 1 /\ Bit(R, s - 1)
    BY <1>1, MarkedBits
  <2>2. \A s : s \in Marked(words) <=> s \in Nat /\ s >= 1 /\ Bit(words, s - 1)
    BY MarkedBits
  <2>3. \A s \in Nat : s >= 1 => (Bit(R, s - 1) <=> Bit(words, s - 1))
    BY <1>2, <1>3
  <2>4. \A s : s \in Marked(R) <=> s \in Marked(words)
    BY <2>1, <2>2, <2>3
  <2>5. QED
    BY <2>4
<1>5. QED
  BY <1>1, <1>4 DEF R

\* Two indices with the same word and the same bit are the same.
LEMMA SameBit ==
  ASSUME NEW i \in Nat, NEW k \in Nat,
         i \div WordBits = k \div WordBits, i % WordBits = k % WordBits
  PROVE  i = k
<1>1. i = WordBits * (i \div WordBits) + (i % WordBits)
  BY BitPlace
<1>2. k = WordBits * (k \div WordBits) + (k % WordBits)
  BY BitPlace
<1>3. QED
  BY <1>1, <1>2

\* set marks one more slot.
LEMMA SetBitMarks ==
  ASSUME NEW words \in Words, NEW slot \in Nat, slot >= 1
  PROVE  /\ SetBit(words, slot - 1) \in Words
         /\ Marked(SetBit(words, slot - 1)) = Marked(words) \cup {slot}
<1> DEFINE i == slot - 1
           R == Reserved(words, i)
           q == (i \div WordBits) + 1
           r == i % WordBits
           N == [w \in 1 .. Len(R) |-> IF w = q THEN R[w] \cup {r} ELSE R[w]]
<1>0. i \in Nat
  OBVIOUS
<1>1. R \in Words /\ Len(R) \in Nat /\ q <= Len(R) /\ Marked(R) = Marked(words)
  <2> HIDE DEF i
  <2>1. QED
    BY <1>0, ReservedWords, ReservedMarks
<1>2. i \div WordBits \in Nat /\ r \in 0 .. WordBits - 1
  <2> HIDE DEF i
  <2>1. QED
    BY <1>0, BitPlace
<1>3. SetBit(words, slot - 1) = N
  BY DEF SetBit
<1> HIDE DEF i, R
<1>4. \A w \in 1 .. Len(R) : R[w] \in SUBSET (0 .. WordBits - 1)
  BY <1>1 DEF Words
<1>5. /\ N \in Words /\ Len(N) = Len(R)
      /\ \A w \in 1 .. Len(R) : N[w] = IF w = q THEN R[w] \cup {r} ELSE R[w]
  <2>1. \A w \in 1 .. Len(R) : (IF w = q THEN R[w] \cup {r} ELSE R[w]) \in SUBSET (0 .. WordBits - 1)
    BY <1>2, <1>4
  <2>2. N \in [1 .. Len(R) -> SUBSET (0 .. WordBits - 1)]
    BY <2>1
  <2> HIDE DEF q, r
  <2>3. QED
    BY <1>1, <2>2 DEF Words
<1> HIDE DEF N
<1>6. ASSUME NEW k \in Nat
      PROVE  Bit(N, k) <=> Bit(R, k) \/ k = i
  <2>1. k \div WordBits \in Nat
    BY BitPlace
  <2>2. CASE k = i
    <3>1. (k \div WordBits) + 1 = q /\ q \in 1 .. Len(R) /\ k % WordBits = r
      BY <1>1, <1>2, <2>1, <2>2
    <3>2. q <= Len(N) /\ r \in N[q]
      <4> HIDE DEF q, r
      <4>1. QED
        BY <1>1, <1>5, <3>1
    <3>3. QED
      BY <2>2, <3>1, <3>2 DEF Bit
  <2>3. CASE k # i
    <3>1. CASE k \div WordBits = i \div WordBits
      <4>1. k % WordBits # r
        BY <1>0, <2>3, <3>1, SameBit
      <4>2. (k \div WordBits) + 1 \in 1 .. Len(R)
        BY <1>1, <1>2, <3>1
      <4>3. QED
        BY <1>5, <2>3, <4>1, <4>2 DEF Bit
    <3>2. CASE k \div WordBits # i \div WordBits
      <4>1. (k \div WordBits) + 1 # q
        BY <1>2, <2>1, <3>2
      <4>2. (k \div WordBits) + 1 <= Len(R) => (k \div WordBits) + 1 \in 1 .. Len(R)
        BY <1>1, <2>1
      <4> HIDE DEF q
      <4>3. QED
        BY <1>5, <2>3, <4>1, <4>2 DEF Bit
    <3>3. QED
      BY <3>1, <3>2
  <2>4. QED
    BY <2>2, <2>3
<1>7. \A s \in Nat : s >= 1 => s - 1 \in Nat /\ (s - 1 = i <=> s = slot)
  BY DEF i
<1>8. Marked(N) = Marked(R) \cup {slot}
  BY <1>1, <1>5, <1>6, <1>7, MarkedBits
<1>9. QED
  BY <1>1, <1>3, <1>5, <1>8

\* clear unmarks one slot.
LEMMA ClearBitMarks ==
  ASSUME NEW words \in Words, NEW slot \in Nat, slot >= 1
  PROVE  /\ ClearBit(words, slot - 1) \in Words
         /\ Marked(ClearBit(words, slot - 1)) = Marked(words) \ {slot}
<1> DEFINE i == slot - 1
           q == (i \div WordBits) + 1
           r == i % WordBits
           N == [w \in 1 .. Len(words) |-> IF w = q THEN words[w] \ {r} ELSE words[w]]
<1>0. i \in Nat /\ Len(words) \in Nat
  BY WordsLength
<1>2. i \div WordBits \in Nat /\ r \in 0 .. WordBits - 1
  <2> HIDE DEF i
  <2>1. QED
    BY <1>0, BitPlace
<1>3. ClearBit(words, slot - 1) = N
  BY DEF ClearBit
<1> HIDE DEF i
<1>4. \A w \in 1 .. Len(words) : words[w] \in SUBSET (0 .. WordBits - 1)
  BY DEF Words
<1>5. /\ N \in Words /\ Len(N) = Len(words)
      /\ \A w \in 1 .. Len(words) : N[w] = IF w = q THEN words[w] \ {r} ELSE words[w]
  <2>1. \A w \in 1 .. Len(words) : (IF w = q THEN words[w] \ {r} ELSE words[w]) \in SUBSET (0 .. WordBits - 1)
    BY <1>4
  <2>2. N \in [1 .. Len(words) -> SUBSET (0 .. WordBits - 1)]
    BY <2>1
  <2> HIDE DEF q, r
  <2>3. QED
    BY <1>0, <2>2 DEF Words
<1> HIDE DEF N
<1>6. ASSUME NEW k \in Nat
      PROVE  Bit(N, k) <=> Bit(words, k) /\ k # i
  <2>1. k \div WordBits \in Nat
    BY BitPlace
  <2>2. CASE k = i
    <3>1. (k \div WordBits) + 1 = q /\ k % WordBits = r /\ (q <= Len(words) => q \in 1 .. Len(words))
      BY <1>0, <1>2, <2>1, <2>2
    <3>2. QED
      BY <1>5, <2>2, <3>1 DEF Bit
  <2>3. CASE k # i
    <3>0. (k \div WordBits) + 1 <= Len(words) => (k \div WordBits) + 1 \in 1 .. Len(words)
      BY <1>0, <2>1
    <3>1. CASE k \div WordBits = i \div WordBits
      <4>1. k % WordBits # r
        BY <1>0, <2>3, <3>1, SameBit
      <4>2. QED
        BY <1>5, <2>3, <3>0, <4>1 DEF Bit
    <3>2. CASE k \div WordBits # i \div WordBits
      <4>1. (k \div WordBits) + 1 # q
        BY <1>2, <2>1, <3>2
      <4> HIDE DEF q
      <4>3. QED
        BY <1>5, <2>3, <3>0, <4>1 DEF Bit
    <3>3. QED
      BY <3>1, <3>2
  <2>4. QED
    BY <2>2, <2>3
<1>7. \A s \in Nat : s >= 1 => s - 1 \in Nat /\ (s - 1 = i <=> s = slot)
  BY DEF i
<1>8. Marked(N) = Marked(words) \ {slot}
  BY <1>5, <1>6, <1>7, MarkedBits
<1>9. QED
  BY <1>3, <1>5, <1>8

\* The common words of two masks mark the common slots, whichever is longer.
LEMMA IntersectionMarks ==
  ASSUME NEW a \in Words, NEW b \in Words
  PROVE  /\ Intersection(a, b) \in Words
         /\ Marked(Intersection(a, b)) = Marked(a) \cap Marked(b)
<1> DEFINE n == IF Len(a) < Len(b) THEN Len(a) ELSE Len(b)
           N == [w \in 1 .. n |-> a[w] \cap b[w]]
<1>1. Len(a) \in Nat /\ Len(b) \in Nat
  BY WordsLength
<1>2. /\ n \in Nat
      /\ \A w \in Nat : w <= n <=> w <= Len(a) /\ w <= Len(b)
  BY <1>1
<1> HIDE DEF n
<1>3. \A w \in 1 .. n : w \in 1 .. Len(a) /\ w \in 1 .. Len(b)
  BY <1>1, <1>2
<1>4. \A w \in 1 .. n : a[w] \cap b[w] \in SUBSET (0 .. WordBits - 1)
  BY <1>3 DEF Words
<1>5. N \in Words /\ Len(N) = n /\ \A w \in 1 .. n : N[w] = a[w] \cap b[w]
  <2>1. N \in [1 .. n -> SUBSET (0 .. WordBits - 1)]
    BY <1>4
  <2>2. QED
    BY <1>2, <2>1 DEF Words
<1>6. Intersection(a, b) = N
  BY DEF Intersection, n
<1> HIDE DEF N
<1>7. ASSUME NEW k \in Nat
      PROVE  Bit(N, k) <=> Bit(a, k) /\ Bit(b, k)
  <2>1. k \div WordBits \in Nat
    BY BitPlace
  <2> DEFINE w == (k \div WordBits) + 1
  <2>2. w \in Nat /\ w >= 1
    BY <2>1
  <2> HIDE DEF w
  <2>3. w <= n => w \in 1 .. n
    BY <1>2, <2>2
  <2>4. QED
    BY <1>2, <1>5, <2>2, <2>3 DEF Bit, w
<1>8. \A s \in Nat : s >= 1 => s - 1 \in Nat
  OBVIOUS
<1>9. Marked(N) = Marked(a) \cap Marked(b)
  BY <1>5, <1>7, <1>8, MarkedBits
<1>10. QED
  BY <1>5, <1>6, <1>9

-----------------------------------------------------------------------------
(* One storage.                                                            *)

Positions == Nat \cup {None}
Ages == 0 .. Generations - 1

\* The slots that have a component, and the component of a slot.
Owned(st) == {s \in Slots : st.sparse[s] # None}
Stored(st, s) == st.dense[st.sparse[s]]

\* The positions of the slots are 1 .. n, each once.
Places(sparse, n) ==
  /\ \A s \in Slots : sparse[s] # None => sparse[s] \in 1 .. n
  /\ \A s, r \in Slots : sparse[s] # None /\ sparse[s] = sparse[r] => s = r
  /\ \A p \in 1 .. n : \E s \in Slots : sparse[s] = p

\* One storage is in step with itself.
StorageOK(st) ==
  /\ st.sparse \in [Slots -> Positions]
  /\ st.generations \in [Slots -> Ages]
  /\ st.dense \in Seq(Values)
  /\ st.presence \in Words
  /\ Marked(st.presence) = Owned(st)
  /\ Places(st.sparse, Len(st.dense))

\* Slots are positive numbers.
LEMMA SlotFacts == MaxSlots \in Nat /\ \A s \in Slots : s \in Nat /\ s >= 1 /\ s <= MaxSlots
  BY EntitiesAssumption DEF Slots

\* A position is a number.
LEMMA PositionFacts ==
  ASSUME NEW sparse \in [Slots -> Positions], NEW s \in Slots, sparse[s] # None
  PROVE  sparse[s] \in Nat
  BY DEF Positions

\* A new component takes the next position.
LEMMA AppendPlaces ==
  ASSUME NEW sparse \in [Slots -> Positions], NEW n \in Nat, Places(sparse, n),
         NEW i \in Slots, sparse[i] = None,
         NEW new, new = [sparse EXCEPT ![i] = n + 1]
  PROVE  new \in [Slots -> Positions] /\ Places(new, n + 1)
<1>1. n + 1 \in Nat /\ n + 1 # None /\ n + 1 \in Positions
  BY EcsAssumption DEF Positions
<1>2. /\ new \in [Slots -> Positions]
      /\ \A s \in Slots : new[s] = IF s = i THEN n + 1 ELSE sparse[s]
  BY <1>1
<1>3. \A p \in 1 .. n + 1 : p = n + 1 \/ p \in 1 .. n
  OBVIOUS
<1>4. n + 1 \in 1 .. n + 1 /\ \A p \in 1 .. n : p \in 1 .. n + 1 /\ p # n + 1 /\ p # None
  BY EcsAssumption
<1>5. \A s \in Slots : new[s] # None => new[s] \in 1 .. n + 1
  BY <1>2, <1>4 DEF Places
<1>6. ASSUME NEW s \in Slots, NEW r \in Slots, new[s] # None, new[s] = new[r]
      PROVE  s = r
  <2>1. CASE s = i /\ r # i
    BY <1>1, <1>2, <1>4, <1>6, <2>1 DEF Places
  <2>2. CASE s # i /\ r = i
    BY <1>1, <1>2, <1>4, <1>6, <2>2 DEF Places
  <2>3. CASE s # i /\ r # i
    BY <1>2, <1>6, <2>3 DEF Places
  <2>4. QED
    BY <2>1, <2>2, <2>3
<1>7. ASSUME NEW p \in 1 .. n + 1
      PROVE  \E s \in Slots : new[s] = p
  <2>1. CASE p = n + 1
    BY <1>2, <2>1
  <2>2. CASE p \in 1 .. n
    <3>1. PICK s \in Slots : sparse[s] = p
      BY <2>2 DEF Places
    <3>2. s # i
      BY <1>4, <2>2, <3>1
    <3>3. QED
      BY <1>2, <3>1, <3>2
  <2>3. QED
    BY <1>3, <2>1, <2>2
<1>8. QED
  BY <1>2, <1>5, <1>6, <1>7 DEF Places

\* A removed component leaves its position to the last one.
LEMMA RemovePlaces ==
  ASSUME NEW sparse \in [Slots -> Positions], NEW n \in Nat, Places(sparse, n),
         NEW i \in Slots, sparse[i] # None,
         NEW new,
         new = [s \in Slots |-> IF s = i THEN None
                                ELSE IF sparse[s] = n THEN sparse[i] ELSE sparse[s]]
  PROVE  /\ n - 1 \in Nat /\ sparse[i] \in 1 .. n
         /\ new \in [Slots -> Positions] /\ Places(new, n - 1)
         /\ \A s \in Slots : new[s] # None <=> s # i /\ sparse[s] # None
         /\ \A s \in Slots : s # i /\ sparse[s] # None =>
              IF sparse[s] = n THEN new[s] = sparse[i] /\ sparse[i] \in 1 .. n - 1
              ELSE new[s] = sparse[s] /\ new[s] \in 1 .. n - 1 /\ new[s] # sparse[i]
<1>1. sparse[i] \in 1 .. n /\ n >= 1 /\ n - 1 \in Nat
  BY DEF Places
<1>2. /\ new \in [Slots -> Positions]
      /\ \A s \in Slots : new[s] = IF s = i THEN None
                                   ELSE IF sparse[s] = n THEN sparse[i] ELSE sparse[s]
  BY DEF Positions
<1>3. n # None
  BY EcsAssumption
<1>4. \A s \in Slots : new[s] # None <=> s # i /\ sparse[s] # None
  BY <1>2, <1>3
<1>5. \A p \in 1 .. n : p = n \/ p \in 1 .. n - 1
  OBVIOUS
<1>6. ASSUME NEW s \in Slots, s # i, sparse[s] # None
      PROVE  IF sparse[s] = n THEN new[s] = sparse[i] /\ sparse[i] \in 1 .. n - 1
             ELSE new[s] = sparse[s] /\ new[s] \in 1 .. n - 1 /\ new[s] # sparse[i]
  <2>1. sparse[s] \in 1 .. n /\ sparse[s] # sparse[i]
    BY <1>6 DEF Places
  <2>2. QED
    BY <1>1, <1>2, <1>5, <1>6, <2>1
<1>7. \A s \in Slots : new[s] # None => new[s] \in 1 .. n - 1
  BY <1>4, <1>6
<1>8. ASSUME NEW s \in Slots, NEW r \in Slots, new[s] # None, new[s] = new[r]
      PROVE  s = r
  <2>1. s # i /\ r # i /\ sparse[s] # None /\ sparse[r] # None
    BY <1>4, <1>8
  <2>2. sparse[s] = sparse[r] => s = r
    BY <2>1 DEF Places
  <2>3. QED
    BY <1>2, <1>6, <1>8, <2>1, <2>2
<1>9. ASSUME NEW p \in 1 .. n - 1
      PROVE  \E s \in Slots : new[s] = p
  <2>1. p \in 1 .. n /\ n \in 1 .. n /\ p # n
    BY <1>1
  <2>2. PICK s \in Slots : sparse[s] = p
    BY <2>1 DEF Places
  <2>3. PICK r \in Slots : sparse[r] = n
    BY <2>1 DEF Places
  <2>4. CASE s # i
    BY <1>2, <2>1, <2>2, <2>4
  <2>5. CASE s = i
    BY <1>2, <2>1, <2>2, <2>3, <2>5
  <2>6. QED
    BY <2>4, <2>5
<1>10. QED
  BY <1>1, <1>2, <1>4, <1>6, <1>7, <1>8, <1>9 DEF Places

\* A storage put together from its parts.
LEMMA StorageBuilt ==
  ASSUME NEW sp \in [Slots -> Positions], NEW g \in [Slots -> Ages], NEW d \in Seq(Values),
         NEW m \in Words, Places(sp, Len(d)),
         Marked(m) = {s \in Slots : sp[s] # None},
         NEW st, st = [sparse |-> sp, generations |-> g, dense |-> d, presence |-> m]
  PROVE  StorageOK(st)
  BY DEF StorageOK, Owned

\* A storage that was just registered.
LEMMA EmptyStorageOK == StorageOK(EmptyStorage) /\ Owned(EmptyStorage) = {}
<1> DEFINE sp == [s \in Slots |-> None]
           g == [s \in Slots |-> 0]
<1>1. sp \in [Slots -> Positions] /\ g \in [Slots -> Ages]
  BY EntitiesAssumption DEF Positions, Ages
<1>2. <<>> \in Seq(Values) /\ Len(<<>>) = 0
  OBVIOUS
<1>3. <<>> \in Words
  BY DEF Words
<1>4. Places(sp, 0)
  BY DEF Places
<1>5. Marked(<<>>) = {}
  BY DEF Marked, Walk
<1>6. {s \in Slots : sp[s] # None} = {}
  OBVIOUS
<1>7. EmptyStorage = [sparse |-> sp, generations |-> g, dense |-> <<>>, presence |-> <<>>]
  BY DEF EmptyStorage
<1> HIDE DEF sp, g
<1>8. StorageOK(EmptyStorage)
  BY <1>1, <1>2, <1>3, <1>4, <1>5, <1>6, <1>7, StorageBuilt
<1>9. Owned(EmptyStorage) = {}
  BY <1>6, <1>7 DEF Owned
<1>10. QED
  BY <1>8, <1>9

\* try_insert gives the entity its component and leaves the others alone.
LEMMA InsertedOK ==
  ASSUME NEW st, StorageOK(st), NEW e \in Handles, NEW value \in Values,
         NEW new, new = Inserted(st, e, value)
  PROVE  /\ StorageOK(new) /\ Owned(new) = Owned(st) \cup {e.index}
         /\ Stored(new, e.index) = value
         /\ \A s \in Owned(st) \ {e.index} : Stored(new, s) = Stored(st, s)
         /\ \A s \in Slots : new.generations[s] = IF s = e.index THEN e.generation
                                                  ELSE st.generations[s]
<1> DEFINE i == e.index
           sp == st.sparse
           d == st.dense
           n == Len(d)
           g2 == [st.generations EXCEPT ![i] = e.generation]
           m2 == SetBit(st.presence, i - 1)
<1>1. i \in Slots /\ e.generation \in Ages /\ i \in Nat /\ i >= 1
  BY SlotFacts DEF Handles, Ages
<1>2. /\ sp \in [Slots -> Positions] /\ d \in Seq(Values) /\ n \in Nat
      /\ st.generations \in [Slots -> Ages] /\ st.presence \in Words
      /\ Marked(st.presence) = {s \in Slots : sp[s] # None} /\ Places(sp, n)
  BY DEF StorageOK, Owned
<1>3. /\ g2 \in [Slots -> Ages]
      /\ \A s \in Slots : g2[s] = IF s = i THEN e.generation ELSE st.generations[s]
  BY <1>1, <1>2
<1>4. m2 \in Words /\ Marked(m2) = {s \in Slots : sp[s] # None} \cup {i}
  <2> HIDE DEF i
  <2>1. QED
    BY <1>1, <1>2, SetBitMarks
<1>5. CASE sp[i] # None
  <2> DEFINE p == sp[i]
             d2 == [d EXCEPT ![p] = value]
  <2>1. p \in 1 .. n
    BY <1>1, <1>2, <1>5 DEF Places
  <2>2. /\ d2 \in Seq(Values) /\ Len(d2) = n
        /\ \A k \in 1 .. n : d2[k] = IF k = p THEN value ELSE d[k]
    <3> HIDE DEF p, d
    <3>0. Len(d) \in Nat
      BY <1>2
    <3>1. QED
      BY <1>2, <2>1
  <2>3. new = [sparse |-> sp, generations |-> g2, dense |-> d2, presence |-> m2]
    BY <1>5 DEF Inserted
  <2>4. {s \in Slots : sp[s] # None} \cup {i} = {s \in Slots : sp[s] # None}
    BY <1>1, <1>5
  <2>5. \A s \in Slots : sp[s] # None => sp[s] \in 1 .. n /\ (sp[s] = p => s = i)
    BY <1>1, <1>2, <1>5 DEF Places
  <2> HIDE DEF i, sp, d, n, g2, m2, p, d2
  <2>6. StorageOK(new)
    BY <1>2, <1>3, <1>4, <2>2, <2>3, <2>4, StorageBuilt
  <2>7. Owned(new) = Owned(st) \cup {i}
    BY <1>1, <1>5, <2>3, <2>4 DEF Owned, sp
  <2>8. Stored(new, i) = value
    BY <2>1, <2>2, <2>3 DEF Stored, p
  <2>9. ASSUME NEW s \in Owned(st) \ {i}
        PROVE  Stored(new, s) = Stored(st, s)
    <3>1. s \in Slots /\ sp[s] \in 1 .. n /\ sp[s] # p
      BY <2>5, <2>9 DEF Owned, sp
    <3>2. Stored(new, s) = d2[sp[s]] /\ Stored(st, s) = d[sp[s]]
      BY <2>3 DEF Stored, sp, d
    <3>3. QED
      BY <2>2, <3>1, <3>2
  <2>10. new.generations = g2
    BY <2>3
  <2>11. QED
    BY <1>3, <2>6, <2>7, <2>8, <2>9, <2>10 DEF i
<1>6. CASE sp[i] = None
  <2> DEFINE sp2 == [sp EXCEPT ![i] = n + 1]
             d2 == Append(d, value)
  <2>1. /\ d2 \in Seq(Values) /\ Len(d2) = n + 1 /\ d2[n + 1] = value
        /\ \A k \in 1 .. n : d2[k] = d[k]
    <3> HIDE DEF d
    <3>1. QED
      BY <1>2
  <2>2. sp2 \in [Slots -> Positions] /\ Places(sp2, n + 1)
    <3> HIDE DEF sp, i, n
    <3>1. QED
      BY <1>1, <1>2, <1>6, AppendPlaces
  <2>3. \A s \in Slots : sp2[s] = IF s = i THEN n + 1 ELSE sp[s]
    BY <1>2
  <2>4. new = [sparse |-> sp2, generations |-> g2, dense |-> d2, presence |-> m2]
    BY <1>6 DEF Inserted
  <2>5. n + 1 # None
    BY <1>2, EcsAssumption
  <2>6. {s \in Slots : sp2[s] # None} = {s \in Slots : sp[s] # None} \cup {i}
    BY <1>1, <2>3, <2>5
  <2>7. \A s \in Slots : sp[s] # None => sp[s] \in 1 .. n
    BY <1>2 DEF Places
  <2> HIDE DEF i, sp, d, n, g2, m2, sp2, d2
  <2>8. StorageOK(new)
    BY <1>3, <1>4, <2>1, <2>2, <2>4, <2>6, StorageBuilt
  <2>9. Owned(new) = Owned(st) \cup {i}
    BY <2>4, <2>6 DEF Owned, sp
  <2>10. Stored(new, i) = value
    BY <1>1, <2>1, <2>3, <2>4 DEF Stored
  <2>11. ASSUME NEW s \in Owned(st) \ {i}
         PROVE  Stored(new, s) = Stored(st, s)
    <3>1. s \in Slots /\ sp[s] \in 1 .. n /\ sp2[s] = sp[s]
      BY <2>3, <2>7, <2>11 DEF Owned, sp
    <3>2. Stored(new, s) = d2[sp2[s]] /\ Stored(st, s) = d[sp[s]]
      BY <2>4 DEF Stored, sp, d
    <3>3. QED
      BY <2>1, <3>1, <3>2
  <2>12. new.generations = g2
    BY <2>4
  <2>13. QED
    BY <1>3, <2>8, <2>9, <2>10, <2>11, <2>12 DEF i
<1>7. QED
  BY <1>5, <1>6

\* A try_insert that fails late changes no component, only a generation of a
\* slot that has none.
LEMMA PreparedOK ==
  ASSUME NEW st, StorageOK(st), NEW e \in Handles, st.sparse[e.index] = None,
         NEW new, new = Prepared(st, e)
  PROVE  /\ StorageOK(new) /\ Owned(new) = Owned(st)
         /\ \A s \in Slots : Stored(new, s) = Stored(st, s)
         /\ \A s \in Owned(st) : new.generations[s] = st.generations[s]
<1> DEFINE i == e.index
           sp == st.sparse
           d == st.dense
           g2 == [st.generations EXCEPT ![i] = e.generation]
           m2 == Reserved(st.presence, i - 1)
<1>1. i \in Slots /\ e.generation \in Ages /\ i - 1 \in Nat
  BY SlotFacts DEF Handles, Ages
<1>2. /\ sp \in [Slots -> Positions] /\ d \in Seq(Values)
      /\ st.generations \in [Slots -> Ages] /\ st.presence \in Words
      /\ Marked(st.presence) = {s \in Slots : sp[s] # None} /\ Places(sp, Len(d))
  BY DEF StorageOK, Owned
<1>3. /\ g2 \in [Slots -> Ages]
      /\ \A s \in Slots : g2[s] = IF s = i THEN e.generation ELSE st.generations[s]
  BY <1>1, <1>2
<1>4. m2 \in Words /\ Marked(m2) = {s \in Slots : sp[s] # None}
  <2> HIDE DEF i
  <2>1. QED
    BY <1>1, <1>2, ReservedMarks
<1>5. new = [sparse |-> sp, generations |-> g2, dense |-> d, presence |-> m2]
  BY DEF Prepared
<1>6. \A s \in Owned(st) : s \in Slots /\ s # i
  BY DEF Owned
<1> HIDE DEF sp, d, g2, m2, i
<1>7. StorageOK(new)
  BY <1>2, <1>3, <1>4, <1>5, StorageBuilt
<1>8. Owned(new) = Owned(st) /\ \A s \in Slots : Stored(new, s) = Stored(st, s)
  BY <1>5 DEF Owned, Stored, sp, d
<1>9. new.generations = g2
  BY <1>5
<1>10. QED
  BY <1>3, <1>6, <1>7, <1>8, <1>9

\* remove takes the entity's component away, if the generation is the stored
\* one, and leaves the others alone.
LEMMA RemovedOK ==
  ASSUME NEW st, StorageOK(st), NEW e \in Handles, NEW new, new = Removed(st, e)
  PROVE  /\ StorageOK(new)
         /\ Owned(new) = Owned(st) \ (IF contains(st, e) THEN {e.index} ELSE {})
         /\ \A s \in Owned(new) : Stored(new, s) = Stored(st, s)
         /\ new.generations = st.generations
<1> DEFINE i == e.index
           sp == st.sparse
           d == st.dense
           n == Len(d)
           pos == sp[i]
           sp2 == [s \in Slots |-> IF s = i THEN None ELSE IF sp[s] = n THEN sp[i] ELSE sp[s]]
           d2 == [p \in 1 .. n - 1 |-> IF p = pos THEN d[n] ELSE d[p]]
           m2 == ClearBit(st.presence, i - 1)
<1>0. CASE ~contains(st, e)
  BY <1>0 DEF Removed
<1>c. CASE contains(st, e)
  <2>1. i \in Slots /\ i \in Nat /\ i >= 1 /\ sp[i] # None
    BY <1>c, SlotFacts DEF Handles, contains
  <2>2. /\ sp \in [Slots -> Positions] /\ d \in Seq(Values) /\ n \in Nat
        /\ st.generations \in [Slots -> Ages] /\ st.presence \in Words
        /\ Marked(st.presence) = {s \in Slots : sp[s] # None} /\ Places(sp, n)
    BY DEF StorageOK, Owned
  <2>3. m2 \in Words /\ Marked(m2) = {s \in Slots : sp[s] # None} \ {i}
    <3> HIDE DEF i
    <3>1. QED
      BY <2>1, <2>2, ClearBitMarks
  <2>4. /\ n - 1 \in Nat /\ pos \in 1 .. n
        /\ sp2 \in [Slots -> Positions] /\ Places(sp2, n - 1)
        /\ \A s \in Slots : sp2[s] # None <=> s # i /\ sp[s] # None
        /\ \A s \in Slots : s # i /\ sp[s] # None =>
             IF sp[s] = n THEN sp2[s] = pos /\ pos \in 1 .. n - 1
             ELSE sp2[s] = sp[s] /\ sp2[s] \in 1 .. n - 1 /\ sp2[s] # pos
    <3> HIDE DEF i, sp, n
    <3>1. QED
      BY <2>1, <2>2, RemovePlaces, SMTT(30)
  <2>5. new = [sparse |-> sp2, generations |-> st.generations, dense |-> d2, presence |-> m2]
    BY <1>c DEF Removed
  <2> HIDE DEF i, sp, d, n, pos, sp2
  <2>6. \A k \in 1 .. n : d[k] \in Values
    BY <2>2 DEF n
  <2>7. n \in 1 .. n /\ \A k \in 1 .. n - 1 : k \in 1 .. n
    BY <2>2, <2>4
  <2>8. /\ d2 \in Seq(Values) /\ Len(d2) = n - 1
        /\ \A k \in 1 .. n - 1 : d2[k] = IF k = pos THEN d[n] ELSE d[k]
    <3>1. d2 \in [1 .. n - 1 -> Values]
      BY <2>6, <2>7
    <3>2. QED
      BY <2>4, <3>1
  <2> HIDE DEF d2, m2
  <2>9. {s \in Slots : sp2[s] # None} = {s \in Slots : sp[s] # None} \ {i}
    BY <2>4
  <2>10. StorageOK(new)
    BY <2>2, <2>3, <2>4, <2>5, <2>8, <2>9, StorageBuilt
  <2>11. Owned(new) = Owned(st) \ {i}
    BY <2>5, <2>9 DEF Owned, sp
  <2>12. ASSUME NEW s \in Owned(new)
         PROVE  Stored(new, s) = Stored(st, s)
    <3>1. s \in Slots /\ s # i /\ sp[s] # None
      BY <2>11, <2>12 DEF Owned, sp
    <3>2. Stored(new, s) = d2[sp2[s]] /\ Stored(st, s) = d[sp[s]]
      BY <2>5 DEF Stored, sp, d
    <3>3. d2[sp2[s]] = d[sp[s]]
      BY <2>4, <2>8, <3>1
    <3>4. QED
      BY <3>2, <3>3
  <2>13. new.generations = st.generations
    BY <2>5
  <2>14. QED
    BY <1>c, <2>10, <2>11, <2>12, <2>13 DEF i
<1>q. QED
  BY <1>0, <1>c

-----------------------------------------------------------------------------
(* The entity table.                                                       *)

\* The table is in step with itself and with the set of living slots.
TableOK(t, living) ==
  /\ t.generations \in Seq(Ages) /\ Len(t.generations) <= MaxSlots
  /\ t.free \in Seq(Slots)
  /\ \A i \in 1 .. Len(t.free) : t.free[i] <= Len(t.generations)
  /\ \A i, k \in 1 .. Len(t.free) : t.free[i] = t.free[k] => i = k
  /\ living = {s \in 1 .. Len(t.generations) : ~IsFree(t, s)}
  /\ t.live = Cardinality(living)

\* There are finitely many living slots.
LEMMA LivingFinite ==
  ASSUME NEW t, NEW living, TableOK(t, living)
  PROVE  IsFiniteSet(living) /\ Cardinality(living) \in Nat /\ living \subseteq Slots
<1>1. Len(t.generations) \in Nat /\ Len(t.generations) <= MaxSlots
  BY DEF TableOK
<1>2. IsFiniteSet(1 .. Len(t.generations))
  BY <1>1, FS_Interval
<1>3. living \subseteq 1 .. Len(t.generations)
  BY DEF TableOK
<1>4. IsFiniteSet(living)
  BY <1>2, <1>3, FS_Subset
<1>5. 1 .. Len(t.generations) \subseteq Slots
  BY <1>1, SlotFacts DEF Slots
<1>6. QED
  BY <1>3, <1>4, <1>5, FS_CardinalityType

\* Taking the top off a stack.
LEMMA Popped ==
  ASSUME NEW S, NEW F \in Seq(S), F # <<>>, NEW E, E = SubSeq(F, 1, Len(F) - 1)
  PROVE  /\ Len(F) \in Nat /\ Len(F) > 0 /\ F[Len(F)] \in S
         /\ E \in Seq(S) /\ Len(E) = Len(F) - 1
         /\ \A i \in 1 .. Len(F) - 1 : E[i] = F[i]
<1>1. Len(F) \in Nat /\ Len(F) > 0 /\ F[Len(F)] \in S
  OBVIOUS
<1> DEFINE n == Len(F) - 1
<1>2. n \in Nat /\ n <= Len(F) /\ \A i \in 1 .. n : i \in 1 .. Len(F)
  BY <1>1
<1>3. E = SubSeq(F, 1, n)
  OBVIOUS
<1> HIDE DEF n
<1>4. E \in Seq(S) /\ Len(E) = n
  BY <1>1, <1>2, <1>3
<1>5. \A i \in 1 .. n : E[i] = F[i]
  BY <1>1, <1>2, <1>3
<1>6. QED
  BY <1>1, <1>4, <1>5 DEF n

\* What try_create returns, and what it does to the table.
MadeFrom(t, made) ==
  LET slot == made.entity.index
      n == Len(t.generations)
  IN /\ made.entity.generation \in Ages
     /\ slot \in 1 .. Len(made.table.generations)
     /\ \A s \in Nat : s >= 1 => (s <= Len(made.table.generations) <=> s <= n \/ s = slot)
     /\ made.entity.generation = IF slot <= n THEN (t.generations[slot] + 1) % Generations ELSE 0
     /\ \A s \in 1 .. Len(made.table.generations) :
          made.table.generations[s] = IF s = slot THEN made.entity.generation ELSE t.generations[s]

\* A freed slot is used again with its next generation.
LEMMA ReusedOK ==
  ASSUME NEW t, NEW living, TableOK(t, living), t.free # <<>>, NEW made, made = Created(t)
  PROVE  /\ made.entity.index \in Slots /\ made.entity.index \notin living
         /\ TableOK(made.table, living \cup {made.entity.index}) /\ MadeFrom(t, made)
<1> DEFINE G == t.generations
           F == t.free
           n == Len(F)
           slot == F[n]
           next == (G[slot] + 1) % Generations
           G2 == [G EXCEPT ![slot] = next]
           F2 == SubSeq(F, 1, n - 1)
           L2 == living \cup {slot}
<1>1. /\ G \in Seq(Ages) /\ Len(G) \in Nat /\ Len(G) <= MaxSlots /\ F \in Seq(Slots)
      /\ \A i \in 1 .. Len(F) : F[i] <= Len(G)
      /\ \A i, k \in 1 .. Len(F) : F[i] = F[k] => i = k
      /\ living = {s \in 1 .. Len(G) : ~IsFree(t, s)} /\ t.live = Cardinality(living)
  BY DEF TableOK
<1>2. /\ n \in Nat /\ n > 0 /\ slot \in Slots /\ F2 \in Seq(Slots) /\ Len(F2) = n - 1
      /\ \A i \in 1 .. n - 1 : F2[i] = F[i]
  <2> HIDE DEF F
  <2>1. QED
    BY <1>1, Popped DEF F
<1>3. slot \in 1 .. Len(G) /\ n \in 1 .. n
  <2>1. n \in 1 .. n
    BY <1>2
  <2>2. slot <= Len(G)
    BY <1>1, <2>1
  <2> HIDE DEF slot, G
  <2>3. QED
    BY <1>1, <1>2, <2>1, <2>2, SlotFacts
<1>4. G[slot] \in Nat /\ next \in Ages
  <2>1. G[slot] \in Nat
    <3> HIDE DEF slot, G
    <3>1. G[slot] \in Ages
      BY <1>1, <1>3
    <3>2. QED
      BY <3>1 DEF Ages
  <2>2. G[slot] + 1 \in Nat
    BY <2>1
  <2> DEFINE a == G[slot] + 1
  <2> HIDE DEF a
  <2>3. a % Generations \in 0 .. Generations - 1
    BY <2>2, EntitiesAssumption, Division DEF a
  <2>4. QED
    BY <2>1, <2>3 DEF Ages, a
<1>5. made = [table |-> [generations |-> G2, free |-> F2, live |-> t.live + 1],
              entity |-> [index |-> slot, generation |-> next]]
  BY DEF Created
<1> HIDE DEF G, F, n, slot, next
<1>6. /\ G2 \in Seq(Ages) /\ Len(G2) = Len(G)
      /\ \A s \in 1 .. Len(G) : G2[s] = IF s = slot THEN next ELSE G[s]
  BY <1>1, <1>3, <1>4
<1> HIDE DEF G2, F2, L2
<1>7. IsFree(t, slot)
  BY <1>2, <1>3 DEF IsFree, slot, F, n
<1>8. slot \notin living
  BY <1>1, <1>7
<1>9. ASSUME NEW s \in 1 .. Len(G)
      PROVE  IsFree(made.table, s) <=> IsFree(t, s) /\ s # slot
  <2>1. IsFree(made.table, s) <=> \E i \in 1 .. n - 1 : F[i] = s
    BY <1>2, <1>5 DEF IsFree
  <2>2. IsFree(t, s) <=> \E i \in 1 .. n : F[i] = s
    BY DEF IsFree, F, n
  <2>3. \A i \in 1 .. n : i = n \/ i \in 1 .. n - 1
    BY <1>2
  <2>4. \A i \in 1 .. n - 1 : i \in 1 .. n /\ i # n
    BY <1>2
  <2>5. \A i \in 1 .. n - 1 : F[i] # slot
    BY <1>1, <1>3, <2>4 DEF slot, n
  <2>6. QED
    BY <2>1, <2>2, <2>3, <2>4, <2>5 DEF slot
<1>10. L2 = {s \in 1 .. Len(G) : ~IsFree(made.table, s)}
  BY <1>1, <1>3, <1>9 DEF L2
<1>11. t.live + 1 = Cardinality(L2)
  <2>1. IsFiniteSet(living)
    BY LivingFinite
  <2>2. Cardinality(living \cup {slot}) = Cardinality(living) + 1
    BY <2>1, <1>8, FS_AddElement
  <2>3. t.live = Cardinality(living)
    BY DEF TableOK
  <2>4. QED
    BY <2>2, <2>3 DEF L2
<1>12. TableOK(made.table, L2)
  <2>1. /\ made.table.generations = G2 /\ made.table.free = F2 /\ made.table.live = t.live + 1
    BY <1>5
  <2>2. \A i \in 1 .. Len(F2) : i \in 1 .. n /\ F2[i] = F[i]
    BY <1>2
  <2>3. \A i \in 1 .. Len(F2) : F2[i] <= Len(G2)
    BY <1>1, <1>6, <2>2 DEF n
  <2>4. \A i, k \in 1 .. Len(F2) : F2[i] = F2[k] => i = k
    BY <1>1, <2>2 DEF n
  <2>5. QED
    BY <1>1, <1>2, <1>6, <1>10, <1>11, <2>1, <2>3, <2>4, ZenonT(30) DEF TableOK
<1>13. MadeFrom(t, made)
  <2>1. /\ made.entity.index = slot /\ made.entity.generation = next
        /\ made.table.generations = G2
    BY <1>5
  <2>2. slot <= Len(G)
    BY <1>3
  <2>3. QED
    BY <1>1, <1>3, <1>4, <1>6, <2>1, <2>2 DEF MadeFrom, next, G
<1>14. made.entity.index = slot
  BY <1>5
<1>15. QED
  BY <1>2, <1>8, <1>12, <1>13, <1>14 DEF L2

\* A table with no free slot grows by one.
LEMMA GrownOK ==
  ASSUME NEW t, NEW living, TableOK(t, living), t.free = <<>>,
         Len(t.generations) < MaxSlots, NEW made, made = Created(t)
  PROVE  /\ made.entity.index \in Slots /\ made.entity.index \notin living
         /\ TableOK(made.table, living \cup {made.entity.index}) /\ MadeFrom(t, made)
<1> DEFINE G == t.generations
           slot == Len(G) + 1
           G2 == Append(G, 0)
           L2 == living \cup {slot}
<1>1. /\ G \in Seq(Ages) /\ Len(G) \in Nat /\ Len(G) < MaxSlots
      /\ living = {s \in 1 .. Len(G) : ~IsFree(t, s)} /\ t.live = Cardinality(living)
  BY DEF TableOK
<1>2. slot \in Slots /\ slot \in Nat /\ slot >= 1 /\ slot \notin 1 .. Len(G) /\ 0 \in Ages
  BY <1>1, EntitiesAssumption DEF Slots, Ages
<1>3. made = [table |-> [generations |-> G2, free |-> <<>>, live |-> t.live + 1],
              entity |-> [index |-> slot, generation |-> 0]]
  BY DEF Created
<1>4. /\ G2 \in Seq(Ages) /\ Len(G2) = slot /\ G2[slot] = 0
      /\ \A s \in 1 .. Len(G) : G2[s] = G[s]
  <2> HIDE DEF G
  <2>1. QED
    BY <1>1, <1>2
<1>5. \A s : s \in 1 .. Len(G2) <=> s \in 1 .. Len(G) \/ s = slot
  <2> HIDE DEF G, G2
  <2>1. QED
    BY <1>1, <1>4
<1> HIDE DEF G, slot, G2, L2
<1>6. \A s : ~IsFree(t, s) /\ ~IsFree(made.table, s)
  BY <1>3 DEF IsFree
<1>7. L2 = {s \in 1 .. Len(G2) : ~IsFree(made.table, s)} /\ slot \notin living
  BY <1>1, <1>2, <1>5, <1>6 DEF L2
<1>8. t.live + 1 = Cardinality(L2)
  <2>1. IsFiniteSet(living)
    BY LivingFinite
  <2>2. Cardinality(living \cup {slot}) = Cardinality(living) + 1
    BY <2>1, <1>7, FS_AddElement
  <2>3. t.live = Cardinality(living)
    BY DEF TableOK
  <2>4. QED
    BY <2>2, <2>3 DEF L2
<1>9. /\ made.table.generations = G2 /\ made.table.free = <<>> /\ made.table.live = t.live + 1
      /\ made.entity.index = slot /\ made.entity.generation = 0
  BY <1>3
<1>10. TableOK(made.table, L2)
  <2>1. slot <= MaxSlots
    BY <1>2, SlotFacts
  <2>2. <<>> \in Seq(Slots) /\ Len(<<>>) = 0
    OBVIOUS
  <2>3. QED
    BY <1>4, <1>7, <1>8, <1>9, <2>1, <2>2 DEF TableOK
<1>11. MadeFrom(t, made)
  <2>1. ~(slot <= Len(G)) /\ slot \in 1 .. Len(G2)
    BY <1>1, <1>5 DEF slot
  <2>2. \A s \in Nat : s >= 1 => (s <= Len(G2) <=> s <= Len(G) \/ s = slot)
    BY <1>1, <1>4 DEF slot
  <2>3. \A s \in 1 .. Len(G2) : G2[s] = IF s = slot THEN 0 ELSE G[s]
    BY <1>4, <1>5
  <2>4. QED
    BY <1>2, <1>9, <2>1, <2>2, <2>3 DEF MadeFrom, G
<1>12. QED
  BY <1>2, <1>7, <1>9, <1>10, <1>11 DEF L2

\* try_create, either way.
LEMMA CreatedOK ==
  ASSUME NEW t, NEW living, TableOK(t, living), CanCreate(t), NEW made, made = Created(t)
  PROVE  /\ made.entity.index \in Slots /\ made.entity.index \notin living
         /\ TableOK(made.table, living \cup {made.entity.index}) /\ MadeFrom(t, made)
<1>1. CASE t.free # <<>>
  BY <1>1, ReusedOK
<1>2. CASE t.free = <<>>
  BY <1>2, GrownOK DEF CanCreate
<1>3. QED
  BY <1>1, <1>2

\* try_destroy of a living entity.
LEMMA DestroyedOK ==
  ASSUME NEW t, NEW living, TableOK(t, living), NEW e \in Handles, is_alive(t, e)
  PROVE  /\ e.index \in living
         /\ TableOK(Destroyed(t, e), living \ {e.index})
         /\ Destroyed(t, e).generations = t.generations
<1> DEFINE G == t.generations
           F == t.free
           slot == e.index
           F2 == Append(F, slot)
           L2 == living \ {slot}
           new == Destroyed(t, e)
<1>1. /\ G \in Seq(Ages) /\ Len(G) \in Nat /\ Len(G) <= MaxSlots /\ F \in Seq(Slots)
      /\ Len(F) \in Nat
      /\ \A i \in 1 .. Len(F) : F[i] <= Len(G)
      /\ \A i, k \in 1 .. Len(F) : F[i] = F[k] => i = k
      /\ living = {s \in 1 .. Len(G) : ~IsFree(t, s)} /\ t.live = Cardinality(living)
  BY DEF TableOK
<1>2. slot \in Slots /\ slot <= Len(G) /\ ~IsFree(t, slot)
  BY DEF Handles, is_alive
<1>3. slot \in 1 .. Len(G) /\ slot \in living
  <2> HIDE DEF slot
  <2>1. QED
    BY <1>1, <1>2, SlotFacts
<1>4. new.generations = G /\ new.free = F2 /\ new.live = t.live - 1
  BY DEF Destroyed
<1> HIDE DEF G, F, slot, new
<1>5. /\ F2 \in Seq(Slots) /\ Len(F2) = Len(F) + 1 /\ F2[Len(F) + 1] = slot
      /\ \A i \in 1 .. Len(F) : F2[i] = F[i]
  BY <1>1, <1>2
<1> HIDE DEF F2, L2
<1>6. \A i : i \in 1 .. Len(F2) <=> i \in 1 .. Len(F) \/ i = Len(F) + 1
  BY <1>1, <1>5
<1>7. \A i \in 1 .. Len(F) : F[i] # slot
  BY <1>2 DEF IsFree, F
<1>8. \A s : IsFree(new, s) <=> IsFree(t, s) \/ s = slot
  <2>1. \A s : IsFree(new, s) <=> \E i \in 1 .. Len(F2) : F2[i] = s
    BY <1>4 DEF IsFree
  <2>2. \A s : IsFree(t, s) <=> \E i \in 1 .. Len(F) : F[i] = s
    BY DEF IsFree, F
  <2>3. QED
    BY <1>5, <1>6, <2>1, <2>2
<1>9. L2 = {s \in 1 .. Len(G) : ~IsFree(new, s)}
  BY <1>1, <1>8 DEF L2
<1>10. t.live - 1 = Cardinality(L2)
  <2>1. IsFiniteSet(living)
    BY LivingFinite
  <2>2. Cardinality(living \ {slot}) = Cardinality(living) - 1
    BY <2>1, <1>3, FS_RemoveElement
  <2>3. t.live = Cardinality(living)
    BY DEF TableOK
  <2>4. QED
    BY <2>2, <2>3 DEF L2
<1>11. \A i \in 1 .. Len(F2) : F2[i] <= Len(G)
  BY <1>1, <1>2, <1>5, <1>6
<1>12. \A i, k \in 1 .. Len(F2) : F2[i] = F2[k] => i = k
  BY <1>1, <1>5, <1>6, <1>7
<1>13. TableOK(new, L2)
  BY <1>1, <1>4, <1>5, <1>9, <1>10, <1>11, <1>12 DEF TableOK
<1>14. QED
  BY <1>3, <1>4, <1>13 DEF L2, slot, new, G

-----------------------------------------------------------------------------
(* The world.                                                              *)

\* The generation of a slot is its number of allocations, wrapped.
CountsOK(generations, inc) ==
  /\ inc \in [Slots -> Nat]
  /\ \A s \in Slots :
       IF s <= Len(generations)
       THEN inc[s] >= 1 /\ generations[s] = (inc[s] - 1) % Generations
       ELSE inc[s] = 0

\* A handle carries the generation of the allocation it was returned by.
IssuedOK(handles, n, inc) ==
  \A x \in handles :
    /\ x.handle \in Handles /\ x.handle.index <= n
    /\ x.incarnation \in 1 .. inc[x.handle.index]
    /\ x.handle.generation = (x.incarnation - 1) % Generations

\* What a storage holds belongs to the present owners of the slots.
BelongsTo(st, living, generations, inc) ==
  \A s \in Owned(st) :
    s \in living /\ Stored(st, s) = <<s, inc[s]>> /\ st.generations[s] = generations[s]

StoragesOK ==
  /\ DOMAIN storage \subseteq Components
  /\ \A c \in DOMAIN storage :
       StorageOK(storage[c]) /\ BelongsTo(storage[c], Marked(alive), table.generations, incarnation)

WorldIInv ==
  /\ alive \in Words /\ TableOK(table, Marked(alive))
  /\ CountsOK(table.generations, incarnation)
  /\ IssuedOK(issued, Len(table.generations), incarnation)
  /\ StoragesOK
  /\ candidates \in Seq(Slots)
  /\ QueryVisitsOwners

\* Two allocations of a slot that wrapped to the same generation are a number
\* of turns apart.
LEMMA SameAge ==
  ASSUME NEW a \in Nat, NEW b \in 1 .. a,
         (a - 1) % Generations = (b - 1) % Generations
  PROVE  (a - b) % Generations = 0
<1> DEFINE G == Generations
<1>0. G \in Nat /\ G > 0 /\ a - 1 \in Nat /\ b - 1 \in Nat /\ b - 1 <= a - 1
  BY EntitiesAssumption
<1>1. PICK q \in Nat, r \in 0 .. G - 1 : a - 1 = G * q + r
  BY <1>0, DivisionExists
<1>2. PICK p \in Nat, u \in 0 .. G - 1 : b - 1 = G * p + u
  BY <1>0, DivisionExists
<1>3. (a - 1) % G = r /\ (b - 1) % G = u
  BY <1>0, <1>1, <1>2, DivisionUnique
<1>4. r = u
  BY <1>3
<1> HIDE DEF G
<1>5. G * p \in Nat /\ G * q \in Nat /\ G * p <= G * q
  BY <1>0, <1>1, <1>2, <1>4
<1>6. p <= q
  <2>1. SUFFICES ASSUME q + 1 <= p PROVE FALSE
    OBVIOUS
  <2>2. G * (q + 1) <= G * p
    BY <1>0, <2>1
  <2>3. G * (q + 1) = G * q + G
    BY <1>0
  <2>4. QED
    BY <1>0, <1>5, <2>2, <2>3
<1>7. q - p \in Nat /\ G * (q - p) = G * q - G * p
  BY <1>0, <1>6
<1>8. a - b = G * (q - p) + 0
  BY <1>0, <1>1, <1>2, <1>4, <1>5, <1>7
<1>9. 0 \in 0 .. G - 1
  BY <1>0
<1>10. (G * (q - p) + 0) % G = 0
  BY <1>0, <1>7, <1>9, DivisionUnique
<1>11. QED
  BY <1>8, <1>10 DEF G

\* The next allocation of a slot.
LEMMA NextAge ==
  ASSUME NEW a \in Nat, a >= 1
  PROVE  (((a - 1) % Generations) + 1) % Generations = ((a + 1) - 1) % Generations
<1> DEFINE b == a - 1
           G == Generations
<1>1. b \in Nat /\ b + 1 = (a + 1) - 1 /\ G \in Nat /\ G > 0
  BY EntitiesAssumption
<1> HIDE DEF b, G
<1>2. ((b % G) + 1) % G = (b + 1) % G
  BY <1>1, ModSum
<1>3. QED
  BY <1>1, <1>2 DEF b, G

\* What the invariant says of the storages, in the words of the properties.
LEMMA OwnersAreOwned ==
  ASSUME NEW c
  PROVE  Owners(c) = Owned(storage[c])
  BY DEF Owners, Owned

\* As many slots have a component as dense has elements.
LEMMA OwnersCounted ==
  ASSUME NEW st, StorageOK(st)
  PROVE  /\ {st.sparse[s] : s \in Owned(st)} = 1 .. Len(st.dense)
         /\ Cardinality(Owned(st)) = Len(st.dense)
<1> DEFINE n == Len(st.dense)
           O == Owned(st)
           f == [s \in O |-> st.sparse[s]]
<1>1. n \in Nat /\ Places(st.sparse, n) /\ O \subseteq Slots /\ O = {s \in Slots : st.sparse[s] # None}
  BY DEF StorageOK, Owned
<1>2. \A p \in 1 .. n : p # None
  BY EcsAssumption
<1> HIDE DEF n, O
<1>3. f \in [O -> 1 .. n] /\ \A s \in O : f[s] = st.sparse[s]
  BY <1>1 DEF Places
<1>4. \A s, r \in O : f[s] = f[r] => s = r
  BY <1>1, <1>3 DEF Places
<1>5. ASSUME NEW p \in 1 .. n
      PROVE  \E s \in O : f[s] = p
  <2>1. PICK s \in Slots : st.sparse[s] = p
    BY <1>1 DEF Places
  <2>2. s \in O
    BY <1>1, <1>2, <2>1
  <2>3. QED
    BY <1>3, <2>1, <2>2
<1>6. {st.sparse[s] : s \in O} = 1 .. n
  BY <1>3, <1>5
<1> HIDE DEF f
<1>7. f \in Bijection(O, 1 .. n)
  BY <1>3, <1>4, <1>5 DEF Bijection, Injection, Surjection, IsInjective
<1>8. IsFiniteSet(O)
  <2>1. IsFiniteSet(1 .. MaxSlots)
    BY SlotFacts, FS_Interval
  <2>2. QED
    BY <1>1, <2>1, FS_Subset DEF Slots
<1>9. Cardinality(1 .. n) = Cardinality(O)
  <2>1. ExistsBijection(O, 1 .. n)
    BY <1>7 DEF ExistsBijection
  <2>2. QED
    BY <1>8, <2>1, FS_Bijection
<1>10. Cardinality(1 .. n) = n
  <2>1. Cardinality(1 .. n) = IF 1 > n THEN 0 ELSE n - 1 + 1
    BY <1>1, FS_Interval
  <2>2. QED
    BY <1>1, <2>1
<1>11. QED
  BY <1>6, <1>9, <1>10 DEF n, O

\* The inductive invariant implies the properties of the world.
LEMMA WorldIInvImplies ==
  ASSUME WorldIInv
  PROVE  WorldInv /\ RecyclingIsSafe /\ QueryVisitsOwners
<1>1. /\ alive \in Words /\ TableOK(table, Marked(alive))
      /\ CountsOK(table.generations, incarnation)
      /\ IssuedOK(issued, Len(table.generations), incarnation)
      /\ DOMAIN storage \subseteq Components /\ candidates \in Seq(Slots)
      /\ QueryVisitsOwners
  BY DEF WorldIInv, StoragesOK
<1>2. \A c \in DOMAIN storage :
        StorageOK(storage[c]) /\ BelongsTo(storage[c], Marked(alive), table.generations, incarnation)
  BY DEF WorldIInv, StoragesOK
<1>3. TypeOK
  <2>1. table.live \in Nat
    BY <1>1, LivingFinite DEF TableOK
  <2>2. table.generations \in Seq(0 .. Generations - 1) /\ table.free \in Seq(Slots)
    BY <1>1 DEF TableOK, Ages
  <2>3. alive \in Seq(SUBSET (0 .. WordBits - 1))
    BY <1>1 DEF Words
  <2>4. ASSUME NEW c \in DOMAIN storage
        PROVE  /\ storage[c].sparse \in [Slots -> Nat \cup {None}]
               /\ storage[c].generations \in [Slots -> 0 .. Generations - 1]
               /\ storage[c].dense \in Seq(Values)
               /\ storage[c].presence \in Seq(SUBSET (0 .. WordBits - 1))
    BY <1>2 DEF StorageOK, Positions, Ages, Words
  <2>5. QED
    BY <1>1, <2>1, <2>2, <2>3, <2>4 DEF TypeOK
<1>4. TableCoherent
  BY <1>1 DEF TableOK, TableCoherent
<1>5. StorageCoherent
  <2>1. ASSUME NEW c \in DOMAIN storage
        PROVE  /\ Marked(storage[c].presence) = Owners(c) /\ storage[c].presence \in Words
               /\ {storage[c].sparse[s] : s \in Owners(c)} = 1 .. Len(storage[c].dense)
               /\ Cardinality(Owners(c)) = Len(storage[c].dense)
    <3> DEFINE st == storage[c]
    <3>1. StorageOK(st) /\ Owners(c) = Owned(st)
      BY <1>2, OwnersAreOwned
    <3> HIDE DEF st
    <3>2. Marked(st.presence) = Owned(st) /\ st.presence \in Words
      BY <3>1 DEF StorageOK
    <3>3. /\ {st.sparse[s] : s \in Owned(st)} = 1 .. Len(st.dense)
          /\ Cardinality(Owned(st)) = Len(st.dense)
      BY <3>1, OwnersCounted
    <3>4. QED
      BY <3>1, <3>2, <3>3 DEF st
  <2>2. ASSUME NEW c \in DOMAIN storage, NEW d \in DOMAIN storage
        PROVE  Marked(Intersection(storage[c].presence, storage[d].presence)) = Owners(c) \cap Owners(d)
    BY <2>1, IntersectionMarks
  <2>3. QED
    BY <2>1, <2>2 DEF StorageCoherent
<1>6. NoAliasing
  <2>1. ASSUME NEW c \in DOMAIN storage, NEW s \in Owners(c)
        PROVE  /\ s \in Marked(alive)
               /\ storage[c].dense[storage[c].sparse[s]] = <<s, incarnation[s]>>
               /\ storage[c].generations[s] = table.generations[s]
    <3>1. s \in Owned(storage[c])
      BY OwnersAreOwned
    <3>2. QED
      BY <1>2, <3>1 DEF BelongsTo, Stored
  <2>2. QED
    BY <2>1 DEF NoAliasing
<1>7. StaleHandleIsDead
  <2>1. ASSUME NEW x \in issued, is_alive(table, x.handle)
        PROVE  (incarnation[x.handle.index] - x.incarnation) % Generations = 0
    <3> DEFINE s == x.handle.index
               a == incarnation[s]
               b == x.incarnation
    <3>1. /\ x.handle \in Handles /\ s <= Len(table.generations) /\ b \in 1 .. a
          /\ x.handle.generation = (b - 1) % Generations
      BY <1>1 DEF IssuedOK
    <3>2. s \in Slots
      BY <3>1 DEF Handles
    <3>3. a \in Nat /\ table.generations[s] = (a - 1) % Generations
      BY <1>1, <3>1, <3>2 DEF CountsOK
    <3>4. table.generations[s] = x.handle.generation
      BY <2>1 DEF is_alive
    <3> HIDE DEF a, b, s
    <3>5. (a - b) % Generations = 0
      BY <3>1, <3>3, <3>4, SameAge
    <3>6. QED
      BY <3>5 DEF a, b, s
  <2>2. QED
    BY <2>1 DEF StaleHandleIsDead
<1>8. QED
  BY <1>1, <1>3, <1>4, <1>5, <1>6, <1>7 DEF WorldInv, RecyclingIsSafe

\* A query that has visited nothing, or is forgotten.
LEMMA NothingVisited ==
  ASSUME visited = <<>>
  PROVE  QueryVisitsOwners
<1>1. Len(<<>>) = 0
  OBVIOUS
<1>2. QED
  BY <1>1 DEF QueryVisitsOwners

\* The allocation counts after an allocation.
LEMMA CountsAfterSpawn ==
  ASSUME NEW t, NEW made, NEW inc, CountsOK(t.generations, inc),
         t.generations \in Seq(Ages), made.table.generations \in Seq(Ages),
         MadeFrom(t, made), made.entity.index \in Slots, NEW new \in [Slots -> Nat],
         \A s \in Slots : new[s] = IF s = made.entity.index THEN inc[s] + 1 ELSE inc[s]
  PROVE  /\ CountsOK(made.table.generations, new)
         /\ made.entity.generation = ((inc[made.entity.index] + 1) - 1) % Generations
<1> DEFINE slot == made.entity.index
           H == made.table.generations
           G == t.generations
           g == made.entity.generation
<1>1. /\ g \in Ages /\ slot \in 1 .. Len(H)
      /\ \A s \in Nat : s >= 1 => (s <= Len(H) <=> s <= Len(G) \/ s = slot)
      /\ g = IF slot <= Len(G) THEN (G[slot] + 1) % Generations ELSE 0
      /\ \A s \in 1 .. Len(H) : H[s] = IF s = slot THEN g ELSE G[s]
  BY DEF MadeFrom
<1>2. /\ inc \in [Slots -> Nat] /\ Len(H) \in Nat /\ Len(G) \in Nat
      /\ \A s \in Slots : IF s <= Len(G) THEN inc[s] >= 1 /\ G[s] = (inc[s] - 1) % Generations
                          ELSE inc[s] = 0
  BY DEF CountsOK
<1> HIDE DEF slot, H, G, g
<1>3. slot \in Slots
  BY DEF slot
<1>4. new \in [Slots -> Nat] /\ \A s \in Slots : new[s] = IF s = slot THEN inc[s] + 1 ELSE inc[s]
  BY DEF slot
<1>5. g = ((inc[slot] + 1) - 1) % Generations
  <2>1. CASE slot <= Len(G)
    <3>1. inc[slot] \in Nat /\ inc[slot] >= 1 /\ G[slot] = (inc[slot] - 1) % Generations
      BY <1>2, <1>3, <2>1
    <3>2. g = (((inc[slot] - 1) % Generations) + 1) % Generations
      BY <1>1, <2>1, <3>1
    <3>3. QED
      BY <3>1, <3>2, NextAge
  <2>2. CASE ~(slot <= Len(G))
    <3>1. inc[slot] = 0 /\ g = 0
      BY <1>1, <1>2, <1>3, <2>2
    <3>2. 0 % Generations = 0
      BY EntitiesAssumption
    <3>3. (0 + 1) - 1 = 0
      OBVIOUS
    <3>4. QED
      BY <3>1, <3>2, <3>3
  <2>3. QED
    BY <2>1, <2>2
<1>6. ASSUME NEW s \in Slots
      PROVE  IF s <= Len(H) THEN new[s] >= 1 /\ H[s] = (new[s] - 1) % Generations
             ELSE new[s] = 0
  <2>1. s \in Nat /\ s >= 1 /\ (s <= Len(H) => s \in 1 .. Len(H))
    BY <1>2, SlotFacts
  <2>2. CASE s = slot
    <3>1. new[s] = inc[s] + 1 /\ inc[s] \in Nat
      BY <1>2, <1>4, <2>2
    <3>2. H[s] = g /\ s <= Len(H)
      BY <1>1, <1>2, <2>2
    <3>3. inc[s] + 1 >= 1
      BY <3>1
    <3>4. QED
      BY <1>5, <2>2, <3>1, <3>2, <3>3
  <2>3. CASE s # slot
    <3>1. new[s] = inc[s] /\ (s <= Len(H) <=> s <= Len(G))
      BY <1>1, <1>4, <2>1, <2>3
    <3>2. s <= Len(H) => H[s] = G[s]
      BY <1>1, <2>1, <2>3
    <3>3. QED
      BY <1>2, <3>1, <3>2
  <2>4. QED
    BY <2>2, <2>3
<1>7. CountsOK(H, new)
  BY <1>4, <1>6 DEF CountsOK
<1>8. QED
  BY <1>4, <1>5, <1>7 DEF slot, H, g

\* The handles returned so far, and the one returned now.
LEMMA IssuedAfterSpawn ==
  ASSUME NEW hs, NEW n \in Nat, NEW m \in Nat, n <= m, NEW inc \in [Slots -> Nat],
         IssuedOK(hs, n, inc), NEW e \in Handles, e.index <= m,
         NEW new, \A s \in Slots : new[s] = IF s = e.index THEN inc[s] + 1 ELSE inc[s],
         e.generation = ((inc[e.index] + 1) - 1) % Generations
  PROVE  IssuedOK(hs \cup {[handle |-> e, incarnation |-> inc[e.index] + 1]}, m, new)
<1> DEFINE y == [handle |-> e, incarnation |-> inc[e.index] + 1]
<1>1. ASSUME NEW x \in hs
      PROVE  /\ x.handle \in Handles /\ x.handle.index <= m
             /\ x.incarnation \in 1 .. new[x.handle.index]
             /\ x.handle.generation = (x.incarnation - 1) % Generations
  <2>1. /\ x.handle \in Handles /\ x.handle.index <= n
        /\ x.incarnation \in 1 .. inc[x.handle.index]
        /\ x.handle.generation = (x.incarnation - 1) % Generations
    BY DEF IssuedOK
  <2>2. x.handle.index \in Slots /\ x.handle.index \in Nat
    BY <2>1, SlotFacts DEF Handles
  <2> DEFINE s == x.handle.index
  <2> HIDE DEF s
  <2>3. inc[s] \in Nat /\ new[s] \in Nat /\ inc[s] <= new[s]
    BY <2>2 DEF s
  <2>4. x.incarnation \in 1 .. new[s]
    BY <2>1, <2>3 DEF s
  <2>5. QED
    BY <2>1, <2>2, <2>4 DEF s
<1>2. /\ y.handle = e /\ y.incarnation = inc[e.index] + 1
  OBVIOUS
<1>3. e.index \in Slots
  BY DEF Handles
<1>4. y.incarnation \in 1 .. new[e.index]
  <2>1. inc[e.index] \in Nat /\ new[e.index] = inc[e.index] + 1
    BY <1>3
  <2>2. QED
    BY <1>2, <2>1
<1> HIDE DEF y
<1>5. /\ y.handle \in Handles /\ y.handle.index <= m
      /\ y.incarnation \in 1 .. new[y.handle.index]
      /\ y.handle.generation = (y.incarnation - 1) % Generations
  BY <1>2, <1>4
<1>6. IssuedOK(hs \cup {y}, m, new)
  BY <1>1, <1>5 DEF IssuedOK
<1>7. QED
  BY <1>6 DEF y

\* try_spawn: the new owner's slot had no component left, so nothing stored is
\* handed on to it.
LEMMA SpawnStep ==
  ASSUME WorldIInv, Spawn
  PROVE  WorldIInv'
<1> DEFINE made == Created(table)
           slot == made.entity.index
           L == Marked(alive)
           reserved == Reserved(alive, Len(table.generations) + 1)
<1>1. /\ alive \in Words /\ TableOK(table, L)
      /\ CountsOK(table.generations, incarnation)
      /\ IssuedOK(issued, Len(table.generations), incarnation)
      /\ DOMAIN storage \subseteq Components /\ candidates \in Seq(Slots)
  BY DEF WorldIInv, StoragesOK
<1>2. \A c \in DOMAIN storage :
        StorageOK(storage[c]) /\ BelongsTo(storage[c], L, table.generations, incarnation)
  BY DEF WorldIInv, StoragesOK
<1>3. /\ CanCreate(table) /\ table' = made.table /\ alive' = SetBit(reserved, slot - 1)
      /\ incarnation' = [incarnation EXCEPT ![slot] = @ + 1]
      /\ issued' = issued \cup {[handle |-> made.entity, incarnation |-> incarnation[slot] + 1]}
      /\ visited' = <<>> /\ storage' = storage /\ candidates' = candidates
  BY DEF Spawn
<1>4. made.entity \in [index : {slot}, generation : {made.entity.generation}]
  BY DEF Created
<1> HIDE DEF made, L
<1>5. slot \in Slots /\ slot \notin L /\ TableOK(made.table, L \cup {slot}) /\ MadeFrom(table, made)
  BY <1>1, <1>3, CreatedOK DEF made
<1>6. /\ table.generations \in Seq(Ages) /\ made.table.generations \in Seq(Ages)
      /\ Len(table.generations) \in Nat /\ Len(made.table.generations) \in Nat
  BY <1>1, <1>5 DEF TableOK
<1>7. reserved \in Words /\ Marked(reserved) = L
  <2>1. Len(table.generations) + 1 \in Nat
    BY <1>6
  <2>2. QED
    BY <1>1, <2>1, ReservedMarks DEF L
<1> HIDE DEF reserved
<1>8. alive' \in Words /\ Marked(alive') = L \cup {slot}
  <2>1. slot \in Nat /\ slot >= 1
    BY <1>5, SlotFacts
  <2> HIDE DEF slot
  <2>2. QED
    BY <1>3, <1>7, <2>1, SetBitMarks
<1>9. /\ CountsOK(table'.generations, incarnation')
      /\ \A s \in Slots : incarnation'[s] = IF s = slot THEN incarnation[s] + 1 ELSE incarnation[s]
      /\ made.entity.generation = ((incarnation[slot] + 1) - 1) % Generations
  <2> DEFINE new == incarnation'
  <2>1. incarnation \in [Slots -> Nat] /\ CountsOK(table.generations, incarnation)
    BY <1>1 DEF CountsOK
  <2>2. /\ new \in [Slots -> Nat]
        /\ \A s \in Slots : new[s] = IF s = slot THEN incarnation[s] + 1 ELSE incarnation[s]
    <3> HIDE DEF slot
    <3>1. QED
      BY <1>3, <1>5, <2>1
  <2>3. table' = made.table
    BY <1>3
  <2> HIDE DEF new
  <2>4. /\ CountsOK(made.table.generations, new)
        /\ made.entity.generation = ((incarnation[made.entity.index] + 1) - 1) % Generations
    BY <1>5, <1>6, <2>1, <2>2, CountsAfterSpawn
  <2>5. QED
    BY <2>2, <2>3, <2>4 DEF new
<1>10. /\ slot <= Len(made.table.generations)
       /\ Len(table.generations) <= Len(made.table.generations)
       /\ made.entity.generation \in Ages
       /\ \A s \in 1 .. Len(made.table.generations) :
            s # slot => made.table.generations[s] = table.generations[s]
       /\ 1 .. Len(table.generations) \subseteq 1 .. Len(made.table.generations)
  <2>1. /\ slot \in 1 .. Len(made.table.generations) /\ made.entity.generation \in Ages
        /\ \A s \in Nat : s >= 1 => (s <= Len(made.table.generations)
                                       <=> s <= Len(table.generations) \/ s = slot)
        /\ \A s \in 1 .. Len(made.table.generations) :
             s # slot => made.table.generations[s] = table.generations[s]
    BY <1>5 DEF MadeFrom
  <2>2. Len(table.generations) <= Len(made.table.generations)
    BY <1>6, <2>1
  <2>3. QED
    BY <1>6, <2>1, <2>2
<1>11. made.entity \in Handles
  BY <1>4, <1>5, <1>10 DEF Handles, Ages
<1>12. IssuedOK(issued', Len(table'.generations), incarnation')
  <2>1. incarnation \in [Slots -> Nat]
    BY <1>1 DEF CountsOK
  <2>2. QED
    BY <1>1, <1>3, <1>6, <1>9, <1>10, <1>11, <2>1, IssuedAfterSpawn
<1>13. ASSUME NEW c \in DOMAIN storage
       PROVE  BelongsTo(storage[c], L \cup {slot}, table'.generations, incarnation')
  <2>1. ASSUME NEW s \in Owned(storage[c])
        PROVE  /\ s \in L \cup {slot} /\ Stored(storage[c], s) = <<s, incarnation'[s]>>
               /\ storage[c].generations[s] = table'.generations[s]
    <3>1. /\ s \in L /\ Stored(storage[c], s) = <<s, incarnation[s]>>
          /\ storage[c].generations[s] = table.generations[s]
      BY <1>2 DEF BelongsTo
    <3>2. s \in Slots /\ s # slot
      BY <1>5, <3>1 DEF Owned
    <3>3. s \in 1 .. Len(table.generations)
      BY <1>1, <3>1 DEF TableOK
    <3>4. table'.generations[s] = table.generations[s] /\ incarnation'[s] = incarnation[s]
      BY <1>3, <1>9, <1>10, <3>2, <3>3
    <3>5. QED
      BY <3>1, <3>4
  <2>2. QED
    BY <2>1 DEF BelongsTo
<1>14. StoragesOK'
  BY <1>1, <1>2, <1>3, <1>8, <1>13 DEF StoragesOK
<1>15. QueryVisitsOwners'
  <2>1. (visited = <<>> => QueryVisitsOwners)'
    BY NothingVisited, PTL
  <2>2. QED
    BY <1>3, <2>1
<1>16. TableOK(table, Marked(alive))'
  BY <1>3, <1>5, <1>8
<1>17. QED
  BY <1>1, <1>3, <1>8, <1>9, <1>12, <1>14, <1>15, <1>16 DEF WorldIInv

\* A step that changes storages only.
LEMMA StorageOnly ==
  ASSUME WorldIInv, UNCHANGED <<table, alive, candidates, incarnation, issued>>,
         visited' = <<>>, DOMAIN storage' \subseteq Components,
         \A c \in DOMAIN storage' :
           /\ StorageOK(storage'[c])
           /\ BelongsTo(storage'[c], Marked(alive), table.generations, incarnation)
  PROVE  WorldIInv'
<1>1. QueryVisitsOwners'
  <2>1. (visited = <<>> => QueryVisitsOwners)'
    BY NothingVisited, PTL
  <2>2. QED
    BY <2>1
<1>2. StoragesOK'
  BY DEF StoragesOK
<1>3. /\ alive \in Words /\ TableOK(table, Marked(alive))
      /\ CountsOK(table.generations, incarnation)
      /\ IssuedOK(issued, Len(table.generations), incarnation)
      /\ candidates \in Seq(Slots)
  BY DEF WorldIInv
<1>4. QED
  BY <1>1, <1>2, <1>3 DEF WorldIInv

\* A type that is registered, or about to be.
LEMMA RegisteredOK ==
  ASSUME WorldIInv, NEW c
  PROVE  /\ StorageOK(Registered(c))
         /\ BelongsTo(Registered(c), Marked(alive), table.generations, incarnation)
<1>1. CASE c \in DOMAIN storage
  BY <1>1 DEF WorldIInv, StoragesOK, Registered
<1>2. CASE c \notin DOMAIN storage
  BY <1>2, EmptyStorageOK DEF Registered, BelongsTo
<1>3. QED
  BY <1>1, <1>2

\* A handle somebody has is a handle.
LEMMA HandlesIssued ==
  ASSUME WorldIInv, NEW h \in IssuedHandles
  PROVE  h \in Handles /\ h.index \in Slots
<1>1. h \in Handles
  BY DEF WorldIInv, IssuedOK, IssuedHandles
<1>2. QED
  BY <1>1 DEF Handles

\* register_component.
LEMMA RegisterStep ==
  ASSUME WorldIInv, NEW c \in Components, RegisterComponent(c)
  PROVE  WorldIInv'
<1>1. /\ storage' = [d \in DOMAIN storage \cup {c} |-> Registered(d)] /\ visited' = <<>>
      /\ UNCHANGED <<table, alive, candidates, incarnation, issued>>
  BY DEF RegisterComponent
<1>2. DOMAIN storage \subseteq Components
  BY DEF WorldIInv, StoragesOK
<1>3. DOMAIN storage' = DOMAIN storage \cup {c}
      /\ \A d \in DOMAIN storage' : storage'[d] = Registered(d)
  BY <1>1
<1>4. ASSUME NEW d \in DOMAIN storage'
      PROVE  /\ StorageOK(storage'[d])
             /\ BelongsTo(storage'[d], Marked(alive), table.generations, incarnation)
  BY <1>3, RegisteredOK
<1>5. DOMAIN storage' \subseteq Components
  BY <1>2, <1>3
<1>6. QED
  BY <1>1, <1>4, <1>5, StorageOnly

\* One storage is replaced, or created.
LEMMA OneStorage ==
  ASSUME WorldIInv, NEW c \in Components, NEW st,
         StorageOK(st), BelongsTo(st, Marked(alive), table.generations, incarnation),
         storage' = [d \in DOMAIN storage \cup {c} |-> IF d = c THEN st ELSE storage[d]],
         visited' = <<>>, UNCHANGED <<table, alive, candidates, incarnation, issued>>
  PROVE  WorldIInv'
<1>1. /\ DOMAIN storage \subseteq Components
      /\ \A d \in DOMAIN storage :
           /\ StorageOK(storage[d])
           /\ BelongsTo(storage[d], Marked(alive), table.generations, incarnation)
  BY DEF WorldIInv, StoragesOK
<1>2. DOMAIN storage' = DOMAIN storage \cup {c}
      /\ \A d \in DOMAIN storage' : storage'[d] = IF d = c THEN st ELSE storage[d]
  OBVIOUS
<1>3. ASSUME NEW d \in DOMAIN storage'
      PROVE  /\ StorageOK(storage'[d])
             /\ BelongsTo(storage'[d], Marked(alive), table.generations, incarnation)
  BY <1>1, <1>2
<1>4. DOMAIN storage' \subseteq Components
  BY <1>1, <1>2
<1>5. QED
  BY <1>3, <1>4, StorageOnly

\* try_insert, for the slot's present owner only.
LEMMA InsertStep ==
  ASSUME WorldIInv, NEW c \in Components, NEW h \in IssuedHandles, Insert(c, h)
  PROVE  WorldIInv'
<1> DEFINE st == Registered(c)
           value == <<h.index, incarnation[h.index]>>
           new == Inserted(st, h, value)
<1>1. h \in Handles /\ h.index \in Slots /\ is_alive(table, h)
  BY HandlesIssued DEF Insert
<1>2. StorageOK(st) /\ BelongsTo(st, Marked(alive), table.generations, incarnation)
  BY RegisteredOK
<1>3. value \in Values
  <2>1. incarnation[h.index] \in Nat
    BY <1>1 DEF WorldIInv, CountsOK
  <2>2. QED
    BY <1>1, <2>1 DEF Values
<1>4. h.index \in Marked(alive) /\ table.generations[h.index] = h.generation
  <2>1. TableOK(table, Marked(alive))
    BY DEF WorldIInv
  <2>2. QED
    BY <1>1, <2>1, DestroyedOK DEF is_alive
<1>5. /\ storage' = [d \in DOMAIN storage \cup {c} |-> IF d = c THEN new ELSE storage[d]]
      /\ visited' = <<>> /\ UNCHANGED <<table, alive, candidates, incarnation, issued>>
  BY DEF Insert
<1> HIDE DEF st, value, new
<1>6. /\ StorageOK(new) /\ Owned(new) = Owned(st) \cup {h.index}
      /\ Stored(new, h.index) = value
      /\ \A s \in Owned(st) \ {h.index} : Stored(new, s) = Stored(st, s)
      /\ \A s \in Slots : new.generations[s] = IF s = h.index THEN h.generation
                                               ELSE st.generations[s]
  BY <1>1, <1>2, <1>3, InsertedOK DEF new
<1>7. ASSUME NEW s \in Owned(new)
      PROVE  /\ s \in Marked(alive) /\ Stored(new, s) = <<s, incarnation[s]>>
             /\ new.generations[s] = table.generations[s]
  <2>1. s \in Slots
    BY <1>7 DEF Owned
  <2>2. CASE s = h.index
    BY <1>4, <1>6, <2>1, <2>2 DEF value
  <2>3. CASE s # h.index
    <3>1. s \in Owned(st)
      BY <1>6, <1>7, <2>3
    <3>2. QED
      BY <1>2, <1>6, <2>1, <2>3, <3>1 DEF BelongsTo
  <2>4. QED
    BY <2>2, <2>3
<1>8. BelongsTo(new, Marked(alive), table.generations, incarnation)
  BY <1>7 DEF BelongsTo
<1>9. QED
  BY <1>5, <1>6, <1>8, OneStorage

\* A try_insert that fails late.
LEMMA InsertFailsStep ==
  ASSUME WorldIInv, NEW c \in Components, NEW h \in IssuedHandles, InsertFails(c, h)
  PROVE  WorldIInv'
<1> DEFINE st == Registered(c)
           new == Prepared(st, h)
<1>1. h \in Handles /\ st.sparse[h.index] = None
  BY HandlesIssued DEF InsertFails
<1>2. StorageOK(st) /\ BelongsTo(st, Marked(alive), table.generations, incarnation)
  BY RegisteredOK
<1>3. /\ storage' = [d \in DOMAIN storage \cup {c} |-> IF d = c THEN new ELSE storage[d]]
      /\ visited' = <<>> /\ UNCHANGED <<table, alive, candidates, incarnation, issued>>
  BY DEF InsertFails
<1> HIDE DEF st, new
<1>4. /\ StorageOK(new) /\ Owned(new) = Owned(st)
      /\ \A s \in Slots : Stored(new, s) = Stored(st, s)
      /\ \A s \in Owned(st) : new.generations[s] = st.generations[s]
  BY <1>1, <1>2, PreparedOK DEF new
<1>5. \A s \in Owned(st) : s \in Slots
  BY DEF Owned
<1>6. BelongsTo(new, Marked(alive), table.generations, incarnation)
  BY <1>2, <1>4, <1>5 DEF BelongsTo
<1>7. QED
  BY <1>3, <1>4, <1>6, OneStorage

\* remove, with any handle.
LEMMA RemoveStep ==
  ASSUME WorldIInv, NEW c \in Components, NEW h \in IssuedHandles, Remove(c, h)
  PROVE  WorldIInv'
<1> DEFINE st == storage[c]
           new == Removed(st, h)
<1>1. h \in Handles /\ c \in DOMAIN storage
  BY HandlesIssued DEF Remove
<1>2. StorageOK(st) /\ BelongsTo(st, Marked(alive), table.generations, incarnation)
  BY <1>1 DEF WorldIInv, StoragesOK
<1>3. DOMAIN storage \cup {c} = DOMAIN storage
  BY <1>1
<1>4. /\ storage' = [d \in DOMAIN storage |-> IF d = c THEN new ELSE storage[d]]
      /\ visited' = <<>> /\ UNCHANGED <<table, alive, candidates, incarnation, issued>>
  BY DEF Remove
<1> HIDE DEF st, new
<1>5. /\ StorageOK(new)
      /\ Owned(new) = Owned(st) \ (IF contains(st, h) THEN {h.index} ELSE {})
      /\ \A s \in Owned(new) : Stored(new, s) = Stored(st, s)
      /\ new.generations = st.generations
  BY <1>1, <1>2, RemovedOK DEF new
<1>6. BelongsTo(new, Marked(alive), table.generations, incarnation)
  BY <1>2, <1>5 DEF BelongsTo
<1>7. storage' = [d \in DOMAIN storage \cup {c} |-> IF d = c THEN new ELSE storage[d]]
  BY <1>3, <1>4
<1>8. QED
  BY <1>4, <1>5, <1>6, <1>7, OneStorage

\* try_despawn: the slot loses its components in every storage, since they
\* carry the generation of the entity that is despawned.
LEMMA DespawnStep ==
  ASSUME WorldIInv, NEW h \in IssuedHandles, Despawn(h)
  PROVE  WorldIInv'
<1> DEFINE slot == h.index
           L == Marked(alive)
<1>1. /\ alive \in Words /\ TableOK(table, L)
      /\ CountsOK(table.generations, incarnation)
      /\ IssuedOK(issued, Len(table.generations), incarnation)
      /\ DOMAIN storage \subseteq Components /\ candidates \in Seq(Slots)
      /\ \A c \in DOMAIN storage :
           StorageOK(storage[c]) /\ BelongsTo(storage[c], L, table.generations, incarnation)
  BY DEF WorldIInv, StoragesOK
<1>2. h \in Handles /\ slot \in Slots /\ slot \in Nat /\ slot >= 1
  BY HandlesIssued, SlotFacts
<1>3. /\ is_alive(table, h) /\ table' = Destroyed(table, h) /\ alive' = ClearBit(alive, slot - 1)
      /\ storage' = [c \in DOMAIN storage |-> Removed(storage[c], h)]
      /\ visited' = <<>> /\ UNCHANGED <<candidates, incarnation, issued>>
  BY DEF Despawn
<1> HIDE DEF L
<1>4. TableOK(table', L \ {slot}) /\ table'.generations = table.generations
  BY <1>1, <1>2, <1>3, DestroyedOK
<1>5. alive' \in Words /\ Marked(alive') = L \ {slot}
  <2> HIDE DEF slot
  <2>1. QED
    BY <1>1, <1>2, <1>3, ClearBitMarks DEF L
<1>6. table.generations[slot] = h.generation
  BY <1>3 DEF is_alive
<1>7. ASSUME NEW c \in DOMAIN storage
      PROVE  /\ StorageOK(storage'[c])
             /\ BelongsTo(storage'[c], L \ {slot}, table.generations, incarnation)
  <2> DEFINE st == storage[c]
             new == storage'[c]
  <2>1. new = Removed(st, h)
    BY <1>3
  <2>2. StorageOK(st) /\ BelongsTo(st, L, table.generations, incarnation)
    BY <1>1
  <2> HIDE DEF st, new
  <2>3. /\ StorageOK(new)
        /\ Owned(new) = Owned(st) \ (IF contains(st, h) THEN {slot} ELSE {})
        /\ \A s \in Owned(new) : Stored(new, s) = Stored(st, s)
        /\ new.generations = st.generations
    BY <1>2, <2>1, <2>2, RemovedOK
  <2>4. slot \in Owned(st) => contains(st, h)
    BY <1>6, <2>2 DEF BelongsTo, contains, Owned
  <2>5. slot \notin Owned(new)
    BY <2>3, <2>4
  <2>6. BelongsTo(new, L \ {slot}, table.generations, incarnation)
    <3> HIDE DEF slot
    <3>1. QED
      BY <2>2, <2>3, <2>5 DEF BelongsTo
  <2>7. QED
    BY <2>3, <2>6 DEF new
<1>8. StoragesOK'
  <2>1. DOMAIN storage' = DOMAIN storage
    BY <1>3
  <2>2. incarnation' = incarnation
    BY <1>3
  <2>3. QED
    BY <1>1, <1>4, <1>5, <1>7, <2>1, <2>2 DEF StoragesOK
<1>9. QueryVisitsOwners'
  <2>1. (visited = <<>> => QueryVisitsOwners)'
    BY NothingVisited, PTL
  <2>2. QED
    BY <1>3, <2>1
<1>10. TableOK(table, Marked(alive))'
  BY <1>4, <1>5
<1>11. CountsOK(table.generations, incarnation)' /\ IssuedOK(issued, Len(table.generations), incarnation)'
  BY <1>1, <1>3, <1>4
<1>12. QED
  BY <1>1, <1>3, <1>5, <1>8, <1>9, <1>10, <1>11 DEF WorldIInv

-----------------------------------------------------------------------------
(* Queries.                                                                *)

\* One visit is right: a living entity, and its own components.
VisitOK(v) ==
  /\ is_alive(table, v.handle)
  /\ \A k \in DOMAIN v.values : v.values[k] = <<v.handle.index, incarnation[v.handle.index]>>

\* An entity with a component is alive, with the generation the storage has.
LEMMA OwnerIsAlive ==
  ASSUME WorldIInv, NEW c \in DOMAIN storage, NEW i \in Slots, storage[c].sparse[i] # None,
         NEW h, h = [index |-> i, generation |-> storage[c].generations[i]]
  PROVE  is_alive(table, h) /\ Stored(storage[c], i) = <<i, incarnation[i]>>
<1>1. i \in Owned(storage[c])
  BY DEF Owned
<1>2. /\ i \in Marked(alive) /\ Stored(storage[c], i) = <<i, incarnation[i]>>
      /\ storage[c].generations[i] = table.generations[i]
  BY <1>1 DEF WorldIInv, StoragesOK, BelongsTo
<1>3. i \in 1 .. Len(table.generations) /\ ~IsFree(table, i) /\ Len(table.generations) \in Nat
  BY <1>2 DEF WorldIInv, TableOK
<1>4. h.index = i /\ h.generation = table.generations[i]
  BY <1>2
<1>5. i <= Len(table.generations)
  BY <1>3
<1>6. QED
  BY <1>2, <1>3, <1>4, <1>5 DEF is_alive

\* for_each visits owners only, however old its list of candidates is.
LEMMA ForEachVisits ==
  ASSUME WorldIInv, NEW cs \in Seq(DOMAIN storage), cs # <<>>
  PROVE  \A n \in 1 .. Len(ForEach(cs)) : VisitOK(ForEach(cs)[n])
<1> DEFINE A == storage[cs[1]]
           Handle(i) == [index |-> i, generation |-> A.generations[i]]
           Holds(i) == /\ A.sparse[i] # None
                       /\ \A k \in DOMAIN cs : contains(storage[cs[k]], Handle(i))
           M == {n \in 1 .. Len(candidates) : Holds(candidates[n])}
           met == Ascending(M)
           Value(c, i) == storage[c].dense[storage[c].sparse[i]]
           Visit(i) == [handle |-> Handle(i), values |-> [k \in DOMAIN cs |-> Value(cs[k], i)]]
           V == [n \in 1 .. Len(met) |-> Visit(candidates[met[n]])]
<1>1. ForEach(cs) = V
  BY DEF ForEach
<1>2. Len(candidates) \in Nat /\ \A n \in 1 .. Len(candidates) : candidates[n] \in Slots
  <2>1. candidates \in Seq(Slots)
    BY DEF WorldIInv
  <2>2. QED
    BY <2>1
<1>3. cs[1] \in DOMAIN storage /\ \A k \in DOMAIN cs : cs[k] \in DOMAIN storage
  OBVIOUS
<1>4. ASSUME NEW i \in Slots, Holds(i)
      PROVE  VisitOK(Visit(i))
  <2>1. is_alive(table, Handle(i))
    BY <1>3, <1>4, OwnerIsAlive
  <2>2. ASSUME NEW k \in DOMAIN cs
        PROVE  Value(cs[k], i) = <<i, incarnation[i]>>
    <3>1. cs[k] \in DOMAIN storage /\ storage[cs[k]].sparse[i] # None
      BY <1>3, <1>4 DEF contains
    <3>2. QED
      BY <3>1, OwnerIsAlive DEF Stored
  <2> DEFINE v == Visit(i)
             f == [k \in DOMAIN cs |-> Value(cs[k], i)]
  <2>3. \A k \in DOMAIN f : f[k] = <<i, incarnation[i]>>
    BY <2>2
  <2>4. v.handle = Handle(i) /\ v.values = f /\ Handle(i).index = i
    OBVIOUS
  <2> HIDE DEF v, f, Handle
  <2>5. VisitOK(v)
    BY <2>1, <2>3, <2>4 DEF VisitOK
  <2>6. QED
    BY <2>5 DEF v, f
<1> HIDE DEF Visit, Holds
<1>5. M \in SUBSET (1 .. Len(candidates))
  OBVIOUS
<1>6. \A n \in M : n \in 1 .. Len(candidates) /\ Holds(candidates[n])
  OBVIOUS
<1> HIDE DEF M
<1>7. met \in [1 .. Cardinality(M) -> M] /\ Len(met) = Cardinality(M) /\ Cardinality(M) \in Nat
  BY <1>2, <1>5, AscendingFacts
<1> HIDE DEF met
<1>8. ASSUME NEW n \in 1 .. Len(met)
      PROVE  VisitOK(Visit(candidates[met[n]]))
  <2>1. met[n] \in M
    BY <1>7
  <2>2. candidates[met[n]] \in Slots /\ Holds(candidates[met[n]])
    BY <1>2, <1>6, <2>1
  <2>3. QED
    BY <1>4, <2>2
<1>9. Len(V) = Len(met) /\ \A n \in 1 .. Len(met) : V[n] = Visit(candidates[met[n]])
  BY <1>7
<1> HIDE DEF V
<1>10. \A n \in 1 .. Len(V) : VisitOK(V[n])
  BY <1>8, <1>9
<1>11. QED
  BY <1>1, <1>10

\* A step that only visits.
LEMMA VisitOnly ==
  ASSUME WorldIInv, UNCHANGED <<table, alive, storage, candidates, incarnation, issued>>,
         NEW V, visited' = V, \A n \in 1 .. Len(V) : VisitOK(V[n])
  PROVE  WorldIInv'
<1>1. QueryVisitsOwners'
  BY DEF QueryVisitsOwners, VisitOK
<1>2. /\ alive \in Words /\ TableOK(table, Marked(alive))
      /\ CountsOK(table.generations, incarnation)
      /\ IssuedOK(issued, Len(table.generations), incarnation)
      /\ candidates \in Seq(Slots) /\ StoragesOK
  BY DEF WorldIInv
<1>3. StoragesOK'
  BY <1>2 DEF StoragesOK
<1>4. QED
  BY <1>1, <1>2, <1>3 DEF WorldIInv

\* for_each of a pair and of a single storage.
LEMMA ForEachStep ==
  ASSUME WorldIInv, NEW a, NEW b, ForEachPair(a, b) \/ ForEachSingle(a)
  PROVE  WorldIInv'
<1>1. CASE ForEachPair(a, b)
  <2> DEFINE cs == <<a, b>>
  <2>1. cs \in Seq(DOMAIN storage) /\ cs # <<>>
    BY <1>1 DEF ForEachPair
  <2>2. visited' = ForEach(cs) /\ UNCHANGED <<table, alive, storage, candidates, incarnation, issued>>
    BY <1>1 DEF ForEachPair
  <2> HIDE DEF cs
  <2>3. \A n \in 1 .. Len(ForEach(cs)) : VisitOK(ForEach(cs)[n])
    BY <2>1, ForEachVisits
  <2>4. QED
    BY <2>2, <2>3, VisitOnly
<1>2. CASE ForEachSingle(a)
  <2> DEFINE cs == <<a>>
  <2>1. cs \in Seq(DOMAIN storage) /\ cs # <<>>
    BY <1>2 DEF ForEachSingle
  <2>2. visited' = ForEach(cs) /\ UNCHANGED <<table, alive, storage, candidates, incarnation, issued>>
    BY <1>2 DEF ForEachSingle
  <2> HIDE DEF cs
  <2>3. \A n \in 1 .. Len(ForEach(cs)) : VisitOK(ForEach(cs)[n])
    BY <2>1, ForEachVisits
  <2>4. QED
    BY <2>2, <2>3, VisitOnly
<1>3. QED
  BY <1>1, <1>2

\* for_each_entity visits the marked slots, with the table's generation.
LEMMA ForEachEntityStep ==
  ASSUME WorldIInv, ForEachEntity
  PROVE  WorldIInv'
<1> DEFINE N == Len(table.generations)
           M == Marked(alive) \cap 1 .. N
           live == Ascending(M)
           Visit(i) == [handle |-> [index |-> i, generation |-> table.generations[i]],
                        values |-> <<>>]
           V == [k \in 1 .. Len(live) |-> Visit(live[k])]
<1>1. /\ visited' = V
      /\ UNCHANGED <<table, alive, storage, candidates, incarnation, issued>>
  BY DEF ForEachEntity
<1>2. N \in Nat /\ \A i \in M : i \in 1 .. N /\ ~IsFree(table, i)
  BY DEF WorldIInv, TableOK
<1>3. ASSUME NEW i \in M
      PROVE  VisitOK(Visit(i))
  <2>1. i <= N /\ ~IsFree(table, i)
    BY <1>2
  <2> DEFINE h == [index |-> i, generation |-> table.generations[i]]
  <2>2. is_alive(table, h)
    BY <2>1 DEF is_alive
  <2>3. DOMAIN <<>> = {}
    OBVIOUS
  <2>4. Visit(i).handle = h /\ Visit(i).values = <<>>
    OBVIOUS
  <2> HIDE DEF h, Visit
  <2>5. QED
    BY <2>2, <2>3, <2>4 DEF VisitOK
<1>4. M \in SUBSET (1 .. N)
  OBVIOUS
<1> HIDE DEF M, N
<1>5. live \in [1 .. Cardinality(M) -> M] /\ Len(live) = Cardinality(M) /\ Cardinality(M) \in Nat
  <2>1. N \in Nat
    BY <1>2
  <2>2. live \in [1 .. Cardinality(M) -> M] /\ Len(live) = Cardinality(M) /\ Cardinality(M) \in 0 .. N
    BY ONLY <1>4, <2>1, AscendingFacts
  <2>3. QED
    BY <2>1, <2>2
<1> HIDE DEF live, Visit
<1>6. Len(V) = Len(live) /\ \A k \in 1 .. Len(live) : V[k] = Visit(live[k]) /\ live[k] \in M
  BY <1>5
<1> HIDE DEF V
<1>7. \A k \in 1 .. Len(V) : VisitOK(V[k])
  BY <1>3, <1>6
<1>8. QED
  BY <1>1, <1>7, VisitOnly

\* collect_intersection lists slots.
LEMMA CollectStep ==
  ASSUME WorldIInv, NEW a, NEW b, CollectIntersection(a, b)
  PROVE  WorldIInv'
<1> DEFINE M == Marked(Intersection(storage[a].presence, storage[b].presence))
<1>1. candidates' \in Seq(Slots)
  <2>1. CASE {a, b} \subseteq DOMAIN storage
    <3>1. StorageOK(storage[a]) /\ StorageOK(storage[b])
      BY <2>1 DEF WorldIInv, StoragesOK
    <3>2. M = Marked(storage[a].presence) \cap Marked(storage[b].presence)
      BY <3>1, IntersectionMarks DEF StorageOK
    <3>3. M \in SUBSET (1 .. MaxSlots) /\ MaxSlots \in Nat
      BY <3>1, <3>2, SlotFacts DEF StorageOK, Owned, Slots
    <3>4. candidates' = Ascending(M)
      BY <2>1 DEF CollectIntersection
    <3> HIDE DEF M
    <3>5. Ascending(M) \in Seq(M)
      BY <3>3, AscendingFacts
    <3>6. M \subseteq Slots
      BY <3>3 DEF Slots
    <3>7. QED
      BY <3>4, <3>5, <3>6
  <2>2. CASE ~({a, b} \subseteq DOMAIN storage)
    <3>1. candidates' = <<>>
      BY <2>2 DEF CollectIntersection
    <3>2. QED
      BY <3>1
  <2>3. QED
    BY <2>1, <2>2
<1>2. visited' = <<>> /\ UNCHANGED <<table, alive, storage, incarnation, issued>>
  BY DEF CollectIntersection
<1>3. QueryVisitsOwners'
  <2>1. (visited = <<>> => QueryVisitsOwners)'
    BY NothingVisited, PTL
  <2>2. QED
    BY <1>2, <2>1
<1>4. StoragesOK'
  BY <1>2 DEF WorldIInv, StoragesOK
<1>5. QED
  BY <1>1, <1>2, <1>3, <1>4 DEF WorldIInv

-----------------------------------------------------------------------------
\* The inductive invariant holds at the start and every step keeps it.
LEMMA WorldIInvInductive ==
  /\ Init => WorldIInv
  /\ WorldIInv /\ [Next]_vars => WorldIInv'
<1>1. ASSUME Init
      PROVE  WorldIInv
  <2>1. alive = <<>> /\ table = EmptyTable /\ visited = <<>> /\ candidates = <<>> /\ issued = {}
        /\ incarnation = [s \in Slots |-> 0] /\ DOMAIN storage = {}
    BY <1>1 DEF Init
  <2>2. table.generations = <<>> /\ table.free = <<>> /\ table.live = 0 /\ Len(<<>>) = 0
    BY <2>1 DEF EmptyTable
  <2>3. Marked(alive) = {} /\ alive \in Words
    BY <2>1 DEF Marked, Walk, Words
  <2>4. TableOK(table, {})
    <3>1. Cardinality({}) = 0
      BY FS_EmptySet
    <3>2. <<>> \in Seq(Ages) /\ <<>> \in Seq(Slots)
      OBVIOUS
    <3>3. QED
      BY <2>2, <3>1, <3>2, SlotFacts DEF TableOK
  <2>5. CountsOK(table.generations, incarnation)
    BY <2>1, <2>2, SlotFacts DEF CountsOK
  <2>6. IssuedOK(issued, Len(table.generations), incarnation)
    BY <2>1 DEF IssuedOK
  <2>7. StoragesOK
    BY <2>1 DEF StoragesOK
  <2>8. candidates \in Seq(Slots)
    BY <2>1
  <2>9. QueryVisitsOwners
    BY <2>1, NothingVisited
  <2>10. QED
    BY <2>3, <2>4, <2>5, <2>6, <2>7, <2>8, <2>9 DEF WorldIInv
<1>2. ASSUME WorldIInv, [Next]_vars
      PROVE  WorldIInv'
  <2>1. CASE Spawn
    BY <1>2, <2>1, SpawnStep
  <2>2. ASSUME NEW h \in IssuedHandles, Despawn(h)
        PROVE  WorldIInv'
    BY <1>2, <2>2, DespawnStep
  <2>3. ASSUME NEW c \in Components, NEW h \in IssuedHandles,
               Insert(c, h) \/ InsertFails(c, h) \/ Remove(c, h)
        PROVE  WorldIInv'
    BY <1>2, <2>3, InsertStep, InsertFailsStep, RemoveStep
  <2>4. ASSUME NEW c \in Components, RegisterComponent(c) \/ ForEachSingle(c)
        PROVE  WorldIInv'
    BY <1>2, <2>4, RegisterStep, ForEachStep
  <2>5. ASSUME NEW a \in Components, NEW b \in Components,
               CollectIntersection(a, b) \/ ForEachPair(a, b)
        PROVE  WorldIInv'
    BY <1>2, <2>5, CollectStep, ForEachStep
  <2>6. CASE ForEachEntity
    BY <1>2, <2>6, ForEachEntityStep
  <2>7. CASE UNCHANGED vars
    <3>1. UNCHANGED <<table, alive, storage, candidates, incarnation, issued, visited>>
      BY <2>7 DEF vars
    <3>2. StoragesOK' /\ QueryVisitsOwners'
      BY <1>2, <3>1 DEF WorldIInv, StoragesOK, QueryVisitsOwners
    <3>3. QED
      BY <1>2, <3>1, <3>2 DEF WorldIInv
  <2>8. QED
    BY <1>2, <2>1, <2>2, <2>3, <2>4, <2>5, <2>6, <2>7 DEF Next
<1>3. QED
  BY <1>1, <1>2

\* The entity table, the mask of living slots, the live counter and every
\* sparse set stay in step with each other through any sequence of spawns,
\* despawns, inserts, removes and failed inserts.
THEOREM WorldIsCoherent == Spec => []WorldInv
<1>1. WorldIInv => WorldInv
  BY WorldIInvImplies
<1>2. QED
  BY <1>1, WorldIInvInductive, PTL DEF Spec

\* A recycled slot never shows the components of its previous owner, and a
\* handle of an earlier allocation is dead unless the generation counter has
\* turned a whole number of times since.
THEOREM RecyclingIsSound == Spec => []RecyclingIsSafe
<1>1. WorldIInv => RecyclingIsSafe
  BY WorldIInvImplies
<1>2. QED
  BY <1>1, WorldIInvInductive, PTL DEF Spec

\* A query on candidates collected at any earlier time visits living entities
\* only and hands each its own components.
THEOREM QueriesAreSound == Spec => []QueryVisitsOwners
<1>1. WorldIInv => QueryVisitsOwners
  BY DEF WorldIInv
<1>2. QED
  BY <1>1, WorldIInvInductive, PTL DEF Spec
=============================================================================
