----------------------------- MODULE RingProofs -----------------------------
(***************************************************************************)
(* Both message rings for every capacity, every index width, every number  *)
(* of threads and every number of messages: the slots are safe to touch,   *)
(* and each ring implements the bounded FIFO.                              *)
(***************************************************************************)
EXTENDS MessageRings, NatSets, TLAPS

\* A ring of cap slots holds the messages lo + 1 .. hi, each in the slot of its
\* index, and nothing else.
Holding(b, cap, lo, hi) ==
  /\ \A k \in lo .. hi - 1 : b[k % cap] = k + 1
  /\ \A k \in hi .. lo + cap - 1 : b[k % cap] = Uninit

\* The outbox.  A thread between its slot access and its index update has
\* already put or taken its message.
AfterAccess(t, o) == pc[t] = "advance" /\ op[t] = o
Putting == IF \E t \in Threads : AfterAccess(t, "push") THEN 1 ELSE 0
Taking == IF \E t \in Threads : AfterAccess(t, "pop") THEN 1 ELSE 0

\* A thread that has passed the guard clauses has the words as they are, and
\* the ring has room for its message or has one for it.
Passed(t) ==
  pc[t] \in {"access", "advance"} =>
    /\ lh[t] = head /\ lt[t] = tail
    /\ op[t] \in {"push", "pop"}
    /\ op[t] = "push" => sent < received + Capacity
    /\ op[t] = "pop" => received < sent

OutboxIInv ==
  /\ TypeOK /\ Exclusive
  /\ received <= sent /\ sent <= received + Capacity
  /\ head = received % Modulus /\ tail = sent % Modulus
  /\ \A t \in Threads : Passed(t)
  /\ PopsInOrder
  /\ Holding(buf, Capacity, received + Taking, sent + Putting)

\* The inbox.  Each side goes by a count of the other's that may be old, and
\* has already put or taken its message before it stores its own index.
InPutting == IF in_ppc = "publish" THEN 1 ELSE 0
InTaking == IF in_cpc = "release" THEN 1 ELSE 0

ViewsInv ==
  /\ in_pview <= in_received /\ in_received <= in_cview /\ in_cview <= in_sent
  /\ in_sent <= in_pview + InboxCapacity
  /\ in_ppc \in {"write", "publish"} => in_sent < in_pview + InboxCapacity
  /\ in_cpc \in {"read", "release"} => in_received < in_cview

InboxIInv ==
  /\ Inbox!TypeOK
  /\ in_head = in_received % InboxModulus /\ in_tail = in_sent % InboxModulus
  /\ ViewsInv
  /\ (in_ppc = "dropped") <=> (in_cpc = "dropped")
  /\ Holding(in_buf, InboxCapacity, in_received + InTaking, in_sent + InPutting)
  /\ Inbox!PopsInOrder
  /\ Inbox!DropDestroysLive

-----------------------------------------------------------------------------
(* Slots and indices.                                                      *)

\* A message is put into the slot of its index.
LEMMA HoldingPut ==
  ASSUME NEW cap \in Nat, cap > 0, NEW b \in [0 .. cap - 1 -> Nat \cup {Uninit}],
         NEW lo \in Nat, NEW hi \in Nat, lo <= hi, hi < lo + cap, Holding(b, cap, lo, hi)
  PROVE  /\ b[hi % cap] = Uninit
         /\ [b EXCEPT ![hi % cap] = hi + 1] \in [0 .. cap - 1 -> Nat \cup {Uninit}]
         /\ Holding([b EXCEPT ![hi % cap] = hi + 1], cap, lo, hi + 1)
<1> DEFINE s == hi % cap
           c == [b EXCEPT ![s] = hi + 1]
<1>1. s \in 0 .. cap - 1 /\ \A k \in Nat : k % cap \in 0 .. cap - 1
  BY Division
<1>2. \A k \in lo .. lo + cap - 1 : k # hi => k % cap # s
  <2>1. SUFFICES ASSUME NEW k \in lo .. lo + cap - 1, k # hi PROVE k % cap # s
    OBVIOUS
  <2>2. CASE k < hi
    <3>1. k \in Nat /\ hi < k + cap
      BY <2>1
    <3>2. QED
      BY <2>2, <3>1, ModWindow
  <2>3. CASE hi < k
    BY <2>3, ModWindow
  <2>4. QED
    BY <2>1, <2>2, <2>3
<1>3. c \in [0 .. cap - 1 -> Nat \cup {Uninit}] /\ c[s] = hi + 1
      /\ \A j \in 0 .. cap - 1 : j # s => c[j] = b[j]
  BY <1>1
<1>4. b[s] = Uninit
  BY DEF Holding
<1> HIDE DEF s, c
<1>5. ASSUME NEW k \in lo .. hi PROVE c[k % cap] = k + 1
  <2>1. CASE k = hi
    BY <1>3, <2>1 DEF s
  <2>2. CASE k # hi
    <3>1. k \in Nat /\ k \in lo .. hi - 1 /\ k \in lo .. lo + cap - 1
      BY <2>2
    <3>2. b[k % cap] = k + 1
      BY <3>1 DEF Holding
    <3>3. QED
      BY <1>1, <1>2, <1>3, <2>2, <3>1, <3>2
  <2>3. QED
    BY <2>1, <2>2
<1>6. ASSUME NEW k \in hi + 1 .. lo + cap - 1 PROVE c[k % cap] = Uninit
  <2>1. k \in Nat /\ k # hi /\ k \in hi .. lo + cap - 1 /\ k \in lo .. lo + cap - 1
    OBVIOUS
  <2>2. b[k % cap] = Uninit
    BY <2>1 DEF Holding
  <2>3. QED
    BY <1>1, <1>2, <1>3, <2>1, <2>2
<1>7. Holding(c, cap, lo, hi + 1)
  BY <1>5, <1>6 DEF Holding
<1>8. QED
  BY <1>3, <1>4, <1>7 DEF c, s

\* The oldest message is taken out of its slot.
LEMMA HoldingTake ==
  ASSUME NEW cap \in Nat, cap > 0, NEW b \in [0 .. cap - 1 -> Nat \cup {Uninit}],
         NEW lo \in Nat, NEW hi \in Nat, lo < hi, hi <= lo + cap, Holding(b, cap, lo, hi)
  PROVE  /\ b[lo % cap] = lo + 1
         /\ [b EXCEPT ![lo % cap] = Uninit] \in [0 .. cap - 1 -> Nat \cup {Uninit}]
         /\ Holding([b EXCEPT ![lo % cap] = Uninit], cap, lo + 1, hi)
<1> DEFINE s == lo % cap
           c == [b EXCEPT ![s] = Uninit]
<1>1. s \in 0 .. cap - 1 /\ \A k \in Nat : k % cap \in 0 .. cap - 1
  BY Division
<1>2. \A k \in lo + 1 .. lo + cap - 1 : k % cap # s
  BY ModWindow, SMTT(30)
<1>3. c \in [0 .. cap - 1 -> Nat \cup {Uninit}] /\ c[s] = Uninit
      /\ \A j \in 0 .. cap - 1 : j # s => c[j] = b[j]
  BY <1>1
<1>4. b[s] = lo + 1
  BY DEF Holding
<1>5. (lo + cap) % cap = s
  <2>1. cap * 1 + lo = lo + cap
    OBVIOUS
  <2>2. (cap * 1 + lo) % cap = lo % cap
    BY ModMultiple
  <2>3. QED
    BY <2>1, <2>2
<1> HIDE DEF s, c
<1>6. ASSUME NEW k \in lo + 1 .. hi - 1 PROVE c[k % cap] = k + 1
  <2>1. k \in Nat /\ k \in lo .. hi - 1 /\ k \in lo + 1 .. lo + cap - 1
    OBVIOUS
  <2>2. b[k % cap] = k + 1
    BY <2>1 DEF Holding
  <2>3. QED
    BY <1>1, <1>2, <1>3, <2>1, <2>2
<1>7. ASSUME NEW k \in hi .. lo + 1 + cap - 1 PROVE c[k % cap] = Uninit
  <2>1. CASE k = lo + cap
    BY <1>3, <1>5, <2>1
  <2>2. CASE k # lo + cap
    <3>1. k \in Nat /\ k \in hi .. lo + cap - 1 /\ k \in lo + 1 .. lo + cap - 1
      BY <2>2
    <3>2. b[k % cap] = Uninit
      BY <3>1 DEF Holding
    <3>3. QED
      BY <1>1, <1>2, <1>3, <3>1, <3>2
  <2>3. QED
    BY <2>1, <2>2
<1>8. Holding(c, cap, lo + 1, hi)
  BY <1>6, <1>7 DEF Holding
<1>9. QED
  BY <1>3, <1>4, <1>8 DEF c, s

\* The index one further.
LEMMA NextWord ==
  ASSUME NEW m \in Nat, m > 0, NEW n \in Nat
  PROVE  ((n % m) + 1) % m = (n + 1) % m /\ (n + 1) % m \in 0 .. m - 1
<1>1. \A c \in Nat : ((n % m) + c) % m = (n + c) % m
  BY ModSum
<1>2. n + 1 \in Nat
  OBVIOUS
<1>3. (n + 1) % m \in 0 .. m - 1
  BY <1>2, Division
<1>4. QED
  BY <1>1, <1>3

\* The slot of a count, and of counts after it.
LEMMA SlotOfWord ==
  ASSUME NEW cap \in Nat, cap > 0, NEW m \in Nat, m > 0, m % cap = 0, NEW n \in Nat
  PROVE  /\ (n % m) % cap = n % cap
         /\ \A j \in Nat : ((n % m) + j) % cap = (n + j) % cap
<1>1. \A j \in Nat : ((n % m) + j) % cap = (n + j) % cap
  BY ModMod
<1>2. n % m \in Nat
  BY Division
<1>3. ((n % m) + 0) % cap = (n + 0) % cap
  BY <1>1, SMTT(30)
<1>4. (n % m) + 0 = n % m /\ n + 0 = n
  BY <1>2
<1>5. QED
  BY <1>1, <1>3, <1>4

-----------------------------------------------------------------------------
(* The outbox: a spinlock around plain words.                              *)

LEMMA OutboxConstants ==
  /\ Capacity \in Nat /\ Capacity > 0 /\ Modulus \in Nat /\ Modulus > 0
  /\ Modulus > Capacity /\ Modulus % Capacity = 0 /\ Uninit \notin Nat
  BY RingAssumption

LEMMA OutboxStarts == Init => OutboxIInv
<1>1. SUFFICES ASSUME Init PROVE OutboxIInv
  OBVIOUS
<1>2. TypeOK
  BY <1>1, OutboxConstants DEF Init, TypeOK, PCs, Ops
<1>3. Exclusive /\ PopsInOrder /\ \A t \in Threads : Passed(t)
  BY <1>1 DEF Init, Exclusive, InSection, PopsInOrder, Passed
<1>4. sent = 0 /\ received = 0 /\ head = 0 /\ tail = 0 /\ Taking = 0 /\ Putting = 0
  BY <1>1 DEF Init, Taking, Putting, AfterAccess
<1>5. 0 % Modulus = 0
  BY OutboxConstants
<1>6. Holding(buf, Capacity, 0, 0)
  <2>1. \A k \in 0 .. Capacity - 1 : k % Capacity \in 0 .. Capacity - 1
    BY OutboxConstants, Division
  <2>2. \A k \in 0 .. Capacity - 1 : buf[k % Capacity] = Uninit
    BY <1>1, <2>1 DEF Init, Slots
  <2>3. QED
    BY <2>2, OutboxConstants DEF Holding
<1>7. QED
  BY <1>2, <1>3, <1>4, <1>5, <1>6, OutboxConstants DEF OutboxIInv

\* Who is in the section is there alone.
LEMMA Alone ==
  ASSUME OutboxIInv, NEW t \in Threads, InSection(t)
  PROVE  lock = 1 /\ \A u \in Threads : u # t => ~InSection(u)
  BY DEF OutboxIInv, TypeOK, Exclusive

\* No thread has accessed a slot, or the one that has is t.
LEMMA AccessCounts ==
  ASSUME OutboxIInv, NEW t \in Threads, InSection(t)
  PROVE  /\ Putting = (IF AfterAccess(t, "push") THEN 1 ELSE 0)
         /\ Taking = (IF AfterAccess(t, "pop") THEN 1 ELSE 0)
<1>1. \A u \in Threads : u # t => pc[u] # "advance"
  BY Alone DEF InSection
<1>2. \A u \in Threads : \A o \in {"push", "pop"} : AfterAccess(u, o) => u = t
  BY <1>1 DEF AfterAccess
<1>3. QED
  BY <1>2 DEF Putting, Taking

\* A step of t that leaves the counters and the slots alone, and neither comes
\* from nor goes to the access of a slot.
LEMMA OutboxQuiet ==
  ASSUME OutboxIInv, NEW t \in Threads, NEW p \in PCs, p \notin {"access", "advance"},
         pc[t] # "advance", pc' = [pc EXCEPT ![t] = p],
         UNCHANGED <<buf, head, tail, lh, lt, got, sent, received>>,
         NEW o \in Ops, op' = [op EXCEPT ![t] = o],
         lock' \in {0, 1}, Exclusive'
  PROVE  OutboxIInv'
<1>1. TypeOK'
  BY DEF OutboxIInv, TypeOK
<1>2. pc \in [Threads -> PCs] /\ op \in [Threads -> Ops]
  BY DEF OutboxIInv, TypeOK
<1>3. /\ pc'[t] = p /\ \A u \in Threads : u # t => pc'[u] = pc[u] /\ op'[u] = op[u]
  BY <1>2
<1>4. \A u \in Threads : \A x \in {"push", "pop"} : AfterAccess(u, x)' <=> AfterAccess(u, x)
  BY <1>3 DEF AfterAccess
<1>5. Putting' = Putting /\ Taking' = Taking
  BY <1>4 DEF Putting, Taking
<1>6. ASSUME NEW u \in Threads PROVE Passed(u)'
  BY <1>3 DEF OutboxIInv, Passed
<1>7. PopsInOrder'
  BY <1>3 DEF OutboxIInv, PopsInOrder
<1>8. QED
  BY <1>1, <1>5, <1>6, <1>7 DEF OutboxIInv

LEMMA OutboxCall ==
  ASSUME OutboxIInv, NEW t \in Threads, NEW o \in Ops, Call(t, o)
  PROVE  OutboxIInv'
<1>1. /\ pc[t] = "idle" /\ pc' = [pc EXCEPT ![t] = "acquire"] /\ op' = [op EXCEPT ![t] = o]
      /\ UNCHANGED <<lock, buf, head, tail, lh, lt, got, sent, received>>
  BY DEF Call
<1>2. pc \in [Threads -> PCs] /\ lock \in {0, 1} /\ "acquire" \in PCs
  BY DEF OutboxIInv, TypeOK, PCs
<1>3. \A u \in Threads : InSection(u)' <=> InSection(u)
  BY <1>1, <1>2 DEF InSection
<1>4. Exclusive'
  BY <1>1, <1>3 DEF OutboxIInv, Exclusive
<1>5. QED
  BY <1>1, <1>2, <1>4, OutboxQuiet

LEMMA OutboxAcquire ==
  ASSUME OutboxIInv, NEW t \in Threads, Acquire(t)
  PROVE  OutboxIInv'
<1>1. /\ pc[t] = "acquire" /\ pc' = [pc EXCEPT ![t] = "load"] /\ lock = 0 /\ lock' = 1
      /\ UNCHANGED <<op, buf, head, tail, lh, lt, got, sent, received>>
  BY DEF Acquire
<1>2. /\ pc \in [Threads -> PCs] /\ op \in [Threads -> Ops] /\ op[t] \in Ops
      /\ op = [op EXCEPT ![t] = op[t]] /\ "load" \in PCs
  BY DEF OutboxIInv, TypeOK, PCs
<1>3. \A u \in Threads : InSection(u)' <=> u = t
  BY <1>1, <1>2 DEF InSection, OutboxIInv, Exclusive
<1>4. Exclusive'
  BY <1>1, <1>3 DEF Exclusive
<1>5. QED
  BY <1>1, <1>2, <1>4, OutboxQuiet

LEMMA OutboxRelease ==
  ASSUME OutboxIInv, NEW t \in Threads, Release(t)
  PROVE  OutboxIInv'
<1>1. /\ pc[t] = "release" /\ pc' = [pc EXCEPT ![t] = "idle"] /\ lock' = 0
      /\ UNCHANGED <<op, buf, head, tail, lh, lt, got, sent, received>>
  BY DEF Release
<1>2. /\ pc \in [Threads -> PCs] /\ op \in [Threads -> Ops] /\ op[t] \in Ops
      /\ op = [op EXCEPT ![t] = op[t]] /\ "idle" \in PCs
  BY DEF OutboxIInv, TypeOK, PCs
<1>3. InSection(t)
  BY <1>1 DEF InSection
<1>4. \A u \in Threads : u # t => ~InSection(u)
  BY <1>3, Alone
<1>5. \A u \in Threads : ~InSection(u)'
  BY <1>1, <1>2, <1>4 DEF InSection
<1>6. Exclusive'
  BY <1>1, <1>5 DEF Exclusive
<1>7. QED
  BY <1>1, <1>2, <1>6, OutboxQuiet

\* A thread that stays in the section keeps the others out.
LEMMA StaysInside ==
  ASSUME OutboxIInv, NEW t \in Threads, InSection(t), lock' = lock,
         NEW p \in {"load", "access", "advance", "release"}, pc' = [pc EXCEPT ![t] = p]
  PROVE  /\ Exclusive' /\ pc' \in [Threads -> PCs] /\ pc'[t] = p
         /\ \A u \in Threads : u # t => pc'[u] = pc[u]
                               /\ pc'[u] \notin {"load", "access", "advance", "release"}
<1>1. pc \in [Threads -> PCs]
  BY DEF OutboxIInv, TypeOK
<1>2. /\ pc' \in [Threads -> PCs] /\ pc'[t] = p
      /\ \A u \in Threads : u # t => pc'[u] = pc[u]
  BY <1>1 DEF PCs
<1>3. \A u \in Threads : InSection(u)' <=> InSection(u)
  BY <1>2 DEF InSection
<1>4. Exclusive'
  BY <1>3 DEF OutboxIInv, Exclusive
<1>5. \A u \in Threads : u # t => ~InSection(u)
  BY Alone
<1>6. QED
  BY <1>2, <1>4, <1>5 DEF InSection

LEMMA OutboxLoad ==
  ASSUME OutboxIInv, NEW t \in Threads, Load(t)
  PROVE  OutboxIInv'
<1> DEFINE empty == head = tail
           leaves == (op[t] = "push" /\ Full) \/ (op[t] = "pop" /\ empty) \/ op[t] = "is_empty"
           p == IF leaves THEN "release" ELSE "access"
<1>1. /\ pc[t] = "load" /\ pc' = [pc EXCEPT ![t] = p]
      /\ lh' = [lh EXCEPT ![t] = head] /\ lt' = [lt EXCEPT ![t] = tail]
      /\ UNCHANGED <<lock, buf, head, tail, op, got, sent, received>>
  BY DEF Load
<1>2. InSection(t) /\ p \in {"load", "access", "advance", "release"}
  BY <1>1 DEF InSection
<1>3. /\ Exclusive' /\ pc' \in [Threads -> PCs] /\ pc'[t] = p
      /\ \A u \in Threads : u # t => pc'[u] = pc[u]
                            /\ pc'[u] \notin {"load", "access", "advance", "release"}
  BY <1>1, <1>2, StaysInside
<1>4. TypeOK
  BY DEF OutboxIInv
<1>5. TypeOK'
  BY <1>1, <1>3, <1>4 DEF TypeOK
<1>6. lh'[t] = head /\ lt'[t] = tail /\ op[t] \in Ops
  BY <1>1, <1>4 DEF TypeOK
<1>7. /\ sent \in Nat /\ received \in Nat /\ received <= sent /\ sent <= received + Capacity
      /\ head = received % Modulus /\ tail = sent % Modulus
  BY DEF OutboxIInv, TypeOK
<1>8. (tail + Modulus - head) % Modulus = sent - received
  <2>1. sent < received + Modulus
    BY <1>7, OutboxConstants
  <2>2. ((sent % Modulus) + Modulus - (received % Modulus)) % Modulus = sent - received
    BY <1>7, <2>1, OutboxConstants, ModDistance
  <2>3. QED
    BY <1>7, <2>2
<1>9. ~Full => sent < received + Capacity
  BY <1>7, <1>8, OutboxConstants DEF Full, WrappingSub
<1>10. ~empty => received < sent
  BY <1>7
<1> HIDE DEF empty
<1>11. Passed(t)'
  <2>1. CASE leaves
    BY <1>3, <2>1 DEF Passed
  <2>2. CASE ~leaves
    <3>1. op[t] \in {"push", "pop"}
      BY <1>6, <2>2 DEF Ops
    <3>2. /\ op[t] = "push" => sent < received + Capacity
          /\ op[t] = "pop" => received < sent
      BY <1>9, <1>10, <2>2
    <3>3. QED
      BY <1>1, <1>6, <3>1, <3>2 DEF Passed
  <2>3. QED
    BY <2>1, <2>2
<1> HIDE DEF p
<1>12. \A u \in Threads : Passed(u)'
  BY <1>3, <1>11 DEF Passed
<1>13. \A u \in Threads : pc[u] # "advance" /\ pc'[u] # "advance"
  BY <1>1, <1>3 DEF p
<1>14. Putting = 0 /\ Taking = 0 /\ Putting' = 0 /\ Taking' = 0
  BY <1>13 DEF Putting, Taking, AfterAccess
<1>15. PopsInOrder'
  BY <1>13 DEF PopsInOrder
<1>16. QED
  BY <1>1, <1>3, <1>5, <1>7, <1>12, <1>14, <1>15 DEF OutboxIInv

\* What a thread knows when it is about to touch a slot or has just done so.
LEMMA AtSlot ==
  ASSUME OutboxIInv, NEW t \in Threads, pc[t] \in {"access", "advance"}
  PROVE  /\ InSection(t) /\ op[t] \in {"push", "pop"}
         /\ sent \in Nat /\ received \in Nat /\ received <= sent /\ sent <= received + Capacity
         /\ lh[t] = received % Modulus /\ lt[t] = sent % Modulus
         /\ Slot(lh[t]) = received % Capacity /\ Slot(lt[t]) = sent % Capacity
         /\ op[t] = "push" => sent < received + Capacity
         /\ op[t] = "pop" => received < sent
         /\ buf \in [0 .. Capacity - 1 -> Nat \cup {Uninit}]
         /\ pc[t] = "access" => Holding(buf, Capacity, received, sent)
         /\ (pc[t] = "advance" /\ op[t] = "push") => Holding(buf, Capacity, received, sent + 1)
         /\ (pc[t] = "advance" /\ op[t] = "pop") => Holding(buf, Capacity, received + 1, sent)
<1>1. InSection(t)
  BY DEF InSection
<1>2. /\ op[t] \in {"push", "pop"}
      /\ sent \in Nat /\ received \in Nat /\ received <= sent /\ sent <= received + Capacity
      /\ lh[t] = received % Modulus /\ lt[t] = sent % Modulus
      /\ op[t] = "push" => sent < received + Capacity
      /\ op[t] = "pop" => received < sent
      /\ buf \in [0 .. Capacity - 1 -> Nat \cup {Uninit}]
  BY DEF OutboxIInv, TypeOK, Passed, Slots
<1>3. (received % Modulus) % Capacity = received % Capacity
  BY <1>2, OutboxConstants, SlotOfWord, ZenonT(30)
<1>4. (sent % Modulus) % Capacity = sent % Capacity
  BY <1>2, OutboxConstants, SlotOfWord, ZenonT(30)
<1>5. Slot(lh[t]) = received % Capacity /\ Slot(lt[t]) = sent % Capacity
  BY <1>2, <1>3, <1>4 DEF Slot
<1>6. Holding(buf, Capacity, received + Taking, sent + Putting)
  BY DEF OutboxIInv
<1>7. /\ Putting = (IF AfterAccess(t, "push") THEN 1 ELSE 0)
      /\ Taking = (IF AfterAccess(t, "pop") THEN 1 ELSE 0)
  BY <1>1, AccessCounts
<1>8. received + 0 = received /\ sent + 0 = sent
  BY <1>2
<1>9. pc[t] = "access" => Holding(buf, Capacity, received, sent)
  BY <1>6, <1>7, <1>8 DEF AfterAccess
<1>10. (pc[t] = "advance" /\ op[t] = "push") => Holding(buf, Capacity, received, sent + 1)
  BY <1>6, <1>7, <1>8 DEF AfterAccess
<1>11. (pc[t] = "advance" /\ op[t] = "pop") => Holding(buf, Capacity, received + 1, sent)
  BY <1>6, <1>7, <1>8 DEF AfterAccess
<1>12. QED
  BY <1>1, <1>2, <1>5, <1>9, <1>10, <1>11

LEMMA OutboxAccessPush ==
  ASSUME OutboxIInv, NEW t \in Threads, AccessPush(t)
  PROVE  OutboxIInv'
<1> DEFINE b == [buf EXCEPT ![sent % Capacity] = sent + 1]
<1>1. /\ pc[t] = "access" /\ op[t] = "push" /\ pc' = [pc EXCEPT ![t] = "advance"]
      /\ buf' = [buf EXCEPT ![Slot(lt[t])] = sent + 1]
      /\ UNCHANGED <<lock, head, tail, op, lh, lt, got, sent, received>>
  BY DEF AccessPush
<1>2. /\ InSection(t) /\ sent \in Nat /\ received \in Nat /\ received <= sent
      /\ Slot(lt[t]) = sent % Capacity /\ sent < received + Capacity
      /\ buf \in [0 .. Capacity - 1 -> Nat \cup {Uninit}]
      /\ Holding(buf, Capacity, received, sent)
  BY <1>1, AtSlot
<1>3. /\ Exclusive' /\ pc' \in [Threads -> PCs] /\ pc'[t] = "advance"
      /\ \A u \in Threads : u # t => pc'[u] = pc[u]
                            /\ pc'[u] \notin {"load", "access", "advance", "release"}
  BY <1>1, <1>2, StaysInside
<1>4. /\ b \in [0 .. Capacity - 1 -> Nat \cup {Uninit}]
      /\ Holding(b, Capacity, received, sent + 1)
  BY <1>2, OutboxConstants, HoldingPut
<1>5. buf' = b
  BY <1>1, <1>2
<1> HIDE DEF b
<1>6. TypeOK
  BY DEF OutboxIInv
<1>7. TypeOK'
  BY <1>1, <1>3, <1>4, <1>5, <1>6 DEF TypeOK, Slots
<1>8. \A u \in Threads : Passed(u)'
  BY <1>1, <1>3 DEF OutboxIInv, Passed
<1>9. PopsInOrder'
  BY <1>1, <1>3 DEF PopsInOrder
<1>10. Putting' = 1 /\ Taking' = 0
  BY <1>1, <1>3 DEF Putting, Taking, AfterAccess
<1>11. Holding(buf, Capacity, received + Taking, sent + Putting)'
  <2>1. received' + Taking' = received /\ sent' + Putting' = sent + 1
    BY <1>1, <1>2, <1>10
  <2>2. QED
    BY <1>4, <1>5, <2>1
<1>12. QED
  BY <1>1, <1>3, <1>7, <1>8, <1>9, <1>11 DEF OutboxIInv

LEMMA OutboxAccessPop ==
  ASSUME OutboxIInv, NEW t \in Threads, AccessPop(t)
  PROVE  OutboxIInv'
<1> DEFINE b == [buf EXCEPT ![received % Capacity] = Uninit]
<1>1. /\ pc[t] = "access" /\ op[t] = "pop" /\ pc' = [pc EXCEPT ![t] = "advance"]
      /\ buf' = [buf EXCEPT ![Slot(lh[t])] = Uninit]
      /\ got' = [got EXCEPT ![t] = buf[Slot(lh[t])]]
      /\ UNCHANGED <<lock, head, tail, op, lh, lt, sent, received>>
  BY DEF AccessPop
<1>2. /\ InSection(t) /\ sent \in Nat /\ received \in Nat /\ received < sent
      /\ Slot(lh[t]) = received % Capacity /\ sent <= received + Capacity
      /\ buf \in [0 .. Capacity - 1 -> Nat \cup {Uninit}]
      /\ Holding(buf, Capacity, received, sent)
  BY <1>1, AtSlot
<1>3. /\ Exclusive' /\ pc' \in [Threads -> PCs] /\ pc'[t] = "advance"
      /\ \A u \in Threads : u # t => pc'[u] = pc[u]
                            /\ pc'[u] \notin {"load", "access", "advance", "release"}
  BY <1>1, <1>2, StaysInside
<1>4. /\ b \in [0 .. Capacity - 1 -> Nat \cup {Uninit}]
      /\ Holding(b, Capacity, received + 1, sent)
      /\ buf[received % Capacity] = received + 1
  <2>1. Capacity \in Nat /\ Capacity > 0
    BY OutboxConstants
  <2>2. QED
    BY <1>2, <2>1, HoldingTake, ZenonT(30)
<1>5. buf' = b /\ got' = [got EXCEPT ![t] = received + 1]
  BY <1>1, <1>2, <1>4
<1> HIDE DEF b
<1>6. TypeOK
  BY DEF OutboxIInv
<1>7. got' \in [Threads -> Nat \cup {Uninit}] /\ got'[t] = received + 1
  BY <1>2, <1>5, <1>6 DEF TypeOK
<1>8. TypeOK'
  BY <1>1, <1>3, <1>4, <1>5, <1>6, <1>7 DEF TypeOK, Slots
<1>9. \A u \in Threads : Passed(u)'
  BY <1>1, <1>3 DEF OutboxIInv, Passed
<1>10. PopsInOrder'
  BY <1>1, <1>3, <1>7 DEF PopsInOrder
<1>11. Putting' = 0 /\ Taking' = 1
  BY <1>1, <1>3 DEF Putting, Taking, AfterAccess
<1>12. Holding(buf, Capacity, received + Taking, sent + Putting)'
  <2>1. received' + Taking' = received + 1 /\ sent' + Putting' = sent
    BY <1>1, <1>2, <1>11
  <2>2. QED
    BY <1>4, <1>5, <2>1
<1>13. QED
  BY <1>1, <1>3, <1>8, <1>9, <1>10, <1>12 DEF OutboxIInv

LEMMA OutboxAdvance ==
  ASSUME OutboxIInv, NEW t \in Threads, Advance(t)
  PROVE  OutboxIInv'
<1>1. /\ pc[t] = "advance" /\ pc' = [pc EXCEPT ![t] = "release"]
      /\ UNCHANGED <<lock, buf, op, lh, lt, got>>
  BY DEF Advance
<1>2. /\ InSection(t) /\ op[t] \in {"push", "pop"}
      /\ sent \in Nat /\ received \in Nat /\ received <= sent /\ sent <= received + Capacity
      /\ lh[t] = received % Modulus /\ lt[t] = sent % Modulus
      /\ op[t] = "push" => sent < received + Capacity
      /\ op[t] = "pop" => received < sent
      /\ op[t] = "push" => Holding(buf, Capacity, received, sent + 1)
      /\ op[t] = "pop" => Holding(buf, Capacity, received + 1, sent)
  BY <1>1, AtSlot
<1>3. /\ Exclusive' /\ pc' \in [Threads -> PCs] /\ pc'[t] = "release"
      /\ \A u \in Threads : u # t => pc'[u] = pc[u]
                            /\ pc'[u] \notin {"load", "access", "advance", "release"}
  BY <1>1, <1>2, StaysInside
<1>4. TypeOK /\ head = received % Modulus /\ tail = sent % Modulus
  BY DEF OutboxIInv
<1>5. /\ Word((sent % Modulus) + 1) = (sent + 1) % Modulus /\ (sent + 1) % Modulus \in 0 .. Modulus - 1
      /\ Word((received % Modulus) + 1) = (received + 1) % Modulus
      /\ (received + 1) % Modulus \in 0 .. Modulus - 1
  BY <1>2, OutboxConstants, NextWord DEF Word
<1>6. /\ sent' \in Nat /\ received' \in Nat /\ received' <= sent' /\ sent' <= received' + Capacity
      /\ head' = received' % Modulus /\ tail' = sent' % Modulus
      /\ head' \in 0 .. Modulus - 1 /\ tail' \in 0 .. Modulus - 1
      /\ Holding(buf, Capacity, received', sent')
  <2>1. CASE op[t] = "push"
    <3>1. tail' = Word(lt[t] + 1) /\ sent' = sent + 1 /\ head' = head /\ received' = received
      BY <2>1 DEF Advance
    <3>2. tail' = (sent + 1) % Modulus
      BY <1>2, <1>5, <3>1
    <3>3. head \in 0 .. Modulus - 1
      BY <1>4 DEF TypeOK
    <3>4. QED
      BY <1>2, <1>4, <1>5, <2>1, <3>1, <3>2, <3>3, OutboxConstants
  <2>2. CASE op[t] = "pop"
    <3>1. head' = Word(lh[t] + 1) /\ received' = received + 1 /\ tail' = tail /\ sent' = sent
      BY <2>2 DEF Advance
    <3>2. head' = (received + 1) % Modulus
      BY <1>2, <1>5, <3>1
    <3>3. tail \in 0 .. Modulus - 1
      BY <1>4 DEF TypeOK
    <3>4. QED
      BY <1>2, <1>4, <1>5, <2>2, <3>1, <3>2, <3>3, OutboxConstants
  <2>3. QED
    BY <1>2, <2>1, <2>2
<1>7. TypeOK'
  BY <1>1, <1>3, <1>4, <1>6 DEF TypeOK
<1>8. \A u \in Threads : Passed(u)'
  BY <1>3 DEF Passed
<1>9. PopsInOrder'
  BY <1>3 DEF PopsInOrder
<1>10. Putting' = 0 /\ Taking' = 0
  BY <1>3 DEF Putting, Taking, AfterAccess
<1>11. Holding(buf, Capacity, received + Taking, sent + Putting)'
  <2>0. received' \in Nat /\ sent' \in Nat
    BY <1>6
  <2>1. \A n \in Nat : n + 0 = n
    OBVIOUS
  <2>2. QED
    BY <1>1, <1>6, <1>10, <2>0, <2>1
<1>12. QED
  BY <1>3, <1>6, <1>7, <1>8, <1>9, <1>11 DEF OutboxIInv

\* The outbox keeps its invariant.
LEMMA OutboxInductive == OutboxIInv /\ [Next]_vars => OutboxIInv'
<1>1. SUFFICES ASSUME OutboxIInv, [Next]_vars PROVE OutboxIInv'
  OBVIOUS
<1>2. CASE UNCHANGED vars
  <2>1. UNCHANGED <<lock, buf, head, tail, pc, op, lh, lt, got, sent, received>>
    BY <1>2 DEF vars
  <2>2. Putting' = Putting /\ Taking' = Taking
    BY <2>1 DEF Putting, Taking, AfterAccess
  <2>3. TypeOK' /\ Exclusive' /\ PopsInOrder' /\ \A t \in Threads : Passed(t)'
    BY <1>1, <2>1 DEF OutboxIInv, TypeOK, Exclusive, InSection, PopsInOrder, Passed
  <2>4. QED
    BY <1>1, <2>1, <2>2, <2>3 DEF OutboxIInv
<1>3. QED
  BY <1>1, <1>2, OutboxCall, OutboxAcquire, OutboxLoad, OutboxAccessPush, OutboxAccessPop,
     OutboxAdvance, OutboxRelease DEF Next, Step

LEMMA OutboxInvFollows == OutboxIInv => RingInv
<1>1. SUFFICES ASSUME OutboxIInv PROVE RingInv
  OBVIOUS
<1>2. ASSUME NEW t \in Threads, pc[t] = "access", op[t] = "push"
      PROVE  buf[Slot(lt[t])] = Uninit
  <2>1. /\ sent \in Nat /\ received \in Nat /\ received <= sent
        /\ Slot(lt[t]) = sent % Capacity /\ sent < received + Capacity
        /\ buf \in [0 .. Capacity - 1 -> Nat \cup {Uninit}]
        /\ Holding(buf, Capacity, received, sent)
    BY <1>1, <1>2, AtSlot
  <2>2. buf[sent % Capacity] = Uninit
    BY <2>1, OutboxConstants, HoldingPut, ZenonT(30)
  <2>3. QED
    BY <2>1, <2>2
<1>3. QED
  BY <1>1, <1>2 DEF OutboxIInv, RingInv, NoOverwrite

\* A list of consecutive numbers: one more, and one less.
LEMMA Consecutive ==
  ASSUME NEW lo \in Nat, NEW hi \in Nat, lo <= hi
  PROVE  /\ Len([i \in 1 .. hi - lo |-> lo + i]) = hi - lo
         /\ [i \in 1 .. (hi + 1) - lo |-> lo + i] = Append([i \in 1 .. hi - lo |-> lo + i], hi + 1)
         /\ lo < hi => /\ [i \in 1 .. hi - lo |-> lo + i] # <<>>
                       /\ [i \in 1 .. hi - (lo + 1) |-> (lo + 1) + i]
                            = Tail([i \in 1 .. hi - lo |-> lo + i])
<1> DEFINE n == hi - lo
           c == [i \in 1 .. n |-> lo + i]
<1>1. n \in Nat /\ hi + 1 - lo = n + 1 /\ lo + n + 1 = hi + 1
  OBVIOUS
<1>2. c \in Seq(Nat) /\ Len(c) = n /\ \A i \in 1 .. n : c[i] = lo + i
  BY <1>1
<1>3. [i \in 1 .. n + 1 |-> lo + i] = Append(c, hi + 1)
  BY <1>1
<1>4. ASSUME lo < hi
      PROVE  /\ c # <<>>
             /\ [i \in 1 .. hi - (lo + 1) |-> (lo + 1) + i] = Tail(c)
  <2>1. c # <<>> /\ n > 0 /\ hi - (lo + 1) = n - 1
    BY <1>2, <1>4
  <2>2. [i \in 1 .. n - 1 |-> (lo + 1) + i] = Tail(c)
    BY <1>1, <1>2, <2>1, SMTT(30)
  <2>3. QED
    BY <2>1, <2>2
<1>5. QED
  BY <1>1, <1>2, <1>3, <1>4

\* What pushing and popping do to the contents.
LEMMA OutboxRefines ==
  ASSUME OutboxIInv, [Next]_vars
  PROVE  [Fifo!FifoNext]_<<Contents, sent>>
<1>1. sent \in Nat /\ received \in Nat /\ received <= sent
  BY DEF OutboxIInv, TypeOK
<1>2. CASE UNCHANGED <<sent, received>>
  BY <1>2 DEF Contents
<1>3. ASSUME NEW t \in Threads, Advance(t), op[t] = "push"
      PROVE  Fifo!Put
  <2>1. pc[t] = "advance" /\ sent' = sent + 1 /\ received' = received
    BY <1>3 DEF Advance
  <2>2. sent < received + Capacity
    BY <1>3, <2>1, AtSlot
  <2>3. Len(Contents) = sent - received /\ Contents' = Append(Contents, sent + 1)
    BY <1>1, <2>1, Consecutive DEF Contents
  <2>4. Len(Contents) < Capacity
    BY <1>1, <2>2, <2>3, OutboxConstants
  <2>5. QED
    BY <2>1, <2>3, <2>4 DEF Fifo!Put
<1>4. ASSUME NEW t \in Threads, Advance(t), op[t] # "push"
      PROVE  Fifo!Take
  <2>1. pc[t] = "advance" /\ sent' = sent /\ received' = received + 1
    BY <1>4 DEF Advance
  <2>2. received < sent
    BY <1>4, <2>1, AtSlot
  <2>3. Contents # <<>> /\ Contents' = Tail(Contents)
    BY <1>1, <2>1, <2>2, Consecutive DEF Contents
  <2>4. QED
    BY <2>1, <2>3 DEF Fifo!Take
<1>5. ASSUME NEW t \in Threads, Advance(t) PROVE Fifo!FifoNext
  BY <1>3, <1>4, <1>5 DEF Fifo!FifoNext
<1>6. ASSUME NEW t \in Threads, NEW o \in Ops,
             Call(t, o) \/ Acquire(t) \/ Load(t) \/ AccessPush(t) \/ AccessPop(t) \/ Release(t)
      PROVE  UNCHANGED <<sent, received>>
  BY <1>6 DEF Call, Acquire, Load, AccessPush, AccessPop, Release
<1>7. CASE UNCHANGED vars
  BY <1>2, <1>7 DEF vars
<1>8. "pop" \in Ops
  BY DEF Ops
<1>9. QED
  BY <1>2, <1>5, <1>6, <1>7, <1>8 DEF Next, Step

-----------------------------------------------------------------------------
(* The inbox: no lock, and each side's view of the other may be old.       *)

LEMMA InboxConstants ==
  /\ InboxCapacity \in Nat /\ InboxCapacity > 0 /\ InboxModulus \in Nat /\ InboxModulus > 0
  /\ InboxModulus > InboxCapacity /\ InboxModulus % InboxCapacity = 0
  BY InboxAssumption

LEMMA InboxStarts == Inbox!Init => InboxIInv
<1>1. SUFFICES ASSUME Inbox!Init PROVE InboxIInv
  OBVIOUS
<1>2. /\ in_buf = [s \in 0 .. InboxCapacity - 1 |-> Uninit]
      /\ in_head = 0 /\ in_tail = 0 /\ in_ppc = "idle" /\ in_cpc = "idle"
      /\ in_pview = 0 /\ in_cview = 0 /\ in_sent = 0 /\ in_received = 0 /\ in_got = Uninit
  BY <1>1 DEF Inbox!Init, Inbox!Slots
<1>3. Inbox!TypeOK
  BY <1>2, InboxConstants DEF Inbox!TypeOK, Inbox!Slots
<1>4. ViewsInv /\ InTaking = 0 /\ InPutting = 0
  BY <1>2, InboxConstants DEF ViewsInv, InTaking, InPutting
<1>5. 0 % InboxModulus = 0
  BY InboxConstants
<1>6. Holding(in_buf, InboxCapacity, 0, 0)
  <2>1. \A k \in 0 .. InboxCapacity - 1 : k % InboxCapacity \in 0 .. InboxCapacity - 1
    BY InboxConstants, Division
  <2>2. \A k \in 0 .. InboxCapacity - 1 : in_buf[k % InboxCapacity] = Uninit
    BY <1>2, <2>1
  <2>3. QED
    BY <2>2, InboxConstants DEF Holding
<1>7. Inbox!PopsInOrder /\ Inbox!DropDestroysLive
  BY <1>2 DEF Inbox!PopsInOrder, Inbox!DropDestroysLive
<1>8. QED
  BY <1>2, <1>3, <1>4, <1>5, <1>6, <1>7, InboxConstants DEF InboxIInv

\* What both sides may rely on.
LEMMA InboxFacts ==
  ASSUME InboxIInv
  PROVE  /\ in_sent \in Nat /\ in_received \in Nat /\ in_pview \in Nat /\ in_cview \in Nat
         /\ in_received <= in_sent /\ in_sent <= in_received + InboxCapacity
         /\ in_sent < in_pview + InboxModulus
         /\ in_buf \in [0 .. InboxCapacity - 1 -> Nat \cup {Uninit}]
         /\ in_head % InboxCapacity = in_received % InboxCapacity
         /\ in_tail % InboxCapacity = in_sent % InboxCapacity
         /\ InPutting \in {0, 1} /\ InTaking \in {0, 1}
<1>1. /\ in_sent \in Nat /\ in_received \in Nat /\ in_pview \in Nat /\ in_cview \in Nat
      /\ in_buf \in [0 .. InboxCapacity - 1 -> Nat \cup {Uninit}]
  BY DEF InboxIInv, Inbox!TypeOK, Inbox!Slots
<1>2. /\ in_received <= in_sent /\ in_sent <= in_received + InboxCapacity
      /\ in_sent < in_pview + InboxModulus
  BY <1>1, InboxConstants DEF InboxIInv, ViewsInv
<1>3. (in_received % InboxModulus) % InboxCapacity = in_received % InboxCapacity
  BY <1>1, InboxConstants, SlotOfWord, ZenonT(30)
<1>4. (in_sent % InboxModulus) % InboxCapacity = in_sent % InboxCapacity
  BY <1>1, InboxConstants, SlotOfWord, ZenonT(30)
<1>5. QED
  BY <1>1, <1>2, <1>3, <1>4 DEF InboxIInv, InPutting, InTaking

\* A side that only looks at the other's index.
LEMMA InboxLook ==
  ASSUME InboxIInv, UNCHANGED <<in_buf, in_head, in_tail, in_sent, in_received, in_got>>,
         in_ppc' \in {"idle", "write", "publish", "dropped"},
         in_cpc' \in {"idle", "read", "release", "dropped"},
         in_ppc = "publish" <=> in_ppc' = "publish", in_cpc = "release" <=> in_cpc' = "release",
         in_ppc' # "dropped", in_cpc' # "dropped",
         in_pview' \in Nat, in_cview' \in Nat, ViewsInv'
  PROVE  InboxIInv'
<1>1. Inbox!TypeOK'
  BY DEF InboxIInv, Inbox!TypeOK
<1>2. InPutting' = InPutting /\ InTaking' = InTaking
  BY DEF InPutting, InTaking
<1>3. Inbox!PopsInOrder' /\ Inbox!DropDestroysLive'
  BY DEF InboxIInv, Inbox!PopsInOrder, Inbox!DropDestroysLive
<1>4. QED
  BY <1>1, <1>2, <1>3 DEF InboxIInv

\* What the producer computes from an old count of the consumer is the true
\* distance to it.
LEMMA ProducerDistance ==
  ASSUME InboxIInv, NEW v \in in_pview .. in_received
  PROVE  /\ v \in Nat
         /\ Inbox!WrappingSub(in_tail, Inbox!Word(v)) = in_sent - v
<1>1. v \in Nat /\ v <= in_sent /\ in_sent < v + InboxModulus /\ in_sent \in Nat
  BY InboxFacts, InboxConstants
<1>2. ((in_sent % InboxModulus) + InboxModulus - (v % InboxModulus)) % InboxModulus = in_sent - v
  BY <1>1, InboxConstants, ModDistance
<1>3. QED
  BY <1>1, <1>2 DEF InboxIInv, Inbox!WrappingSub, Inbox!Word

LEMMA InboxPushLooks ==
  ASSUME InboxIInv, Inbox!PushFull \/ Inbox!PushBegin
  PROVE  InboxIInv'
<1>1. PICK v \in in_pview .. in_received :
        /\ in_pview' = v /\ in_ppc = "idle"
        /\ \/ in_ppc' = "idle"
           \/ in_ppc' = "write" /\ Inbox!WrappingSub(in_tail, Inbox!Word(v)) < InboxCapacity
  BY DEF Inbox!PushFull, Inbox!PushBegin
<1>2. UNCHANGED <<in_buf, in_head, in_tail, in_cpc, in_cview, in_sent, in_received, in_got>>
  BY DEF Inbox!PushFull, Inbox!PushBegin
<1>3. v \in Nat /\ Inbox!WrappingSub(in_tail, Inbox!Word(v)) = in_sent - v
  BY ProducerDistance
<1>4. in_ppc' = "idle" \/ (in_ppc' = "write" /\ in_sent < v + InboxCapacity)
  BY <1>1, <1>3, InboxFacts, InboxConstants
<1>5. ViewsInv'
  <2>1. /\ in_received <= in_cview /\ in_cview <= in_sent
        /\ in_cpc \in {"read", "release"} => in_received < in_cview
        /\ in_pview <= in_received /\ in_sent <= in_pview + InboxCapacity
    BY DEF InboxIInv, ViewsInv
  <2>2. v <= in_received /\ in_sent <= v + InboxCapacity
    BY <1>3, <2>1, InboxFacts, InboxConstants
  <2>3. QED
    BY <1>1, <1>2, <1>4, <2>1, <2>2 DEF ViewsInv
<1>6. /\ in_cpc \in {"idle", "read", "release"} /\ in_cview \in Nat
  BY <1>1 DEF InboxIInv, Inbox!TypeOK
<1>7. QED
  BY <1>1, <1>2, <1>3, <1>5, <1>6, InboxLook

LEMMA InboxPopLooks ==
  ASSUME InboxIInv, Inbox!PopEmpty \/ Inbox!PopBegin
  PROVE  InboxIInv'
<1>1. PICK v \in in_cview .. in_sent :
        /\ in_cview' = v /\ in_cpc = "idle"
        /\ \/ in_cpc' = "idle"
           \/ in_cpc' = "read" /\ in_head # Inbox!Word(v)
  BY DEF Inbox!PopEmpty, Inbox!PopBegin
<1>2. UNCHANGED <<in_buf, in_head, in_tail, in_ppc, in_pview, in_sent, in_received, in_got>>
  BY DEF Inbox!PopEmpty, Inbox!PopBegin
<1>3. v \in Nat /\ in_received <= v /\ v <= in_sent
  BY InboxFacts DEF InboxIInv, ViewsInv
<1>4. in_cpc' = "read" => in_received < v
  BY <1>1, <1>3, InboxFacts DEF InboxIInv, Inbox!Word
<1>5. ViewsInv'
  <2>1. /\ in_pview <= in_received /\ in_sent <= in_pview + InboxCapacity
        /\ in_ppc \in {"write", "publish"} => in_sent < in_pview + InboxCapacity
    BY DEF InboxIInv, ViewsInv
  <2>2. QED
    BY <1>1, <1>2, <1>3, <1>4, <2>1 DEF ViewsInv
<1>6. /\ in_ppc \in {"idle", "write", "publish"} /\ in_pview \in Nat
  BY <1>1 DEF InboxIInv, Inbox!TypeOK
<1>7. QED
  BY <1>1, <1>2, <1>3, <1>5, <1>6, InboxLook

LEMMA InboxPushWrite ==
  ASSUME InboxIInv, Inbox!PushWrite
  PROVE  InboxIInv'
<1> DEFINE lo == in_received + InTaking
           b == [in_buf EXCEPT ![in_sent % InboxCapacity] = in_sent + 1]
<1>1. /\ in_ppc = "write" /\ in_ppc' = "publish"
      /\ in_buf' = [in_buf EXCEPT ![in_tail % InboxCapacity] = in_sent + 1]
      /\ UNCHANGED <<in_head, in_tail, in_cpc, in_pview, in_cview, in_sent, in_received, in_got>>
  BY DEF Inbox!PushWrite, Inbox!Slot
<1>2. /\ in_sent < in_pview + InboxCapacity /\ in_pview <= in_received
      /\ in_received <= in_cview /\ in_cview <= in_sent
      /\ in_cpc \in {"read", "release"} => in_received < in_cview
  BY <1>1 DEF InboxIInv, ViewsInv
<1>3. InPutting = 0 /\ InPutting' = 1 /\ InTaking' = InTaking
  BY <1>1 DEF InPutting, InTaking
<1>4. lo \in Nat /\ lo <= in_sent /\ in_sent < lo + InboxCapacity
  BY <1>2, InboxFacts, InboxConstants DEF InTaking
<1>5. Holding(in_buf, InboxCapacity, lo, in_sent)
  <2>1. in_sent + InPutting = in_sent
    BY <1>3, InboxFacts
  <2>2. QED
    BY <2>1 DEF InboxIInv
<1> HIDE DEF lo
<1>6. /\ b \in [0 .. InboxCapacity - 1 -> Nat \cup {Uninit}]
      /\ Holding(b, InboxCapacity, lo, in_sent + 1)
  BY <1>4, <1>5, InboxFacts, InboxConstants, HoldingPut
<1>7. in_buf' = b
  BY <1>1, InboxFacts
<1> HIDE DEF b
<1>8. Inbox!TypeOK'
  BY <1>1, <1>6, <1>7 DEF InboxIInv, Inbox!TypeOK, Inbox!Slots
<1>9. ViewsInv'
  BY <1>1, <1>2 DEF InboxIInv, ViewsInv
<1>10. in_cpc # "dropped"
  BY <1>1 DEF InboxIInv
<1>11. Inbox!PopsInOrder' /\ Inbox!DropDestroysLive'
  BY <1>1, <1>10 DEF InboxIInv, Inbox!PopsInOrder, Inbox!DropDestroysLive
<1>12. Holding(in_buf, InboxCapacity, in_received + InTaking, in_sent + InPutting)'
  BY <1>1, <1>3, <1>6, <1>7 DEF lo
<1>13. QED
  BY <1>1, <1>8, <1>9, <1>10, <1>11, <1>12 DEF InboxIInv

LEMMA InboxPushPublish ==
  ASSUME InboxIInv, Inbox!PushPublish
  PROVE  InboxIInv'
<1>1. /\ in_ppc = "publish" /\ in_ppc' = "idle"
      /\ in_tail' = (in_tail + 1) % InboxModulus /\ in_sent' = in_sent + 1
      /\ UNCHANGED <<in_buf, in_head, in_cpc, in_pview, in_cview, in_received, in_got>>
  BY DEF Inbox!PushPublish, Inbox!Word
<1>2. in_tail' = in_sent' % InboxModulus /\ in_tail' \in 0 .. InboxModulus - 1
  <2>1. /\ ((in_sent % InboxModulus) + 1) % InboxModulus = (in_sent + 1) % InboxModulus
        /\ (in_sent + 1) % InboxModulus \in 0 .. InboxModulus - 1
    BY InboxFacts, InboxConstants, NextWord
  <2>2. in_tail = in_sent % InboxModulus
    BY DEF InboxIInv
  <2>3. QED
    BY <1>1, <2>1, <2>2
<1>3. InPutting = 1 /\ InPutting' = 0 /\ InTaking' = InTaking
  BY <1>1 DEF InPutting, InTaking
<1>4. Inbox!TypeOK'
  BY <1>1, <1>2, InboxFacts DEF InboxIInv, Inbox!TypeOK
<1>5. ViewsInv'
  <2>1. /\ in_sent < in_pview + InboxCapacity /\ in_pview <= in_received
        /\ in_received <= in_cview /\ in_cview <= in_sent
        /\ in_cpc \in {"read", "release"} => in_received < in_cview
    BY <1>1 DEF InboxIInv, ViewsInv
  <2>2. QED
    BY <1>1, <2>1, InboxFacts, InboxConstants, SMTT(30) DEF ViewsInv
<1>6. in_cpc # "dropped"
  BY <1>1 DEF InboxIInv
<1>7. Inbox!PopsInOrder' /\ Inbox!DropDestroysLive'
  BY <1>1, <1>6 DEF InboxIInv, Inbox!PopsInOrder, Inbox!DropDestroysLive
<1>8. Holding(in_buf, InboxCapacity, in_received + InTaking, in_sent + InPutting)'
  <2>1. in_sent' + InPutting' = in_sent + InPutting
    BY <1>1, <1>3, InboxFacts
  <2>2. QED
    BY <1>1, <1>3, <2>1 DEF InboxIInv
<1>9. in_head' = in_received' % InboxModulus
  BY <1>1 DEF InboxIInv
<1>10. QED
  BY <1>1, <1>2, <1>4, <1>5, <1>6, <1>7, <1>8, <1>9 DEF InboxIInv

LEMMA InboxPopRead ==
  ASSUME InboxIInv, Inbox!PopRead
  PROVE  InboxIInv'
<1> DEFINE hi == in_sent + InPutting
           b == [in_buf EXCEPT ![in_received % InboxCapacity] = Uninit]
<1>1. /\ in_cpc = "read" /\ in_cpc' = "release"
      /\ in_got' = in_buf[in_head % InboxCapacity]
      /\ in_buf' = [in_buf EXCEPT ![in_head % InboxCapacity] = Uninit]
      /\ UNCHANGED <<in_head, in_tail, in_ppc, in_pview, in_cview, in_sent, in_received>>
  BY DEF Inbox!PopRead, Inbox!Slot
<1>2. /\ in_received < in_cview /\ in_cview <= in_sent /\ in_pview <= in_received
      /\ in_sent <= in_pview + InboxCapacity
      /\ in_ppc \in {"write", "publish"} => in_sent < in_pview + InboxCapacity
  BY <1>1 DEF InboxIInv, ViewsInv
<1>3. InTaking = 0 /\ InTaking' = 1 /\ InPutting' = InPutting
  BY <1>1 DEF InPutting, InTaking
<1>4. hi \in Nat /\ in_received < hi /\ hi <= in_received + InboxCapacity
  BY <1>2, InboxFacts, InboxConstants DEF InPutting
<1>5. Holding(in_buf, InboxCapacity, in_received, hi)
  <2>1. in_received + InTaking = in_received
    BY <1>3, InboxFacts
  <2>2. QED
    BY <2>1 DEF InboxIInv
<1> HIDE DEF hi
<1>6. /\ b \in [0 .. InboxCapacity - 1 -> Nat \cup {Uninit}]
      /\ Holding(b, InboxCapacity, in_received + 1, hi)
      /\ in_buf[in_received % InboxCapacity] = in_received + 1
  <2>1. /\ InboxCapacity \in Nat /\ InboxCapacity > 0 /\ in_received \in Nat
        /\ in_buf \in [0 .. InboxCapacity - 1 -> Nat \cup {Uninit}]
    BY InboxFacts, InboxConstants
  <2>2. QED
    BY <1>4, <1>5, <2>1, HoldingTake, ZenonT(30)
<1>7. in_buf' = b /\ in_got' = in_received + 1
  BY <1>1, <1>6, InboxFacts
<1> HIDE DEF b
<1>8. Inbox!TypeOK'
  <2>1. in_got' \in Nat
    BY <1>7, InboxFacts
  <2>2. QED
    BY <1>1, <1>6, <1>7, <2>1 DEF InboxIInv, Inbox!TypeOK, Inbox!Slots
<1>9. ViewsInv'
  BY <1>1 DEF InboxIInv, ViewsInv
<1>10. in_ppc # "dropped"
  BY <1>1 DEF InboxIInv
<1>11. Inbox!PopsInOrder' /\ Inbox!DropDestroysLive'
  BY <1>1, <1>7 DEF Inbox!PopsInOrder, Inbox!DropDestroysLive
<1>12. Holding(in_buf, InboxCapacity, in_received + InTaking, in_sent + InPutting)'
  BY <1>1, <1>3, <1>6, <1>7 DEF hi
<1>13. QED
  BY <1>1, <1>8, <1>9, <1>10, <1>11, <1>12 DEF InboxIInv

LEMMA InboxPopRelease ==
  ASSUME InboxIInv, Inbox!PopRelease
  PROVE  InboxIInv'
<1>1. /\ in_cpc = "release" /\ in_cpc' = "idle"
      /\ in_head' = (in_head + 1) % InboxModulus /\ in_received' = in_received + 1
      /\ UNCHANGED <<in_buf, in_tail, in_ppc, in_pview, in_cview, in_sent, in_got>>
  BY DEF Inbox!PopRelease, Inbox!Word
<1>2. in_head' = in_received' % InboxModulus /\ in_head' \in 0 .. InboxModulus - 1
  <2>1. /\ ((in_received % InboxModulus) + 1) % InboxModulus = (in_received + 1) % InboxModulus
        /\ (in_received + 1) % InboxModulus \in 0 .. InboxModulus - 1
    BY InboxFacts, InboxConstants, NextWord
  <2>2. in_head = in_received % InboxModulus
    BY DEF InboxIInv
  <2>3. QED
    BY <1>1, <2>1, <2>2
<1>3. InTaking = 1 /\ InTaking' = 0 /\ InPutting' = InPutting
  BY <1>1 DEF InPutting, InTaking
<1>4. Inbox!TypeOK'
  BY <1>1, <1>2, InboxFacts DEF InboxIInv, Inbox!TypeOK
<1>5. ViewsInv'
  <2>1. /\ in_received < in_cview /\ in_cview <= in_sent /\ in_pview <= in_received
        /\ in_sent <= in_pview + InboxCapacity
        /\ in_ppc \in {"write", "publish"} => in_sent < in_pview + InboxCapacity
    BY <1>1 DEF InboxIInv, ViewsInv
  <2>2. QED
    BY <1>1, <2>1, InboxFacts DEF ViewsInv
<1>6. in_ppc # "dropped"
  BY <1>1 DEF InboxIInv
<1>7. Inbox!PopsInOrder' /\ Inbox!DropDestroysLive'
  BY <1>1 DEF Inbox!PopsInOrder, Inbox!DropDestroysLive
<1>8. Holding(in_buf, InboxCapacity, in_received + InTaking, in_sent + InPutting)'
  <2>1. in_received' + InTaking' = in_received + InTaking
    BY <1>1, <1>3, InboxFacts
  <2>2. QED
    BY <1>1, <1>3, <2>1 DEF InboxIInv
<1>9. in_tail' = in_sent' % InboxModulus
  BY <1>1 DEF InboxIInv
<1>10. QED
  BY <1>1, <1>2, <1>4, <1>5, <1>6, <1>7, <1>8, <1>9 DEF InboxIInv

\* Drop destroys what is in the ring, or nothing when only tail has wrapped.
LEMMA InboxDrop ==
  ASSUME InboxIInv, Inbox!DropRing
  PROVE  InboxIInv'
<1>1. /\ in_ppc = "idle" /\ in_cpc = "idle" /\ in_ppc' = "dropped" /\ in_cpc' = "dropped"
      /\ in_dropped' = (IF in_tail < in_head THEN <<>>
                        ELSE [k \in 1 .. in_tail - in_head |->
                                in_buf[(in_head + k - 1) % InboxCapacity]])
      /\ UNCHANGED <<in_buf, in_head, in_tail, in_pview, in_cview, in_sent, in_received, in_got>>
  BY DEF Inbox!DropRing, Inbox!Slot
<1>2. InTaking = 0 /\ InTaking' = 0 /\ InPutting = 0 /\ InPutting' = 0
  BY <1>1 DEF InPutting, InTaking
<1>3. /\ in_head = in_received % InboxModulus /\ in_tail = in_sent % InboxModulus
      /\ in_head \in Nat /\ in_tail \in Nat
  BY DEF InboxIInv, Inbox!TypeOK
<1>4. Holding(in_buf, InboxCapacity, in_received, in_sent)
  <2>1. in_received + InTaking = in_received /\ in_sent + InPutting = in_sent
    BY <1>2, InboxFacts
  <2>2. QED
    BY <2>1 DEF InboxIInv
<1>5. ASSUME ~(in_tail < in_head)
      PROVE  in_dropped' = [i \in 1 .. in_sent - in_received |-> in_received + i]
  <2>1. in_tail - in_head = in_sent - in_received
    <3>1. in_sent < in_received + InboxModulus
      BY InboxFacts, InboxConstants
    <3>2. in_sent % InboxModulus >= in_received % InboxModulus =>
            (in_sent % InboxModulus) - (in_received % InboxModulus) = in_sent - in_received
      BY <3>1, InboxFacts, InboxConstants, ModDistance, ZenonT(30)
    <3>3. QED
      BY <1>3, <1>5, <3>2
  <2>2. ASSUME NEW k \in 1 .. in_sent - in_received
        PROVE  in_buf[(in_head + k - 1) % InboxCapacity] = in_received + k
    <3> DEFINE j == k - 1
    <3>1. j \in Nat /\ in_received + j \in in_received .. in_sent - 1
      BY InboxFacts
    <3>2. ((in_received % InboxModulus) + j) % InboxCapacity = (in_received + j) % InboxCapacity
      <4>1. \A i \in Nat : ((in_received % InboxModulus) + i) % InboxCapacity
                           = (in_received + i) % InboxCapacity
        <5>1. in_received \in Nat
          BY InboxFacts
        <5>2. QED
          BY <5>1, InboxConstants, SlotOfWord, ZenonT(30)
      <4>2. QED
        BY <3>1, <4>1
    <3>3. in_buf[(in_received + j) % InboxCapacity] = (in_received + j) + 1
      BY <1>4, <3>1 DEF Holding
    <3>4. in_head + k - 1 = (in_received % InboxModulus) + j /\ (in_received + j) + 1 = in_received + k
      BY <1>3, InboxFacts
    <3>5. QED
      BY <3>2, <3>3, <3>4
  <2>3. QED
    BY <1>1, <1>5, <2>1, <2>2
<1>6. Inbox!DropDestroysLive'
  BY <1>1, <1>5 DEF Inbox!DropDestroysLive, Inbox!Contents
<1>7. Inbox!TypeOK' /\ ViewsInv' /\ Inbox!PopsInOrder'
  BY <1>1 DEF InboxIInv, Inbox!TypeOK, ViewsInv, Inbox!PopsInOrder
<1>8. Holding(in_buf, InboxCapacity, in_received + InTaking, in_sent + InPutting)'
  BY <1>1, <1>2 DEF InboxIInv
<1>9. QED
  BY <1>1, <1>3, <1>6, <1>7, <1>8 DEF InboxIInv

\* The inbox keeps its invariant.
LEMMA InboxInductive == InboxIInv /\ [Inbox!Next]_in_vars => InboxIInv'
<1>1. SUFFICES ASSUME InboxIInv, [Inbox!Next]_in_vars PROVE InboxIInv'
  OBVIOUS
<1>2. CASE UNCHANGED in_vars
  BY <1>1, <1>2 DEF in_vars, InboxIInv, Inbox!TypeOK, ViewsInv, InTaking, InPutting,
                    Inbox!PopsInOrder, Inbox!DropDestroysLive, Inbox!Contents
<1>3. QED
  BY <1>1, <1>2, InboxPushLooks, InboxPushWrite, InboxPushPublish, InboxPopLooks, InboxPopRead,
     InboxPopRelease, InboxDrop DEF Inbox!Next, Inbox!Producer, Inbox!Consumer

LEMMA InboxInvFollows == InboxIInv => Inbox!RingInv /\ Inbox!DropDestroysLive
<1>1. SUFFICES ASSUME InboxIInv PROVE Inbox!RingInv /\ Inbox!DropDestroysLive
  OBVIOUS
<1> DEFINE cap == InboxCapacity
<1>2. Inbox!NoDataRace
  <2>1. SUFFICES ASSUME in_ppc = "write", in_cpc = "read"
                 PROVE  in_tail % cap # in_head % cap
    BY DEF Inbox!NoDataRace, Inbox!Slot
  <2>2. in_received < in_sent /\ in_sent < in_received + cap
    <3>1. /\ in_sent < in_pview + cap /\ in_pview <= in_received
          /\ in_received < in_cview /\ in_cview <= in_sent
      BY <1>1, <2>1 DEF InboxIInv, ViewsInv
    <3>2. QED
      BY <1>1, <3>1, InboxFacts, InboxConstants
  <2>3. in_received % cap # in_sent % cap
    BY <1>1, <2>2, InboxFacts, InboxConstants, ModWindow
  <2>4. QED
    BY <1>1, <2>3, InboxFacts
<1>3. ASSUME in_ppc = "write" PROVE in_buf[in_tail % cap] = Uninit
  <2> DEFINE lo == in_received + InTaking
  <2>1. /\ in_sent < in_pview + cap /\ in_pview <= in_received
        /\ in_received <= in_cview /\ in_cview <= in_sent
        /\ in_cpc \in {"read", "release"} => in_received < in_cview
    BY <1>1, <1>3 DEF InboxIInv, ViewsInv
  <2>2. lo \in Nat /\ lo <= in_sent /\ in_sent < lo + cap
    BY <1>1, <2>1, InboxFacts, InboxConstants DEF InTaking
  <2>3. in_sent + InPutting = in_sent
    BY <1>1, <1>3, InboxFacts DEF InPutting
  <2>4. Holding(in_buf, cap, lo, in_sent)
    BY <1>1, <2>3 DEF InboxIInv
  <2> HIDE DEF lo
  <2>5. in_sent \in in_sent .. lo + cap - 1
    BY <1>1, <2>2, InboxFacts, InboxConstants
  <2>6. in_buf[in_sent % cap] = Uninit
    BY <2>4, <2>5 DEF Holding
  <2>7. QED
    BY <1>1, <2>6, InboxFacts
<1>4. ASSUME in_cpc = "read" PROVE in_buf[in_head % cap] # Uninit
  <2> DEFINE hi == in_sent + InPutting
  <2>1. in_received < in_cview /\ in_cview <= in_sent
    BY <1>1, <1>4 DEF InboxIInv, ViewsInv
  <2>2. in_received \in in_received .. hi - 1
    BY <1>1, <2>1, InboxFacts
  <2>3. in_received + InTaking = in_received
    BY <1>1, <1>4, InboxFacts DEF InTaking
  <2>4. Holding(in_buf, cap, in_received, hi)
    BY <1>1, <2>3 DEF InboxIInv
  <2> HIDE DEF hi
  <2>5. in_buf[in_received % cap] = in_received + 1
    BY <2>2, <2>4 DEF Holding
  <2>6. in_received + 1 \in Nat /\ Uninit \notin Nat
    BY <1>1, InboxFacts, OutboxConstants
  <2>7. QED
    BY <1>1, <2>5, <2>6, InboxFacts
<1>5. QED
  BY <1>1, <1>2, <1>3, <1>4 DEF InboxIInv, Inbox!RingInv, Inbox!SlotDiscipline, Inbox!Slot

\* What pushing and popping do to the contents.
LEMMA InboxRefines ==
  ASSUME InboxIInv, [Inbox!Next]_in_vars
  PROVE  [Inbox!Fifo!FifoNext]_<<Inbox!Contents, in_sent>>
<1>1. in_sent \in Nat /\ in_received \in Nat /\ in_received <= in_sent
  BY InboxFacts
<1>2. CASE UNCHANGED <<in_sent, in_received>>
  BY <1>2 DEF Inbox!Contents
<1>3. CASE Inbox!PushPublish
  <2>1. in_ppc = "publish" /\ in_sent' = in_sent + 1 /\ in_received' = in_received
    BY <1>3 DEF Inbox!PushPublish
  <2>2. in_sent < in_received + InboxCapacity
    <3>1. in_sent < in_pview + InboxCapacity /\ in_pview <= in_received
      BY <2>1 DEF InboxIInv, ViewsInv
    <3>2. QED
      BY <3>1, InboxFacts, InboxConstants
  <2>3. Len(Inbox!Contents) = in_sent - in_received /\ Inbox!Contents' = Append(Inbox!Contents, in_sent + 1)
    BY <1>1, <2>1, Consecutive DEF Inbox!Contents
  <2>4. Len(Inbox!Contents) < InboxCapacity
    BY <1>1, <2>2, <2>3, InboxConstants
  <2>5. Inbox!Fifo!Put
    BY <2>1, <2>3, <2>4 DEF Inbox!Fifo!Put
  <2>6. QED
    BY <2>5 DEF Inbox!Fifo!FifoNext
<1>4. CASE Inbox!PopRelease
  <2>1. in_cpc = "release" /\ in_sent' = in_sent /\ in_received' = in_received + 1
    BY <1>4 DEF Inbox!PopRelease
  <2>2. in_received < in_sent
    BY <2>1, InboxFacts DEF InboxIInv, ViewsInv
  <2>3. Inbox!Contents # <<>> /\ Inbox!Contents' = Tail(Inbox!Contents)
    BY <1>1, <2>1, <2>2, Consecutive DEF Inbox!Contents
  <2>4. Inbox!Fifo!Take
    BY <2>1, <2>3 DEF Inbox!Fifo!Take
  <2>5. QED
    BY <2>4 DEF Inbox!Fifo!FifoNext
<1>5. ASSUME Inbox!PushFull \/ Inbox!PushBegin \/ Inbox!PushWrite \/ Inbox!PopEmpty
             \/ Inbox!PopBegin \/ Inbox!PopRead \/ Inbox!DropRing
      PROVE  UNCHANGED <<in_sent, in_received>>
  BY <1>5 DEF Inbox!PushFull, Inbox!PushBegin, Inbox!PushWrite, Inbox!PopEmpty,
              Inbox!PopBegin, Inbox!PopRead, Inbox!DropRing
<1>6. CASE UNCHANGED in_vars
  BY <1>2, <1>6 DEF in_vars
<1>7. QED
  BY <1>2, <1>3, <1>4, <1>5, <1>6 DEF Inbox!Next, Inbox!Producer, Inbox!Consumer

-----------------------------------------------------------------------------
(* Both rings.                                                             *)

RingsIInv == OutboxIInv /\ InboxIInv

\* A step of one ring is a step, or nothing, of each.
LEMMA RingsStep ==
  ASSUME [RingsNext]_all_vars
  PROVE  [Next]_vars /\ [Inbox!Next]_in_vars
  BY DEF RingsNext, OutboxStep, InboxStep, Dropped, all_vars

LEMMA RingsInvariant == RingsSpec => []RingsIInv
<1>1. RingsInit => RingsIInv
  BY OutboxStarts, InboxStarts DEF RingsInit, RingsIInv
<1>2. RingsIInv /\ [RingsNext]_all_vars => RingsIInv'
  BY RingsStep, OutboxInductive, InboxInductive DEF RingsIInv
<1>3. QED
  BY <1>1, <1>2, PTL DEF RingsSpec

\* The slots of both rings are safe to touch and give back the oldest message,
\* for every capacity and index width: the inbox's without a lock and with old
\* views of the other side, the outbox's under the spinlock of any number of
\* threads.
THEOREM RingsAreSafe == RingsSpec => []RingsInv
<1>1. RingsIInv => RingsInv
  BY OutboxInvFollows, InboxInvFollows DEF RingsIInv, RingsInv
<1>2. QED
  BY <1>1, RingsInvariant, PTL

\* Both rings implement the bounded FIFO.
THEOREM RingsImplementFifo == RingsSpec => RingsAreFifos
<1>1. RingsInit => Fifo!FifoInit
  BY DEF RingsInit, Init, Fifo!FifoInit, Contents
<1>2. RingsInit => Inbox!Fifo!FifoInit
  BY DEF RingsInit, Inbox!Init, Inbox!Fifo!FifoInit, Inbox!Contents
<1>3. RingsIInv /\ [RingsNext]_all_vars => [Fifo!FifoNext]_<<Contents, sent>>
  BY RingsStep, OutboxRefines DEF RingsIInv
<1>4. RingsIInv /\ [RingsNext]_all_vars => [Inbox!Fifo!FifoNext]_<<Inbox!Contents, in_sent>>
  BY RingsStep, InboxRefines DEF RingsIInv
<1>5. QED
  BY <1>1, <1>2, <1>3, <1>4, RingsInvariant, PTL
     DEF RingsSpec, RingsAreFifos, ImplementsFifo, Inbox!ImplementsFifo, Fifo!FifoSpec,
         Inbox!Fifo!FifoSpec
=============================================================================
