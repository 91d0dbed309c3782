------------------------------ MODULE SpscRing ------------------------------
(***************************************************************************)
(* The single-producer single-consumer ring behind every subsystem inbox   *)
(* (kernel/bus.rs).  head and tail are machine words that wrap at Modulus  *)
(* (2^64 in the code); a slot is addressed by the low bits of its index.   *)
(*                                                                         *)
(* Memory order: an acquire load of the other side's index returns some    *)
(* value that side has stored, not necessarily the newest, but never one   *)
(* older than the value this thread saw before; the slot accesses ordered  *)
(* before the store that was read are then visible.  So each side keeps    *)
(* the count its last acquire returned (pview, cview), and a load picks    *)
(* any count between that and the present one.                             *)
(***************************************************************************)
EXTENDS Naturals, Sequences

CONSTANTS
  Capacity,  \* slots, a power of two, at least 2 (try_with_capacity)
  Modulus,   \* number of values of an index: a power of two
  MaxPush,   \* bound: messages pushed in a behaviour
  Uninit     \* MaybeUninit::uninit(), or a slot moved out of

VARIABLES
  buf,       \* slots; the k-th message pushed is the number k
  head, tail,
  ppc,       \* producer: "idle", "write" (slot access), "publish" (store of tail)
  cpc,       \* consumer: "idle", "read" (slot access), "release" (store of head)
  pview,     \* count of pops the producer's last acquire of head showed
  cview,     \* count of pushes the consumer's last acquire of tail showed
  sent, received,   \* counts of completed pushes and pops
  got,       \* the value of the consumer's last slot read
  dropped    \* values destroyed by Drop

vars == <<buf, head, tail, ppc, cpc, pview, cview, sent, received, got, dropped>>

Slots == 0 .. Capacity - 1
Word(n) == n % Modulus
\* Mutant: saturating_sub in place of wrapping_sub.
SaturatingSub(a, b) == IF a >= b THEN a - b ELSE 0

WrappingSub(a, b) == (a + Modulus - b) % Modulus
Slot(index) == index % Capacity     \* index & mask

Init ==
  /\ buf = [s \in Slots |-> Uninit]
  /\ head = 0 /\ tail = 0
  /\ ppc = "idle" /\ cpc = "idle"
  /\ pview = 0 /\ cview = 0
  /\ sent = 0 /\ received = 0
  /\ got = Uninit /\ dropped = <<>>

-----------------------------------------------------------------------------
(* push: the producer owns tail and acquires head.                         *)

PushFull ==
  /\ ppc = "idle"
  /\ \E v \in pview .. received :
       /\ WrappingSub(tail, Word(v)) >= Capacity
       /\ pview' = v
  /\ UNCHANGED <<buf, head, tail, ppc, cpc, cview, sent, received, got, dropped>>

\* Mutant: the ring is full one message too late.
PushBeginOffByOne ==
  /\ ppc = "idle" /\ sent < MaxPush
  /\ \E v \in pview .. received :
       /\ WrappingSub(tail, Word(v)) <= Capacity
       /\ pview' = v
  /\ ppc' = "write"
  /\ UNCHANGED <<buf, head, tail, cpc, cview, sent, received, got, dropped>>

PushBegin ==
  /\ ppc = "idle" /\ sent < MaxPush
  /\ \E v \in pview .. received :
       /\ WrappingSub(tail, Word(v)) < Capacity
       /\ pview' = v
  /\ ppc' = "write"
  /\ UNCHANGED <<buf, head, tail, cpc, cview, sent, received, got, dropped>>

PushWrite ==
  /\ ppc = "write"
  /\ buf' = [buf EXCEPT ![Slot(tail)] = sent + 1]
  /\ ppc' = "publish"
  /\ UNCHANGED <<head, tail, cpc, pview, cview, sent, received, got, dropped>>

PushPublish ==
  /\ ppc = "publish"
  /\ tail' = Word(tail + 1)
  /\ sent' = sent + 1
  /\ ppc' = "idle"
  /\ UNCHANGED <<buf, head, cpc, pview, cview, received, got, dropped>>

-----------------------------------------------------------------------------
(* pop: the consumer owns head and acquires tail.                          *)

PopEmpty ==
  /\ cpc = "idle"
  /\ \E v \in cview .. sent :
       /\ head = Word(v)
       /\ cview' = v
  /\ UNCHANGED <<buf, head, tail, ppc, cpc, pview, sent, received, got, dropped>>

PopBegin ==
  /\ cpc = "idle"
  /\ \E v \in cview .. sent :
       /\ head # Word(v)
       /\ cview' = v
  /\ cpc' = "read"
  /\ UNCHANGED <<buf, head, tail, ppc, pview, sent, received, got, dropped>>

\* assume_init_read moves the value out; the bytes stay, but nobody owns them.
PopRead ==
  /\ cpc = "read"
  /\ got' = buf[Slot(head)]
  /\ buf' = [buf EXCEPT ![Slot(head)] = Uninit]
  /\ cpc' = "release"
  /\ UNCHANGED <<head, tail, ppc, pview, cview, sent, received, dropped>>

PopRelease ==
  /\ cpc = "release"
  /\ head' = Word(head + 1)
  /\ received' = received + 1
  /\ cpc' = "idle"
  /\ UNCHANGED <<buf, tail, ppc, pview, cview, sent, got, dropped>>

-----------------------------------------------------------------------------
\* Drop has the ring to itself and destroys the values of the half-open
\* integer range head..tail, which is empty when tail has wrapped below head.
DropRing ==
  /\ ppc = "idle" /\ cpc = "idle"
  /\ dropped' = IF tail < head THEN <<>>
                ELSE [k \in 1 .. tail - head |-> buf[Slot(head + k - 1)]]
  /\ ppc' = "dropped" /\ cpc' = "dropped"
  /\ UNCHANGED <<buf, head, tail, pview, cview, sent, received, got>>

Producer == PushFull \/ PushBegin \/ PushWrite \/ PushPublish
Consumer == PopEmpty \/ PopBegin \/ PopRead \/ PopRelease

Next == Producer \/ Consumer \/ DropRing

Spec == Init /\ [][Next]_vars

-----------------------------------------------------------------------------
TypeOK ==
  /\ buf \in [Slots -> Nat \cup {Uninit}]
  /\ head \in 0 .. Modulus - 1 /\ tail \in 0 .. Modulus - 1
  /\ ppc \in {"idle", "write", "publish", "dropped"}
  /\ cpc \in {"idle", "read", "release", "dropped"}
  /\ sent \in Nat /\ received \in Nat /\ pview \in Nat /\ cview \in Nat
  /\ got \in Nat \cup {Uninit}

\* The producer never writes the slot the consumer is reading (the SAFETY
\* comments of push and pop), stale views and wrapped indices included.
NoDataRace == ~(ppc = "write" /\ cpc = "read" /\ Slot(tail) = Slot(head))

\* push never overwrites a value nobody has taken, and pop never reads a slot
\* that holds none (assume_init_read of an uninitialised slot).
SlotDiscipline ==
  /\ ppc = "write" => buf[Slot(tail)] = Uninit
  /\ cpc = "read" => buf[Slot(head)] # Uninit

\* The value a pop returns is the oldest one not yet popped.
PopsInOrder == cpc = "release" => got = received + 1

\* The slots are safe to touch without a lock, and hold what pop expects.
RingInv == TypeOK /\ NoDataRace /\ SlotDiscipline /\ PopsInOrder

\* The contents: a message is in from the store of tail to the store of head.
Contents == [i \in 1 .. sent - received |-> received + i]

\* Drop destroys every value pushed and not popped, once each, unless tail has
\* wrapped and head has not: then it destroys none of them (they leak), but
\* never a slot that holds no value.
DropDestroysLive ==
  cpc = "dropped" => dropped = IF tail < head THEN <<>> ELSE Contents

Fifo == INSTANCE BoundedFifo WITH queue <- Contents, pushed <- sent

\* The ring implements the bounded FIFO.
ImplementsFifo == Fifo!FifoSpec
=============================================================================
