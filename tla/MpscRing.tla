------------------------------ MODULE MpscRing ------------------------------
(***************************************************************************)
(* The outbox ring of the bus (kernel/bus.rs): plain, non-atomic head and  *)
(* tail behind a hand-rolled spinlock.  Any thread may push or pop; each   *)
(* access to the shared words is a step of its own, so that a lock that    *)
(* did not exclude would lose or duplicate messages here.                  *)
(***************************************************************************)
EXTENDS Naturals, Sequences

CONSTANTS
  Threads,   \* the threads that publish
  Capacity,  \* slots, a power of two, at least 2
  Modulus,   \* number of values of an index
  MaxPush,   \* bound: messages pushed in a behaviour
  Uninit

ASSUME RingAssumption ==
  /\ Capacity \in Nat \ {0, 1}
  /\ Modulus \in Nat /\ Modulus > Capacity /\ Modulus % Capacity = 0
  /\ MaxPush \in Nat
  /\ Uninit \notin Nat

VARIABLES
  lock,      \* 0 free, 1 taken
  buf, head, tail,
  pc,        \* where each thread stands
  op,        \* "push", "pop" or "is_empty": its call
  lh, lt,    \* its copies of head and tail
  got,       \* the value its pop took
  sent, received,
  answer     \* history: what its last call returned

vars == <<lock, buf, head, tail, pc, op, lh, lt, got, sent, received, answer>>

Slots == 0 .. Capacity - 1
Word(n) == n % Modulus
WrappingSub(a, b) == (a + Modulus - b) % Modulus
Slot(index) == index % Capacity

PCs == {"idle", "acquire", "load", "access", "advance", "release"}
Ops == {"push", "pop", "is_empty"}

Init ==
  /\ lock = 0 /\ head = 0 /\ tail = 0
  /\ buf = [s \in Slots |-> Uninit]
  /\ pc = [t \in Threads |-> "idle"]
  /\ op = [t \in Threads |-> "pop"]
  /\ lh = [t \in Threads |-> 0] /\ lt = [t \in Threads |-> 0]
  /\ got = [t \in Threads |-> Uninit]
  /\ sent = 0 /\ received = 0
  /\ answer = [t \in Threads |-> "none"]

Call(t, o) ==
  /\ pc[t] = "idle"
  /\ o = "push" => sent < MaxPush
  /\ op' = [op EXCEPT ![t] = o]
  /\ pc' = [pc EXCEPT ![t] = "acquire"]
  /\ answer' = [answer EXCEPT ![t] = "none"]
  /\ UNCHANGED <<lock, buf, head, tail, lh, lt, got, sent, received>>

\* compare_exchange(0, 1): the spinning itself changes nothing.
Acquire(t) ==
  /\ pc[t] = "acquire" /\ lock = 0
  /\ lock' = 1
  /\ pc' = [pc EXCEPT ![t] = "load"]
  /\ UNCHANGED <<buf, head, tail, op, lh, lt, got, sent, received, answer>>

\* tail.wrapping_sub(head) >= capacity
Full == WrappingSub(tail, head) >= Capacity

\* Both words are copied, and the guard clauses leave on a full or an empty
\* ring; the guard's Drop then releases the lock on that path too.
Load(t) ==
  LET empty == head = tail
      leaves == \/ op[t] = "push" /\ Full
                \/ op[t] = "pop" /\ empty
                \/ op[t] = "is_empty"
  IN /\ pc[t] = "load"
     /\ lh' = [lh EXCEPT ![t] = head]
     /\ lt' = [lt EXCEPT ![t] = tail]
     /\ pc' = [pc EXCEPT ![t] = IF leaves THEN "release" ELSE "access"]
     /\ answer' = [answer EXCEPT ![t] =
                     CASE op[t] = "push"     -> IF Full THEN "full" ELSE "ok"
                       [] op[t] = "pop"      -> IF empty THEN "nothing" ELSE "some"
                       [] op[t] = "is_empty" -> IF empty THEN "yes" ELSE "no"]
     /\ UNCHANGED <<lock, buf, head, tail, op, got, sent, received>>

AccessPush(t) ==
  /\ pc[t] = "access" /\ op[t] = "push"
  /\ buf' = [buf EXCEPT ![Slot(lt[t])] = sent + 1]
  /\ pc' = [pc EXCEPT ![t] = "advance"]
  /\ UNCHANGED <<lock, head, tail, op, lh, lt, got, sent, received, answer>>

AccessPop(t) ==
  /\ pc[t] = "access" /\ op[t] = "pop"
  /\ got' = [got EXCEPT ![t] = buf[Slot(lh[t])]]
  /\ buf' = [buf EXCEPT ![Slot(lh[t])] = Uninit]
  /\ pc' = [pc EXCEPT ![t] = "advance"]
  /\ UNCHANGED <<lock, head, tail, op, lh, lt, sent, received, answer>>

Advance(t) ==
  /\ pc[t] = "advance"
  /\ IF op[t] = "push"
     THEN /\ tail' = Word(lt[t] + 1) /\ sent' = sent + 1
          /\ UNCHANGED <<head, received>>
     ELSE /\ head' = Word(lh[t] + 1) /\ received' = received + 1
          /\ UNCHANGED <<tail, sent>>
  /\ pc' = [pc EXCEPT ![t] = "release"]
  /\ UNCHANGED <<lock, buf, op, lh, lt, got, answer>>

\* Mutant: a path without the guard leaves the lock taken.
ReleaseLeaks(t) ==
  /\ pc[t] = "release"
  /\ pc' = [pc EXCEPT ![t] = "idle"]
  /\ UNCHANGED <<lock, buf, head, tail, op, lh, lt, got, sent, received, answer>>

\* OutboxGuard::drop
Release(t) ==
  /\ pc[t] = "release"
  /\ lock' = 0
  /\ pc' = [pc EXCEPT ![t] = "idle"]
  /\ UNCHANGED <<buf, head, tail, op, lh, lt, got, sent, received, answer>>

Step(t) ==
  \/ Acquire(t) \/ Load(t) \/ AccessPush(t) \/ AccessPop(t)
  \/ Advance(t) \/ Release(t)

Next == \E t \in Threads : Step(t) \/ \E o \in Ops : Call(t, o)

Spec == Init /\ [][Next]_vars

\* A thread that spins meets a free lock again and again and one of its
\* compare-exchanges succeeds: the hardware arbitrates, the code does not
\* queue.  Between two steps of a critical section a thread is only delayed.
LiveSpec == Spec /\ \A t \in Threads : SF_vars(Step(t))

-----------------------------------------------------------------------------
TypeOK ==
  /\ lock \in {0, 1}
  /\ buf \in [Slots -> Nat \cup {Uninit}]
  /\ head \in 0 .. Modulus - 1 /\ tail \in 0 .. Modulus - 1
  /\ pc \in [Threads -> PCs] /\ op \in [Threads -> Ops]
  /\ lh \in [Threads -> 0 .. Modulus - 1] /\ lt \in [Threads -> 0 .. Modulus - 1]
  /\ got \in [Threads -> Nat \cup {Uninit}]
  /\ sent \in Nat /\ received \in Nat

InSection(t) == pc[t] \in {"load", "access", "advance", "release"}

\* "exclusive under the spinlock guard": one thread at a time works on the
\* plain words and slots, and the lock word says so.
Exclusive ==
  /\ \A t, u \in Threads : InSection(t) /\ InSection(u) => t = u
  /\ (lock = 0) <=> \A t \in Threads : ~InSection(t)

\* A pop takes the oldest message nobody has taken, whichever thread pushed it.
PopsInOrder ==
  \A t \in Threads :
    (pc[t] = "advance" /\ op[t] = "pop") => got[t] = received + 1

\* A push writes a free slot.
NoOverwrite ==
  \A t \in Threads :
    (pc[t] = "access" /\ op[t] = "push") => buf[Slot(lt[t])] = Uninit

\* The words and slots are one thread's at a time, no message is lost to
\* another written over it, and messages leave in order.
RingInv == TypeOK /\ Exclusive /\ NoOverwrite /\ PopsInOrder

\* The contents: a message is in from the update of tail to that of head.
Contents == [i \in 1 .. sent - received |-> received + i]

Fifo == INSTANCE BoundedFifo WITH queue <- Contents, pushed <- sent

\* The outbox implements the bounded FIFO.
ImplementsFifo == Fifo!FifoSpec

\* Every call returns: no path leaves the spinlock taken.
CallsReturn == \A t \in Threads : (pc[t] # "idle") ~> (pc[t] = "idle")
=============================================================================
