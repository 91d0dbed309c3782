---------------------------- MODULE MessageRings ----------------------------
(***************************************************************************)
(* The two rings of the message bus, one behaviour for either of them: the *)
(* outbox that any thread may publish to (MpscRing) and the inbox of a     *)
(* subsystem (SpscRing), whose variables are called in_... here.           *)
(***************************************************************************)
EXTENDS MpscRing

CONSTANTS InboxCapacity, InboxModulus, InboxMaxPush   \* as in SpscRing

ASSUME InboxAssumption ==
  /\ InboxCapacity \in Nat \ {0, 1}
  /\ InboxModulus \in Nat /\ InboxModulus > InboxCapacity /\ InboxModulus % InboxCapacity = 0
  /\ InboxMaxPush \in Nat

VARIABLES which,   \* the ring at work
          in_buf, in_head, in_tail, in_ppc, in_cpc, in_pview, in_cview, in_sent, in_received,
          in_got, in_dropped

in_vars == <<in_buf, in_head, in_tail, in_ppc, in_cpc, in_pview, in_cview, in_sent, in_received,
             in_got, in_dropped>>

Inbox == INSTANCE SpscRing
  WITH Capacity <- InboxCapacity, Modulus <- InboxModulus, MaxPush <- InboxMaxPush,
       buf <- in_buf, head <- in_head, tail <- in_tail, ppc <- in_ppc, cpc <- in_cpc,
       pview <- in_pview, cview <- in_cview, sent <- in_sent, received <- in_received,
       got <- in_got, dropped <- in_dropped

all_vars == <<which, vars, in_vars>>

RingsInit == which \in {"inbox", "outbox"} /\ Init /\ Inbox!Init

OutboxStep == which = "outbox" /\ Next /\ UNCHANGED <<which, in_vars>>
InboxStep == which = "inbox" /\ Inbox!Next /\ UNCHANGED <<which, vars>>
Dropped == in_cpc = "dropped" /\ UNCHANGED all_vars

RingsNext == OutboxStep \/ InboxStep \/ Dropped

\* The fairness is the outbox's: a thread that spins gets the lock.
RingsSpec == RingsInit /\ [][RingsNext]_all_vars /\ \A t \in Threads : SF_vars(Step(t))

-----------------------------------------------------------------------------
\* The slots of either ring are safe to touch: the inbox's never from both
\* sides, although each goes by a stale index of the other, the outbox's by one
\* thread at a time.  pop returns the oldest message across the wrap of the
\* indices, and dropping the inbox destroys each message in it once, or none
\* when tail alone has wrapped (they leak).
RingsInv == RingInv /\ Inbox!RingInv /\ Inbox!DropDestroysLive

\* Either ring is a bounded FIFO for those who push and pop.
RingsAreFifos == ImplementsFifo /\ Inbox!ImplementsFifo
=============================================================================
