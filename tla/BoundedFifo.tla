----------------------------- MODULE BoundedFifo -----------------------------
(***************************************************************************)
(* What a message ring of the kernel promises to the thread that pushes    *)
(* and the thread that pops: the messages come out once each, in the order *)
(* they went in, and never more than Capacity of them are inside.  The     *)
(* k-th message pushed is the number k.  A push or a pop may be refused at *)
(* any time (that is a stuttering step here): what a refusal means is a    *)
(* property of the rings themselves.                                       *)
(***************************************************************************)
EXTENDS Naturals, Sequences

CONSTANT Capacity

VARIABLES queue,   \* the messages inside, oldest first
          pushed   \* how many have been pushed

FifoInit == queue = <<>> /\ pushed = 0

Put ==
  /\ Len(queue) < Capacity
  /\ pushed' = pushed + 1
  /\ queue' = Append(queue, pushed')

Take ==
  /\ queue # <<>>
  /\ queue' = Tail(queue)
  /\ UNCHANGED pushed

FifoNext == Put \/ Take

FifoSpec == FifoInit /\ [][FifoNext]_<<queue, pushed>>
==============================================================================
