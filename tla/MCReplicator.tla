---------------------------- MODULE MCReplicator ----------------------------
(* Replicator for TLC: two peers that face each other. *)
EXTENDS Replicator

CONSTANTS a, b    \* the peers

Facing == [p \in {a, b} |-> IF p = a THEN b ELSE a]

\* A busy and a quiet peer; a peer that only receives.
Uneven == [p \in {a, b} |-> IF p = a THEN 2 ELSE 1]
OneWay == [p \in {a, b} |-> IF p = a THEN 2 ELSE 0]

\* Deltas in both directions in one session without failures; a sender that crashes or
\* whose log fails, over two sessions.
LinkOrCrash ==
  { [kinds |-> {"Delta"}, budget |-> Uneven, crashes |-> 0, sessions |-> 1, walErrors |-> 0],
    [kinds |-> {"Snapshot", "Delta"}, budget |-> OneWay, crashes |-> 1, sessions |-> 2, walErrors |-> 1] }

\* Both directions, with a failing log write.
Drain ==
  { [kinds |-> {"Event"}, budget |-> Uneven, crashes |-> 0, sessions |-> 1, walErrors |-> 1] }
=============================================================================
