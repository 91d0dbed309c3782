----------------------------- MODULE WalRecords -----------------------------
(***************************************************************************)
(* What the records of the sync write-ahead log mean (the second half of   *)
(* SyncWal::replay, src/kernel/sync.rs): a list of pending packets and the *)
(* effect of one record on it.                                             *)
(***************************************************************************)
EXTENDS Naturals, Ordered

CONSTANT MaxRecords    \* max_records

ASSUME MaxRecordsAssumption == MaxRecords \in Nat \ {0}

PacketRecord(packet) == [type |-> "PACKET", packet |-> packet]
AckRecord(sequence) == [type |-> "ACK", sequence |-> sequence]

Loaded(pending) == [status |-> "ok", pending |-> pending]
Failed(why) == [status |-> why, pending |-> <<>>]

SameNumber(pending, packet) ==
    {i \in DOMAIN pending : pending[i].sequence = packet.sequence}

\* A packet overwrites the pending one with its number, or joins the end; an
\* acknowledgement drops every number up to its own.
ApplyRecord(pending, r) ==
    CASE r.type = "ACK" ->
           Loaded(Kept(pending, {i \in DOMAIN pending : pending[i].sequence > r.sequence}))
      [] r.type = "PACKET" /\ SameNumber(pending, r.packet) # {} ->
           Loaded([i \in DOMAIN pending |->
                     IF i \in SameNumber(pending, r.packet) THEN r.packet ELSE pending[i]])
      [] r.type = "PACKET" /\ SameNumber(pending, r.packet) = {} ->
           IF Len(pending) >= MaxRecords THEN Failed("TooManyRecords")
           ELSE Loaded(Append(pending, r.packet))

\* The replay of a log that gets one more record: a refused log stays refused.
Extended(replayed, r) ==
    IF replayed.status = "ok" THEN ApplyRecord(replayed.pending, r) ELSE replayed
=============================================================================
