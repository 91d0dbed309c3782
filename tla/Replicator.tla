----------------------------- MODULE Replicator -----------------------------
(***************************************************************************)
(* Two Replicators of src/kernel/sync.rs that talk over a network which    *)
(* loses, duplicates, delays and reorders packets, each with a write-ahead *)
(* log that survives a crash of its process.                               *)
(*                                                                         *)
(* wal[p] is what SyncWal::replay would return (module SyncWal shows how   *)
(* the file gets there); a failing append leaves nothing, or the whole     *)
(* record when only the sync failed.  Packets travel under the session     *)
(* nonce of their sender, which the receiver compares with its own         *)
(* (receive_authenticated_bytes); agreed is the latest nonce the session   *)
(* set-up outside this code has handed out.  An in-flight packet keeps the *)
(* frames since it was last sent, up to ResendAfter, in place of the frame *)
(* number.  Payloads are numbered in the order in which they are enqueued. *)
(***************************************************************************)
EXTENDS Naturals, FiniteSets, SequencesExt, WalRecords

CONSTANTS Peers, Other,      \* the two ends, and each one's counterpart
          Keys,              \* entity keys
          MaxPending, MaxInFlight, ResendAfter, MaxRetries,   \* SyncConfig
          Scenarios          \* bounds of the behaviours to look at

ASSUME ReplicatorAssumption ==
    /\ Other \in [Peers -> Peers] /\ \A p \in Peers : Other[Other[p]] = p
    /\ MaxPending \in Nat \ {0} /\ MaxInFlight \in Nat \ {0}
    /\ ResendAfter \in Nat \ {0} /\ MaxRetries \in Nat
    /\ Scenarios \subseteq
         [kinds : SUBSET {"Snapshot", "Delta", "Event"},   \* SyncKind
          budget : [Peers -> Nat],    \* payloads each peer enqueues
          crashes : Nat,              \* crashes of processes
          sessions : Nat,             \* session nonces
          walErrors : Nat]            \* failing log writes

VARIABLES
    up,             \* the process is running
    mode,           \* mode
    next_sequence, last_received, last_ack_sent,
    pending,        \* pending: packets not yet sent
    in_flight,      \* in_flight: packets sent and not acknowledged
    session_nonce,  \* session_nonce, 0 for None
    wal,            \* what a replay of the peer's log returns
    agreed,         \* the latest session nonce handed out
    used,           \* the latest nonce each peer has taken
    net,            \* packets that may still reach each peer
    enqueued,       \* history: payloads each peer enqueued
    delivered,      \* history: what receive() returned, in this session
    acked,          \* history: numbers dropped from in_flight as acknowledged
    crashes, walErrors,
    bounds          \* the scenario of this behaviour

local == <<mode, next_sequence, last_received, last_ack_sent, pending, in_flight, session_nonce>>
vars == <<up, local, wal, agreed, used, net, enqueued, delivered, acked, crashes, walErrors,
          bounds>>

NoSession == 0

Packet(p, kind, key, sequence) ==
    [sequence |-> sequence, ack |-> last_received[p], kind |-> kind, key |-> key,
     payload |-> enqueued[p] + 1]

----------------------------------------------------------------------------
(* The replicator's own state. *)

Init ==
    /\ up = [p \in Peers |-> FALSE]
    /\ mode = [p \in Peers |-> "Offline"]
    /\ next_sequence = [p \in Peers |-> 1]
    /\ last_received = [p \in Peers |-> 0]
    /\ last_ack_sent = [p \in Peers |-> 0]
    /\ pending = [p \in Peers |-> <<>>]
    /\ in_flight = [p \in Peers |-> <<>>]
    /\ session_nonce = [p \in Peers |-> NoSession]
    /\ wal = [p \in Peers |-> Loaded(<<>>)]
    /\ agreed = 1
    /\ used = [p \in Peers |-> NoSession]
    /\ net = [p \in Peers |-> {}]
    /\ enqueued = [p \in Peers |-> 0]
    /\ delivered = [p \in Peers |-> <<>>]
    /\ acked = [p \in Peers |-> {}]
    /\ crashes = 0
    /\ walErrors = 0
    /\ bounds \in Scenarios

\* try_new and with_wal: the packets of the log are pending again, and new
\* ones get numbers above theirs.  (attach_wal does the same to a new
\* replicator.)  A log that does not replay, or holds too much, is an error.
Recoverable(p) == wal[p].status = "ok" /\ Len(wal[p].pending) <= MaxPending

\* Mutant: a recovered replicator counts from 1.
NumberOne(recovered) == 1

\* The next number of a replicator that recovered these packets.
NumberAfter(recovered) == Max({1} \cup {q.sequence + 1 : q \in ToSet(recovered)})

Boot(p) ==
    /\ ~up[p]
    /\ Recoverable(p)
    /\ up' = [up EXCEPT ![p] = TRUE]
    /\ mode' = [mode EXCEPT ![p] = "Offline"]
    /\ next_sequence' = [next_sequence EXCEPT ![p] = NumberAfter(wal[p].pending)]
    /\ last_received' = [last_received EXCEPT ![p] = 0]
    /\ last_ack_sent' = [last_ack_sent EXCEPT ![p] = 0]
    /\ pending' = [pending EXCEPT ![p] = wal[p].pending]
    /\ in_flight' = [in_flight EXCEPT ![p] = <<>>]
    /\ session_nonce' = [session_nonce EXCEPT ![p] = NoSession]
    /\ UNCHANGED <<wal, agreed, used, net, enqueued, delivered, acked, crashes, walErrors, bounds>>

Crash(p) ==
    /\ up[p]
    /\ crashes < bounds.crashes
    /\ up' = [up EXCEPT ![p] = FALSE]
    /\ crashes' = crashes + 1
    /\ acked' = [acked EXCEPT ![p] = {}]
    /\ UNCHANGED <<local, wal, agreed, used, net, enqueued, delivered, walErrors, bounds>>

SetMode(p, m) ==
    /\ up[p]
    /\ mode[p] # m
    /\ mode' = [mode EXCEPT ![p] = m]
    /\ UNCHANGED <<up, next_sequence, last_received, last_ack_sent, pending, in_flight,
                   session_nonce, wal, agreed, used, net, enqueued, delivered, acked, crashes, walErrors, bounds>>

\* The session set-up outside this code hands out a fresh nonce.
RenewSession ==
    /\ agreed < bounds.sessions
    /\ agreed' = agreed + 1
    /\ UNCHANGED <<up, local, wal, used, net, enqueued, delivered, acked, crashes, walErrors, bounds>>

SessionReset(p, nonce) ==
    /\ up[p]
    /\ session_nonce' = [session_nonce EXCEPT ![p] = nonce]
    /\ last_received' = [last_received EXCEPT ![p] = 0]
    /\ last_ack_sent' = [last_ack_sent EXCEPT ![p] = 0]
    /\ delivered' = [delivered EXCEPT ![p] = <<>>]
    /\ UNCHANGED <<up, mode, next_sequence, pending, in_flight, wal, agreed, net, enqueued,
                   acked, crashes, walErrors, bounds>>

\* set_session_nonce, with a fresh nonce.
SetSessionNonce(p) ==
    /\ used[p] # agreed
    /\ used' = [used EXCEPT ![p] = agreed]
    /\ SessionReset(p, agreed)

\* clear_session.
ClearSession(p) ==
    /\ session_nonce[p] # NoSession
    /\ SessionReset(p, NoSession)
    /\ UNCHANGED used

----------------------------------------------------------------------------
(* Writing the log.  A write succeeds, or fails with nothing or with the     *)
(* whole record in the file.                                                 *)

WalWrites(p, r) ==
    /\ wal' = [wal EXCEPT ![p] = Extended(wal[p], r)]
    /\ UNCHANGED walErrors

WalFails(p, r) ==
    /\ walErrors < bounds.walErrors
    /\ walErrors' = walErrors + 1
    /\ \/ UNCHANGED wal
       \/ wal' = [wal EXCEPT ![p] = Extended(wal[p], r)]

----------------------------------------------------------------------------
(* Enqueueing. *)

CanEnqueue(p) == up[p] /\ enqueued[p] < bounds.budget[p]

\* The pending deltas for a key; the search for one stops at the first.
PendingDelta(p, key) ==
    {i \in DOMAIN pending[p] : pending[p][i].kind = "Delta" /\ pending[p][i].key = key}

\* enqueue: the number is consumed before the log is written.
Enqueue(p, kind, key) ==
    LET packet == Packet(p, kind, key, next_sequence[p])
    IN  /\ CanEnqueue(p)
        /\ kind = "Delta" => PendingDelta(p, key) = {}
        /\ Len(pending[p]) < MaxPending
        /\ next_sequence' = [next_sequence EXCEPT ![p] = @ + 1]
        /\ enqueued' = [enqueued EXCEPT ![p] = @ + 1]
        /\ \/ /\ WalWrites(p, PacketRecord(packet))
              /\ pending' = [pending EXCEPT ![p] = Append(@, packet)]
           \/ /\ WalFails(p, PacketRecord(packet))
              /\ UNCHANGED pending
        /\ UNCHANGED <<up, mode, last_received, last_ack_sent, in_flight, session_nonce, agreed, used,
                       net, delivered, acked, crashes, bounds>>

\* enqueue_delta on a key that is already pending: the payload is replaced in
\* place.  The log gets the current acknowledgement, the queue keeps the old.
Coalesce(p, key) ==
    /\ CanEnqueue(p)
    /\ PendingDelta(p, key) # {}
    /\ LET i == Min(PendingDelta(p, key))
           replacement == Packet(p, "Delta", key, pending[p][i].sequence)
       IN  \/ /\ WalWrites(p, PacketRecord(replacement))
              /\ pending' = [pending EXCEPT ![p][i].payload = replacement.payload]
           \/ /\ WalFails(p, PacketRecord(replacement))
              /\ UNCHANGED pending
    /\ enqueued' = [enqueued EXCEPT ![p] = @ + 1]
    /\ UNCHANGED <<up, mode, next_sequence, last_received, last_ack_sent, in_flight,
                   session_nonce, agreed, used, net, delivered, acked, crashes, bounds>>

----------------------------------------------------------------------------
(* pump(transport, frame), once a frame. *)

InFlight(packet) == [packet |-> packet, age |-> 0, retries |-> 0]

Aged(item) ==
    [packet |-> item.packet, retries |-> item.retries,
     age |-> IF item.age < ResendAfter THEN item.age + 1 ELSE ResendAfter]
Due(item) == item.age >= ResendAfter /\ item.retries < MaxRetries
\* Mutant: the last retry is never reached.
ExhaustedNever(item) == item.age >= ResendAfter /\ item.retries > MaxRetries

Exhausted(item) == item.age >= ResendAfter /\ item.retries >= MaxRetries
Resent(item) == [packet |-> item.packet, age |-> 0, retries |-> item.retries + 1]

\* The items of a queue with the packets that left it, under the sender's nonce.
Sent(p, packets) == {[nonce |-> session_nonce[p], packet |-> q] : q \in packets}

\* How many packets the first loop may move.
Room(p) == IF Len(in_flight[p]) < MaxInFlight THEN MaxInFlight - Len(in_flight[p]) ELSE 0

\* The transport takes the first n pending packets, then refuses or there is
\* nothing more to send; of the packets due for another attempt it takes those
\* at the positions again.  Then the packets out of attempts are dropped.
PumpOnline(p, n, again) ==
    LET aged == [i \in DOMAIN in_flight[p] |-> Aged(in_flight[p][i])]
        due == {i \in DOMAIN aged : Due(aged[i])}
        first == [i \in 1..n |-> InFlight(pending[p][i])]
        swept == [i \in DOMAIN aged |-> IF i \in again THEN Resent(aged[i]) ELSE aged[i]] \o first
    IN  /\ up[p]
        /\ mode[p] = "Online"
        /\ n <= Len(pending[p]) /\ n <= Room(p)
        /\ again \subseteq due
        /\ pending' = [pending EXCEPT ![p] = SubSeq(@, n + 1, Len(@))]
        /\ in_flight' = [in_flight EXCEPT ![p] =
                          Kept(swept, {i \in DOMAIN swept : ~Exhausted(swept[i])})]
        /\ net' = [net EXCEPT ![Other[p]] =
                     @ \cup Sent(p, {pending[p][i] : i \in 1..n} \cup {aged[i].packet : i \in again})]
        /\ UNCHANGED <<up, mode, next_sequence, last_received, last_ack_sent, session_nonce, wal,
                       agreed, used, enqueued, delivered, acked, crashes, walErrors, bounds>>

\* Offline: pump returns at once, and the frame passes.
PumpOffline(p) ==
    /\ up[p]
    /\ mode[p] = "Offline"
    /\ in_flight' = [in_flight EXCEPT ![p] = [i \in DOMAIN @ |-> Aged(@[i])]]
    /\ UNCHANGED <<up, mode, next_sequence, last_received, last_ack_sent, pending, session_nonce,
                   wal, agreed, used, net, enqueued, delivered, acked, crashes, walErrors, bounds>>

\* A pump whose transport takes everything it is offered.
PumpAll(p) ==
    /\ in_flight[p] # <<>> \/ pending[p] # <<>>
    /\ PumpOnline(p, Min({Len(pending[p]), Room(p)}),
                  {i \in DOMAIN in_flight[p] : Due(Aged(in_flight[p][i]))})

Pump(p) ==
    \/ \E n \in 0..Min({Len(pending[p]), Room(p)}) :
         \E again \in SUBSET {i \in DOMAIN in_flight[p] : Due(Aged(in_flight[p][i]))} :
            PumpOnline(p, n, again)
    \/ PumpOffline(p)

----------------------------------------------------------------------------
(* Receiving. *)

\* Mutant: an acknowledgement clears the whole in-flight queue.
AcknowledgeAll(p, sequence) ==
    /\ WalWrites(p, AckRecord(sequence))
    /\ in_flight' = [in_flight EXCEPT ![p] = <<>>]
    /\ acked' = [acked EXCEPT ![p] = @ \cup {x.packet.sequence : x \in ToSet(in_flight[p])}]

\* try_acknowledge: the log first, then the in-flight queue.
Acknowledge(p, sequence) ==
    \/ /\ WalWrites(p, AckRecord(sequence))
       /\ in_flight' = [in_flight EXCEPT ![p] =
                          Kept(@, {i \in DOMAIN @ : @[i].packet.sequence > sequence})]
       /\ acked' = [acked EXCEPT ![p] = @ \cup
                      {x.packet.sequence : x \in {y \in ToSet(in_flight[p]) :
                                                    y.packet.sequence <= sequence}}]
    \/ /\ WalFails(p, AckRecord(sequence))
       /\ UNCHANGED <<in_flight, acked>>

\* Mutant: a packet is a duplicate only when it has the latest number.
NotADuplicateLatestOnly(p, packet) == packet.sequence # last_received[p]

NotADuplicate(p, packet) == packet.sequence > last_received[p]

\* receive_authenticated_bytes and receive: another session's packets and
\* duplicates are refused; an acknowledgement that fails is not tried again.
Receive(p, m) ==
    /\ up[p]
    /\ session_nonce[p] # NoSession
    /\ m.nonce = session_nonce[p]
    /\ NotADuplicate(p, m.packet)
    /\ last_received' = [last_received EXCEPT ![p] = m.packet.sequence]
    /\ IF m.packet.ack > last_ack_sent[p]
       THEN /\ Acknowledge(p, m.packet.ack)
            /\ last_ack_sent' = [last_ack_sent EXCEPT ![p] = m.packet.ack]
       ELSE UNCHANGED <<wal, walErrors, in_flight, acked, last_ack_sent>>
    /\ delivered' = [delivered EXCEPT ![p] = Append(@, m.packet)]
    /\ UNCHANGED <<up, mode, next_sequence, pending, session_nonce, agreed, used, net, enqueued, crashes, bounds>>

Next ==
    \/ RenewSession
    \/ \E p \in Peers :
         \/ Boot(p)
         \/ Crash(p)
         \/ \E m \in {"Offline", "Online"} : SetMode(p, m)
         \/ SetSessionNonce(p)
         \/ ClearSession(p)
         \/ \E kind \in bounds.kinds, key \in Keys : Enqueue(p, kind, key)
         \/ \E key \in Keys : Coalesce(p, key)
         \/ Pump(p)
         \/ \E m \in net[p] : Receive(p, m)

Spec == Init /\ [][Next]_vars

\* The game loop pumps every frame, and a link that is up takes packets again
\* and again.
LiveSpec == Spec /\ \A p \in Peers : SF_vars(PumpAll(p))

----------------------------------------------------------------------------
(* Properties. *)

PacketType ==
    [sequence : Nat, ack : Nat, kind : bounds.kinds, key : Keys, payload : Nat]

TypeOK ==
    /\ up \in [Peers -> BOOLEAN]
    /\ mode \in [Peers -> {"Offline", "Online"}]
    /\ \A f \in {next_sequence, last_received, last_ack_sent, session_nonce, enqueued} :
          f \in [Peers -> Nat]
    /\ \A p \in Peers :
          /\ ToSet(pending[p]) \subseteq PacketType /\ Len(pending[p]) <= MaxPending
          /\ Len(in_flight[p]) <= MaxInFlight
          /\ \A x \in ToSet(in_flight[p]) :
                x.packet \in PacketType /\ x.age \in 0..ResendAfter /\ x.retries \in 0..MaxRetries
          /\ ToSet(wal[p].pending) \subseteq PacketType
          /\ \A m \in net[p] : m.packet \in PacketType

\* The numbers a peer has still to deliver, the ones sent before the others.
Queue(p) == [i \in DOMAIN in_flight[p] |-> in_flight[p][i].packet] \o pending[p]

(***************************************************************************)
(* Through coalescing, failing log writes, drops after the last retry and  *)
(* any number of recoveries from the log, no number is in the queues of a  *)
(* replicator twice, and all are below the next it gives out.  Up to one   *)
(* crash they are in increasing order as well.  (After a restart an        *)
(* acknowledgement that an old packet carries into the new session may     *)
(* drop from the log what is pending again; enqueue_delta then logs the    *)
(* old number behind later ones, and the next recovery finds them so.)     *)
(***************************************************************************)
NumbersIncrease ==
    \A p \in Peers :
      /\ \A i, j \in DOMAIN Queue(p) : Queue(p)[i].sequence = Queue(p)[j].sequence => i = j
      /\ \A i \in DOMAIN Queue(p) : Queue(p)[i].sequence < next_sequence[p]
      /\ crashes <= 1 =>
           \A i, j \in DOMAIN Queue(p) : i < j => Queue(p)[i].sequence < Queue(p)[j].sequence

(***************************************************************************)
(* The log of a running replicator that never crashed holds every packet   *)
(* it has queued, with its latest payload unless a log write failed.       *)
(***************************************************************************)
LogCoversQueue ==
    \A p \in Peers :
      up[p] /\ crashes = 0 /\ walErrors = 0 /\ wal[p].status = "ok" =>
        \A q \in ToSet(Queue(p)) : \E r \in ToSet(wal[p].pending) :
          r.sequence = q.sequence /\ r.payload = q.payload

(***************************************************************************)
(* What the replicator's queues always satisfy: their bounds, their order, *)
(* and the log behind them.                                                *)
(***************************************************************************)
QueueInv == TypeOK /\ NumbersIncrease /\ LogCoversQueue

(***************************************************************************)
(* In one session the application of the receiving peer never gets the     *)
(* same payload twice, whatever the network duplicates and the sender      *)
(* resends, replaces or recovers from its log.                             *)
(***************************************************************************)
DeliveredOnce ==
    \A p \in Peers : \A i, j \in DOMAIN delivered[p] :
      i # j => delivered[p][i].payload # delivered[p][j].payload

(***************************************************************************)
(* While nobody restarts, the deltas of one key are delivered in the order *)
(* they were enqueued, so that an older state never overwrites a newer     *)
(* one, although a delta that is coalesced keeps its old place.  (After a  *)
(* restart the log may give back two deltas of a key, and enqueue_delta    *)
(* replaces the older: then the order is lost.)                            *)
(***************************************************************************)
DeltasInOrder ==
    crashes = 0 =>
      \A p \in Peers : \A i, j \in DOMAIN delivered[p] :
        (/\ i < j
         /\ delivered[p][i].kind = "Delta" /\ delivered[p][j].kind = "Delta"
         /\ delivered[p][i].key = delivered[p][j].key)
        => delivered[p][i].payload < delivered[p][j].payload

(***************************************************************************)
(* What receive hands to the application comes once and in order.          *)
(***************************************************************************)
DeliveredInOrder == DeliveredOnce /\ DeltasInOrder

(***************************************************************************)
(* While nobody restarts and the session lasts, a packet leaves in_flight  *)
(* as acknowledged only when the peer has received its number or a later   *)
(* one.                                                                    *)
(***************************************************************************)
AckedIsReached ==
    crashes = 0 /\ agreed = 1 /\ (\A p \in Peers : session_nonce[p] # NoSession) =>
      \A p \in Peers : \A n \in acked[p] : n <= last_received[Other[p]]

(***************************************************************************)
(* A replicator that stays online gets rid of everything it has queued:    *)
(* each packet is acknowledged or dropped after its last retry, so a peer  *)
(* that never answers cannot block the queues for ever.                    *)
(***************************************************************************)
QueuesDrain ==
    \A p \in Peers : <>[](up[p] /\ mode[p] = "Online") => <>[](Queue(p) = <<>>)
=============================================================================
