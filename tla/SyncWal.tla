------------------------------ MODULE SyncWal ------------------------------
(***************************************************************************)
(* The write-ahead log of the replicator, SyncWal of src/kernel/sync.rs.   *)
(*                                                                         *)
(* The file is a sequence of cells.  A record is a header cell, body cells *)
(* (an acknowledgement has one, a packet more: 8 bytes against at least    *)
(* 31) and a checksum cell.  A write that stops early (the process dies,   *)
(* or write_all fails) leaves a proper prefix of those cells, or "part", a *)
(* header of fewer than nine bytes.  Reads count cells, as read_exact      *)
(* counts bytes, so a reader that has lost its place reads across records. *)
(* The checksum has no collisions here: a body is accepted exactly when    *)
(* its cells are the ones that were written for that header.               *)
(*                                                                         *)
(* Files are changed by one process at a time.  A rename replaces its      *)
(* target in one step, or refuses to because there is one, which compact() *)
(* is prepared for on Windows.  log and damage are history variables: the  *)
(* records written whole to the log there is, and whether a record was     *)
(* ever written after a torn one.                                          *)
(***************************************************************************)
EXTENDS Naturals, FiniteSets, Sequences, SequencesExt, WalRecords

CONSTANTS MaxSequence,    \* packets carry a sequence number 1..MaxSequence
          Payloads,       \* what distinguishes two packets with one number
          PacketCells,    \* body cells of a packet
          Platforms,      \* the builds to look at, of {"posix", "windows"}
          MaxCells,       \* bound: cells in the file
          MaxTears        \* bound: writes that stop early

ASSUME WalAssumption ==
    /\ MaxSequence \in Nat /\ MaxCells \in Nat /\ MaxTears \in Nat
    /\ PacketCells \in Nat \ {0, 1}
    /\ Platforms \subseteq {"posix", "windows"}

VARIABLES platform,  \* the build
          exists,    \* there is a file at the log's path
          file,      \* the cells of the log, <<>> when there is no file
          temp,      \* the cells of the ".compact" file while compact() needs it;
                     \* what is left of it later is truncated and never read
          process,   \* "down", "open", or inside compact(): "renaming", and
                     \* "removed" when the old log had to go first
          log,       \* history: the records that were written whole
          damage,    \* history: "none", "torn" (at the end), "inside"
          tears      \* history: how many writes stopped early

vars == <<platform, exists, file, temp, process, log, damage, tears>>

----------------------------------------------------------------------------
(* Records and their cells. *)

Packets == [sequence : 1..MaxSequence, payload : Payloads]
Records == {PacketRecord(p) : p \in Packets} \cup {AckRecord(n) : n \in 1..MaxSequence}

Cell(r, part, i) == [record |-> r, part |-> part, index |-> i]

TornHeader == [part |-> "part"]

\* write_wal_record: magic, kind and length; the body; its checksum.
Cells(r) ==
    LET bodyCells == IF r.type = "PACKET" THEN PacketCells ELSE 1
    IN  <<Cell(r, "header", 0)>>
          \o [i \in 1..bodyCells |-> Cell(r, "body", i)]
          \o <<Cell(r, "checksum", 0)>>

\* What a write_wal_record that stops early can leave behind.
TornWrites(r) ==
    {<<TornHeader>>} \cup {SubSeq(Cells(r), 1, k) : k \in 1..(Len(Cells(r)) - 1)}

----------------------------------------------------------------------------
(* replay(): one scan of the file. *)

\* Mutant: the checksum is read and not compared.
ChecksumUnread(f, at, end) == TRUE

\* The cells at..end are the ones that were written for the header at `at`.
ChecksumMatches(f, at, end) == SubSeq(f, at, end) = Cells(f[at].record)

\* One turn of the loop at position s.at, after the packets s.result.pending:
\* read_exact meets the end of the file, or the magic or the checksum is wrong,
\* or the record is applied.
ReplayStep(f, s) ==
    LET stop == [s EXCEPT !.done = TRUE]
        refuse == [s EXCEPT !.done = TRUE, !.result = Failed("InvalidRecord")]
        end == s.at + Len(Cells(f[s.at].record)) - 1
        applied == ApplyRecord(s.result.pending, f[s.at].record)
    IN  IF s.at > Len(f) \/ (s.at = Len(f) /\ f[s.at] = TornHeader) THEN stop
        ELSE IF f[s.at].part # "header" THEN refuse
        ELSE IF end > Len(f) THEN stop
        ELSE IF ~ChecksumMatches(f, s.at, end) THEN refuse
        ELSE [at |-> end + 1, done |-> applied.status # "ok", result |-> applied]

replay(f) ==
    LET scan[n \in 0..(Len(f) + 1)] ==
          IF n = 0 THEN [at |-> 1, done |-> FALSE, result |-> Loaded(<<>>)]
          ELSE LET s == scan[n - 1] IN IF s.done THEN s ELSE ReplayStep(f, s)
    IN  scan[Len(f) + 1].result

\* What replay() returns; without a file it cannot be opened.
Replayed == IF exists THEN replay(file) ELSE Failed("Io")

----------------------------------------------------------------------------
(* The operations. *)

Init ==
    /\ platform \in Platforms
    /\ exists = FALSE
    /\ file = <<>>
    /\ temp = <<>>
    /\ process = "down"
    /\ log = <<>>
    /\ damage = "none"
    /\ tears = 0

\* open_with_limits: creates the file if there is none, and keeps it otherwise.
Open ==
    /\ process = "down"
    /\ process' = "open"
    /\ exists' = TRUE
    /\ UNCHANGED <<platform, file, temp, log, damage, tears>>

\* append and acknowledge, which create the file if there is none: the record
\* is written whole.  (A failing sync_data reports an error and leaves the same
\* file.)
AppendRecord(r) ==
    /\ process = "open"
    /\ Len(file) + Len(Cells(r)) <= MaxCells
    /\ exists' = TRUE
    /\ file' = file \o Cells(r)
    /\ log' = Append(log, r)
    /\ damage' = IF damage = "none" THEN "none" ELSE "inside"
    /\ UNCHANGED <<platform, temp, process, tears>>

\* append and acknowledge: the write stops early, with an error the process
\* survives or because it dies.
AppendTorn(r) ==
    /\ process = "open"
    /\ tears < MaxTears
    /\ tears' = tears + 1
    /\ exists' = TRUE
    /\ \E cells \in TornWrites(r) :
          /\ Len(file) + Len(cells) <= MaxCells
          /\ file' = file \o cells
    /\ damage' = IF damage = "none" THEN "torn" ELSE "inside"
    /\ process' \in {"open", "down"}
    /\ UNCHANGED <<platform, temp, log>>

\* compact() on the packets replay() just returned, up to the sync of the
\* temporary file.
CompactWrite ==
    /\ process = "open"
    /\ Replayed.status = "ok"
    /\ temp' = FlattenSeq([i \in DOMAIN Replayed.pending |->
                            Cells(PacketRecord(Replayed.pending[i]))])
    /\ process' = "renaming"
    /\ UNCHANGED <<platform, exists, file, log, damage, tears>>

\* Mutant: compact() writes in place, without a temporary file.
CompactWriteFailsInPlace ==
    /\ process = "open"
    /\ tears < MaxTears
    /\ tears' = tears + 1
    /\ Replayed.status = "ok"
    /\ Replayed.pending # <<>>
    /\ file' \in TornWrites(PacketRecord(Replayed.pending[1]))
    /\ process' \in {"open", "down"}
    /\ UNCHANGED <<platform, exists, temp, log, damage>>

\* compact() stops while it writes the temporary file; the log is untouched.
CompactWriteFails ==
    /\ process = "open"
    /\ tears < MaxTears
    /\ tears' = tears + 1
    /\ Replayed.status = "ok"
    /\ Replayed.pending # <<>>
    /\ process' \in {"open", "down"}
    /\ UNCHANGED <<platform, exists, file, temp, log, damage>>

\* The temporary file becomes the log.
Renamed ==
    /\ exists' = TRUE
    /\ file' = temp
    /\ temp' = <<>>
    /\ log' = [i \in DOMAIN replay(temp).pending |-> PacketRecord(replay(temp).pending[i])]
    /\ damage' = "none"
    /\ process' = "open"
    /\ UNCHANGED <<platform, tears>>

\* compact(): the rename replaces the log in one step.
CompactRename == process = "renaming" /\ Renamed

\* The rename fails, or on Windows the removal after it: compact() returns the
\* error and the log is untouched.
CompactRenameFails ==
    /\ process = "renaming"
    /\ process' = "open"
    /\ temp' = <<>>
    /\ UNCHANGED <<platform, exists, file, log, damage, tears>>

\* Windows: the rename fails with AlreadyExists and the log is removed.
CompactRemove ==
    /\ process = "renaming" /\ platform = "windows"
    /\ process' = "removed"
    /\ exists' = FALSE /\ file' = <<>>
    /\ UNCHANGED <<platform, temp, log, damage, tears>>

\* Windows: with the log out of the way, the second rename.
CompactRenameAgain == process = "removed" /\ Renamed

\* What happens to the history when the log is gone for good.
LogGone ==
    IF process = "removed" THEN log' = <<>> /\ damage' = "none" ELSE UNCHANGED <<log, damage>>

\* Windows: the second rename fails too.  compact() returns the error and
\* leaves no log; the next append starts a new one.
CompactRenameAgainFails ==
    /\ process = "removed"
    /\ process' = "open"
    /\ temp' = <<>>
    /\ LogGone
    /\ UNCHANGED <<platform, exists, file, tears>>

\* Nothing reads the temporary file after a restart.
Crash ==
    /\ process # "down"
    /\ process' = "down"
    /\ temp' = <<>>
    /\ LogGone
    /\ UNCHANGED <<platform, exists, file, tears>>

Next ==
    \/ Open
    \/ \E r \in Records : AppendRecord(r) \/ AppendTorn(r)
    \/ CompactWrite
    \/ CompactWriteFails
    \/ CompactRename
    \/ CompactRenameFails
    \/ CompactRemove
    \/ CompactRenameAgain
    \/ CompactRenameAgainFails
    \/ Crash

Spec == Init /\ [][Next]_vars

----------------------------------------------------------------------------
(* What a log promises, stated without a scan. *)

\* The positions from which a packet numbered n is still pending: no later
\* acknowledgement covers it.
LiveAt(records, n) ==
    {i \in DOMAIN records :
       /\ records[i].type = "PACKET" /\ records[i].packet.sequence = n
       /\ \A j \in i..Len(records) : records[j].type = "ACK" => records[j].sequence < n}

LiveNumbers(records) == {n \in 1..MaxSequence : LiveAt(records, n) # {}}

\* p lists the pending packets: the last payload written for each number, in
\* the order in which the numbers became pending.
IsPendingOf(p, records) ==
    /\ Len(p) = Cardinality(LiveNumbers(records))
    /\ \A i \in DOMAIN p :
          /\ p[i].sequence \in LiveNumbers(records)
          /\ p[i] = records[Max(LiveAt(records, p[i].sequence))].packet
    /\ \A i, j \in DOMAIN p :
          i < j => Min(LiveAt(records, p[i].sequence)) < Min(LiveAt(records, p[j].sequence))

Overflows(records) ==
    \E k \in DOMAIN records : Cardinality(LiveNumbers(SubSeq(records, 1, k))) > MaxRecords

(***************************************************************************)
(* A crash during an append costs that record and nothing else: as long as *)
(* nothing was appended after a torn record, replay (sync.rs 209-280)      *)
(* returns exactly the pending packets of the whole records, in order, and *)
(* refuses the log only when it once held more than max_records packets.   *)
(***************************************************************************)
TornTailIsIgnored ==
    exists /\ damage # "inside" =>
      IF Overflows(log)
      THEN Replayed.status = "TooManyRecords"
      ELSE Replayed.status = "ok" /\ IsPendingOf(Replayed.pending, log)

(***************************************************************************)
(* Whatever was torn and wherever, a replay that succeeds returns a state  *)
(* the log really went through: it never invents, mixes or resurrects      *)
(* packets, and never returns more than max_records.                       *)
(***************************************************************************)
ReplayNeverInvents ==
    Replayed.status = "ok" =>
      /\ Len(Replayed.pending) <= MaxRecords
      /\ \E k \in 0..Len(log) : IsPendingOf(Replayed.pending, SubSeq(log, 1, k))

(***************************************************************************)
(* What replay returns is what the log holds, torn records included.       *)
(***************************************************************************)
ReplayIsExact == TornTailIsIgnored /\ ReplayNeverInvents

\* What the disk holds: the packets compact() will end with when the log t is
\* to replace has been removed, and otherwise what a replay of the log f returns.
OnDisk(p, e, f, t) ==
    IF p = "removed" THEN replay(t) ELSE IF e THEN replay(f) ELSE Failed("Io")

(***************************************************************************)
(* compact (sync.rs 285-321) never changes what a replay returns, whether  *)
(* it completes, fails or is cut short, up to the removal of the log that  *)
(* it falls back on under Windows.  Between that and the second rename the *)
(* packets are kept in the temporary file alone: when the rename succeeds  *)
(* they are all there, and when it fails, or the process stops there,      *)
(* every one of them is lost, and the log is empty or absent.  The other   *)
(* steps that change what a replay returns are appends and the creation of *)
(* the file.                                                               *)
(***************************************************************************)
CompactionIsTransparent ==
    [][\/ OnDisk(process', exists', file', temp') = OnDisk(process, exists, file, temp)
       \/ process = "open" /\ (log' # log \/ damage' = "inside")
       \/ process \in {"down", "open"} /\ ~exists
       \/ process = "removed" /\ ~exists' /\ platform = "windows"]_vars

(***************************************************************************)
(* "Crash-tolerant append-only queue": a log whose records fit its bound   *)
(* replays to the packets that were appended and not acknowledged.         *)
(***************************************************************************)
CrashTolerant ==
    exists /\ ~Overflows(log) =>
      Replayed.status = "ok" /\ IsPendingOf(Replayed.pending, log)
=============================================================================
