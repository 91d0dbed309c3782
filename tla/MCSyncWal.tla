----------------------------- MODULE MCSyncWal -----------------------------
(* SyncWal for TLC: payloads are interchangeable. *)
EXTENDS SyncWal

PayloadSymmetry == Permutations(Payloads)
=============================================================================
