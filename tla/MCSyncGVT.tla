----------------------------- MODULE MCSyncGVT -----------------------------
(***************************************************************************)
(* SyncGVT on two PEs.  MaxCopies and MaxEmit keep the messages in flight  *)
(* finite; they bound how many events are under way at once, not how often *)
(* PEs stop, resume, balance and compute a GVT.                            *)
(***************************************************************************)
EXTENDS SyncGVT
=============================================================================
