--------------------------- MODULE MCSyncSession ---------------------------
(***************************************************************************)
(* SyncSession for TLC: its bounds are given in the configuration.         *)
(***************************************************************************)
EXTENDS SyncSession

=============================================================================
