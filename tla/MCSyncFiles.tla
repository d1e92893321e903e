---------------------------- MODULE MCSyncFiles ----------------------------
(***************************************************************************)
(* SyncFiles for TLC: its bounds are given in the configuration.           *)
(***************************************************************************)
EXTENDS SyncFiles, TLC

\* Recovery names and tokens are only compared with each other.
Symmetry == Permutations(Names) \cup Permutations(Tokens)

=============================================================================
