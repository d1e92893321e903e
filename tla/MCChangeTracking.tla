-------------------------- MODULE MCChangeTracking --------------------------
(***************************************************************************)
(* ChangeTracking for TLC: its bounds are given in the configuration.      *)
(***************************************************************************)
EXTENDS ChangeTracking

=============================================================================
