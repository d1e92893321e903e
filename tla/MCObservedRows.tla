--------------------------- MODULE MCObservedRows ---------------------------
(***************************************************************************)
(* ObservedRows for TLC: its bounds are given in the configurations.       *)
(***************************************************************************)
EXTENDS ObservedRows

=============================================================================
