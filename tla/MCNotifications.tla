-------------------------- MODULE MCNotifications --------------------------
(***************************************************************************)
(* Notifications for TLC: its bounds are given in the configurations.      *)
(***************************************************************************)
EXTENDS Notifications

=============================================================================
