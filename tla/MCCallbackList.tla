--------------------------- MODULE MCCallbackList ---------------------------
(***************************************************************************)
(* CallbackList for TLC: its bounds are given in the configurations.       *)
(***************************************************************************)
EXTENDS CallbackList

=============================================================================
