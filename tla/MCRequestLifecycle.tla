-------------------------- MODULE MCRequestLifecycle --------------------------
(* RequestLifecycle for TLC.                                                *)
EXTENDS RequestLifecycle
===============================================================================
