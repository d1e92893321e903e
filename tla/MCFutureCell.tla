----------------------------- MODULE MCFutureCell -----------------------------
(* FutureCell for TLC.                                                      *)
EXTENDS FutureCell
===============================================================================
