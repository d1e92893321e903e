----------------------------- MODULE MCListScreen -----------------------------
(* ListScreen for TLC.                                                      *)
EXTENDS ListScreen
===============================================================================
