---------------------------- MODULE MCDetailScreen ----------------------------
(* DetailScreen for TLC.                                                    *)
EXTENDS DetailScreen
===============================================================================
