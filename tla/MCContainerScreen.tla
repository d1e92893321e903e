--------------------------- MODULE MCContainerScreen ---------------------------
(* ContainerScreen for TLC.                                                 *)
EXTENDS ContainerScreen
===============================================================================
