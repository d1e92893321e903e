------------------------------- MODULE WriteOnce -------------------------------
(***************************************************************************)
(* What the caller of an asynchronous operation is promised: it gets one   *)
(* outcome, once, and it does get it.                                      *)
(***************************************************************************)
CONSTANTS Outcomes,   \* what the operation may answer
          None        \* no answer yet

VARIABLE outcome

Init == outcome = None
Settle == outcome = None /\ outcome' \in Outcomes
Spec == Init /\ [][Settle]_outcome /\ WF_outcome(Settle)
===============================================================================
