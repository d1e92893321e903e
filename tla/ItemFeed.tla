------------------------------- MODULE ItemFeed -------------------------------
(***************************************************************************)
(* What the two reloadData methods (ListViewController, DetailView-        *)
(* Controller) promise, without their queues, DispatchGroups or requests.  *)
(* A load is started, the service offers items to it one by one, and it    *)
(* ends once: either it replaces what the screen shows by everything that  *)
(* was offered to it, in some order, or nothing was offered and what the   *)
(* screen shows is left alone.  Every load that starts ends.               *)
(***************************************************************************)
EXTENDS Naturals, FiniteSets, SequencesExt

CONSTANTS Loads,   \* the calls of reloadData
          Ids      \* the ids of the items of the service

VARIABLES shown,   \* what the screen shows: items or kids
          phase,   \* phase[l]: how far load l is
          offer    \* offer[l]: the items the service has answered to load l

vars == <<shown, phase, offer>>

Init ==
  /\ shown = <<>>
  /\ phase = [l \in Loads |-> "idle"]
  /\ offer = [l \in Loads |-> {}]

Start(l) ==
  /\ phase[l] = "idle"
  /\ phase' = [phase EXCEPT ![l] = "running"]
  /\ UNCHANGED <<shown, offer>>

Offer(l, k) ==
  /\ phase[l] = "running"
  /\ k \notin offer[l]
  /\ offer' = [offer EXCEPT ![l] = @ \cup {k}]
  /\ UNCHANGED <<shown, phase>>

End(l) ==
  /\ phase[l] = "running"
  /\ phase' = [phase EXCEPT ![l] = "ended"]
  /\ \/ shown' \in SetToSeqs(offer[l])
     \/ offer[l] = {} /\ UNCHANGED shown
  /\ UNCHANGED offer

Next == \E l \in Loads : Start(l) \/ End(l) \/ \E k \in Ids : Offer(l, k)

Spec == Init /\ [][Next]_vars /\ \A l \in Loads : WF_vars(End(l))
===============================================================================
