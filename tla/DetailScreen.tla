----------------------------- MODULE DetailScreen -----------------------------
(***************************************************************************)
(* The detail screen of the app: DetailViewController with the requests of *)
(* Network.itemById it makes.  Unlike the list, the loop that enters the   *)
(* DispatchGroup runs on a background thread while the handlers of the     *)
(* requests it made already run on the main queue, and notify is only      *)
(* registered after the loop: the count of the group may come back to zero *)
(* any number of times before that.                                        *)
(*                                                                         *)
(* A load is one call of reloadData, numbered in the order of the calls.   *)
(*   unused      not called yet                                            *)
(*   looping     its block is on the background queue, or in its loop      *)
(*   notifying   the loop ended, notify is registered            (line 60) *)
(*   publishing  the notify block is on the main queue                     *)
(*   done        the completion closure was called                         *)
(***************************************************************************)
EXTENDS Naturals, FiniteSets, SequencesExt

CONSTANTS MaxLoads,  \* bound: calls of reloadData that a behaviour makes
          Ids        \* ids of the items of the service

ASSUME MaxLoadsAssumption == MaxLoads \in Nat
ASSUME IdsAssumption == IsFiniteSet(Ids)

Loads == 1..MaxLoads

VARIABLES
  hasKids,      \* whether item.kids of the item handed over is not nil
  itemKids,     \* the ids in item.kids
  kids,         \* DetailViewController.kids
  loadingKids,  \* DetailViewController.loadingKids
  tableRows,    \* numberOfRowsInSection(1) when the table was last reloaded
  main,         \* the blocks waiting on DispatchQueue.main, first in first out
  started,      \* how many loads were started
  stage,        \* stage[l]: how far load l is
  group,        \* group[l]: enters minus leaves of the DispatchGroup of load l
  request,      \* request[l][k]: the item request of load l for id k
  array         \* array[l]: the local array of load l

vars == <<hasKids, itemKids, kids, loadingKids, tableRows, main, started, stage, group,
          request, array>>
uiVars == <<hasKids, itemKids, kids, loadingKids, tableRows>>

Stages == {"unused", "looping", "notifying", "publishing", "done"}
RequestStates == {"none", "sent", "okQueued", "failedQueued", "ok", "failed"}
Block == [load : Loads, job : {"item"}, id : Ids] \cup [load : Loads, job : {"publish"}]

(* The types; in particular no group is left more often than it was entered.*)
TypeOK ==
  /\ hasKids \in BOOLEAN
  /\ itemKids \in SUBSET Ids
  /\ kids \in Seq(Ids)
  /\ loadingKids \in BOOLEAN
  /\ tableRows \in Nat
  /\ main \in Seq(Block)
  /\ started \in 0..MaxLoads
  /\ stage \in [Loads -> Stages]
  /\ group \in [Loads -> Nat]
  /\ request \in [Loads -> [Ids -> RequestStates]]
  /\ array \in [Loads -> Seq(Ids)]

ItemBlock(l, k) == [load |-> l, job |-> "item", id |-> k]
PublishBlock(l) == [load |-> l, job |-> "publish"]

-------------------------------------------------------------------------------
(* prepare(for:) sets item before the screen appears.                       *)
Init ==
  /\ \/ hasKids = TRUE /\ itemKids \in SUBSET Ids
     \/ hasKids = FALSE /\ itemKids = {}
  /\ kids = <<>>
  /\ loadingKids = TRUE
  /\ tableRows = 0
  /\ main = <<>>
  /\ started = 0
  /\ stage = [l \in Loads |-> "unused"]
  /\ group = [l \in Loads |-> 0]
  /\ request = [l \in Loads |-> [k \in Ids |-> "none"]]
  /\ array = [l \in Loads |-> <<>>]

(* The completion closure of viewWillAppear, after list became the kids.    *)
Completion(list) ==
  /\ loadingKids' = FALSE
  /\ tableRows' = Len(list)

(* viewWillAppear: when the screen is pushed, and again when the user gives *)
(* up an interactive pop.  An item without kids completes at once.          *)
ViewWillAppear ==
  /\ \/ /\ kids # <<>>
        /\ UNCHANGED vars
     \/ /\ kids = <<>> /\ ~hasKids
        /\ Completion(kids)
        /\ UNCHANGED <<hasKids, itemKids, kids, main, started, stage, group, request, array>>
     \/ /\ kids = <<>> /\ hasKids
        /\ started < MaxLoads
        /\ started' = started + 1
        /\ stage' = [stage EXCEPT ![started + 1] = "looping"]
        /\ UNCHANGED <<uiVars, main, group, request, array>>

-------------------------------------------------------------------------------
(* The background thread.                                                   *)

(* group.enter().                                                           *)
EnterForgotten(count) == count
Entered(count) == count + 1

(* One turn of the loop: enter the group, send the request.                 *)
EnterNext(l) ==
  /\ stage[l] = "looping"
  /\ \E k \in itemKids :
       /\ request[l][k] = "none"
       /\ request' = [request EXCEPT ![l][k] = "sent"]
       /\ group' = [group EXCEPT ![l] = Entered(@)]
  /\ UNCHANGED <<uiVars, main, started, stage, array>>

(* notify(queue: main).  A group that is empty by then, or was never        *)
(* entered, notifies at once.                                               *)
NotifyUnchecked(l) ==
  /\ stage[l] = "looping"
  /\ stage' = [stage EXCEPT ![l] = "notifying"]
  /\ UNCHANGED <<uiVars, main, started, group, request, array>>
Notify(l) ==
  /\ stage[l] = "looping"
  /\ IF group[l] = 0
       THEN /\ stage' = [stage EXCEPT ![l] = "publishing"]
            /\ main' = Append(main, PublishBlock(l))
       ELSE stage' = [stage EXCEPT ![l] = "notifying"] /\ UNCHANGED main
  /\ UNCHANGED <<uiVars, started, group, request, array>>

(* It comes after the loop.                                                 *)
NotifyAfterLoop(l) ==
  /\ \A k \in itemKids : request[l][k] # "none"
  /\ Notify(l)

(* The response of an item request arrives: an item, or a failure.          *)
AnswerItem(l, k) ==
  /\ request[l][k] = "sent"
  /\ \E r \in {"okQueued", "failedQueued"} :
       request' = [request EXCEPT ![l][k] = r]
  /\ main' = Append(main, ItemBlock(l, k))
  /\ UNCHANGED <<uiVars, started, stage, group, array>>

-------------------------------------------------------------------------------
(* The main queue.                                                          *)

LastLeave(empty, registered) == empty /\ registered

(* The closures of itemById: append the item if there is one, then leave.   *)
(* The leave that empties a group whose notify is registered enqueues it.   *)
ItemHandler ==
  /\ main # <<>> /\ Head(main).job = "item"
  /\ LET l == Head(main).load
         k == Head(main).id
         ok == request[l][k] = "okQueued"
     IN  /\ array' = IF ok THEN [array EXCEPT ![l] = Append(@, k)] ELSE array
         /\ request' = [request EXCEPT ![l][k] = IF ok THEN "ok" ELSE "failed"]
         /\ group' = [group EXCEPT ![l] = @ - 1]
         /\ IF LastLeave(group[l] = 1, stage[l] = "notifying")
              THEN /\ stage' = [stage EXCEPT ![l] = "publishing"]
                   /\ main' = Append(Tail(main), PublishBlock(l))
              ELSE main' = Tail(main) /\ UNCHANGED stage
  /\ UNCHANGED <<uiVars, started>>

(* The kids after the notify block: the array replaces what was shown.      *)
Appended(old, new) == old \o new
Replaced(old, new) == new

(* The notify block.                                                        *)
Publish ==
  /\ main # <<>> /\ Head(main).job = "publish"
  /\ LET l == Head(main).load IN
       /\ stage' = [stage EXCEPT ![l] = "done"]
       /\ kids' = Replaced(kids, array[l])
       /\ Completion(kids')
  /\ main' = Tail(main)
  /\ UNCHANGED <<hasKids, itemKids, started, group, request, array>>

-------------------------------------------------------------------------------
MainQueue == ItemHandler \/ Publish
Background(l) == EnterNext(l) \/ NotifyAfterLoop(l)

Next ==
  \/ ViewWillAppear
  \/ MainQueue
  \/ \E l \in Loads : Background(l) \/ \E k \in Ids : AnswerItem(l, k)

(* The main run loop and the background queue run what they are given, and  *)
(* URLSession answers every request.  Nothing is assumed of the user.       *)
Fairness ==
  /\ WF_vars(MainQueue)
  /\ \A l \in Loads :
       /\ WF_vars(Background(l))
       /\ \A k \in Ids : WF_vars(AnswerItem(l, k))

Spec == Init /\ [][Next]_vars /\ Fairness

-------------------------------------------------------------------------------
(* The requests of load l whose handler has not run.                        *)
Outstanding(l) == {k \in Ids : request[l][k] \in {"sent", "okQueued", "failedQueued"}}

(* The notify block is queued only after the whole loop and every handler:  *)
(* a group that empties half way through the loop publishes nothing, and    *)
(* the array then holds each item that was answered once (lines 48-63).     *)
PublishesAfterLoop ==
  \A l \in Loads :
    /\ group[l] = Cardinality(Outstanding(l))
    /\ IsInjective(array[l])
    /\ Range(array[l]) = {k \in Ids : request[l][k] = "ok"}
    /\ stage[l] \in {"publishing", "done"} =>
         \A k \in itemKids : request[l][k] \in {"ok", "failed"}

(* A load whose notify is registered and that still waits has a request     *)
(* that will leave the group: it is never left waiting on an empty one, the *)
(* case of the last handler running between the loop and notify.            *)
NotifyNotMissed ==
  \A l \in Loads : stage[l] = "notifying" => Outstanding(l) # {}

(* The kids shown are the whole result of one load that ended.              *)
KidsAreOneLoad ==
  kids = <<>> \/ \E l \in Loads : stage[l] = "done" /\ kids = array[l]

(* Every row the table may ask for has a kid: cellForRowAt indexes kids     *)
(* without a check (line 97).                                               *)
RowsInBounds == tableRows = Len(kids)

(* The title "Loading n comments..." is shown, once a load was started,     *)
(* only while a load is running, and never again after one ended.           *)
LoadingTitleTrue ==
  started > 0 =>
    (loadingKids <=> \A l \in 1..started : stage[l] # "done")

(* The screen as a whole: the loads publish whole arrays and are never left *)
(* waiting on an empty group, and the rows and the title follow them.       *)
ScreenSafe ==
  /\ PublishesAfterLoop
  /\ NotifyNotMissed
  /\ KidsAreOneLoad
  /\ RowsInBounds
  /\ LoadingTitleTrue

(* The screen implements ItemFeed.  In particular every call of reloadData  *)
(* that starts calls its completion (lines 45-68).                          *)
Feed == INSTANCE ItemFeed WITH
  shown <- kids,
  phase <- [l \in Loads |-> CASE stage[l] = "unused" -> "idle"
                              [] stage[l] = "done" -> "ended"
                              [] OTHER -> "running"],
  offer <- [l \in Loads |-> {k \in Ids : request[l][k] \in {"okQueued", "ok"}}]

(* Every load offers, ends once and publishes as ItemFeed promises.          *)
ImplementsFeed == Feed!Spec
===============================================================================
