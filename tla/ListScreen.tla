------------------------------ MODULE ListScreen ------------------------------
(***************************************************************************)
(* The list screen of the app: ListViewController with the part of Network *)
(* it drives, the DispatchGroup of each reloadData, and the main queue on  *)
(* which every handler, notification and user interaction runs.            *)
(*                                                                         *)
(* A load is one call of reloadData, numbered in the order of the calls.   *)
(* Its stages are                                                          *)
(*   unused      not called yet                                            *)
(*   dispatched  the block waits on the background queue         (line 61) *)
(*   asking      askstoriesItemsIds is on the network            (line 62) *)
(*   answered    its success closure is on the main queue                  *)
(*   refused     its failure closure is on the main queue                  *)
(*   gathering   the group waits for the items               (lines 63-74) *)
(*   publishing  the notify block is on the main queue           (line 75) *)
(*   alerting    the alert block is on the main queue            (line 80) *)
(*   done        the completion closure was called                         *)
(* The ids a load was given are a set: the loop of lines 65-74 issues all  *)
(* requests in one block of the main thread, so their order is not seen.   *)
(***************************************************************************)
EXTENDS Naturals, FiniteSets, SequencesExt

CONSTANTS MaxLoads,  \* bound: calls of reloadData that a behaviour makes
          Ids,       \* ids of the items of the service
          NoItem     \* DetailViewController.item when there is no detail screen

ASSUME MaxLoadsAssumption == MaxLoads \in Nat
ASSUME IdsAssumption == IsFiniteSet(Ids)
ASSUME NoItemAssumption == NoItem \notin Ids

Loads == 1..MaxLoads

VARIABLES
  screen,        \* what is on screen: the splash, the list or a detail
  detailItem,    \* the item handed over to the detail screen
  items,         \* ListViewController.items
  loadingItems,  \* ListViewController.loadingItems
  table,         \* the layout UITableView read at the last reloadData
  refreshing,    \* whether the UIRefreshControl spins
  alert,         \* whether the error alert is presented
  main,          \* the blocks waiting on DispatchQueue.main, first in first out
  started,       \* how many loads were started
  kind,          \* kind[l]: who called reloadData
  stage,         \* stage[l]: how far load l is
  ids,           \* ids[l]: the itemIds load l was given
  group,         \* group[l]: enters minus leaves of the DispatchGroup of load l
  request,       \* request[l][k]: the item request of load l for id k
  array          \* array[l]: the local array of load l

vars == <<screen, detailItem, items, loadingItems, table, refreshing, alert,
          main, started, kind, stage, ids, group, request, array>>
uiVars   == <<screen, detailItem, items, loadingItems, table, refreshing, alert>>
loadVars == <<started, kind, ids, group, request, array>>

Stages == {"unused", "dispatched", "asking", "answered", "refused",
           "gathering", "publishing", "alerting", "done"}
RequestStates == {"none", "sent", "okQueued", "failedQueued", "ok", "failed"}
Jobs == {"ids", "item", "publish", "alert"}
Block == [load : Loads, job : Jobs, id : Ids \cup {NoItem}]

(* The types; in particular no group is left more often than it was entered.*)
TypeOK ==
  /\ screen \in {"splash", "list", "detail"}
  /\ detailItem \in Ids \cup {NoItem}
  /\ items \in Seq(Ids)
  /\ loadingItems \in BOOLEAN
  /\ table \in [sections : Nat, rows : {0, 1}]
  /\ refreshing \in BOOLEAN
  /\ alert \in BOOLEAN
  /\ main \in Seq(Block)
  /\ started \in 0..MaxLoads
  /\ kind \in [Loads -> {"none", "appear", "pull"}]
  /\ stage \in [Loads -> Stages]
  /\ ids \in [Loads -> SUBSET Ids]
  /\ group \in [Loads -> Nat]
  /\ request \in [Loads -> [Ids -> RequestStates]]
  /\ array \in [Loads -> Seq(Ids)]

-------------------------------------------------------------------------------
(* numberOfSections and numberOfRowsInSection, as UITableView reads them    *)
(* when it is told to reload.                                               *)
Layout(loading, list) ==
  [sections |-> IF loading THEN 1 ELSE Len(list),
   rows     |-> IF loading THEN 0 ELSE 1]

MainBlock(l, job, k) == [load |-> l, job |-> job, id |-> k]

(* What the loop of lines 65-74 adds to the group of a load given the ids S.*)
EntersOnce(S) == 1
Enters(S) == Cardinality(S)

(* What the closure of an item request takes from the group, ok or not.     *)
LeavesOnSuccess(ok) == IF ok THEN 1 ELSE 0
Leaves(ok) == 1

(* The items after the notify block: the array replaces what was shown.     *)
Replaced(old, new) == new

Init ==
  /\ screen = "splash"
  /\ detailItem = NoItem
  /\ items = <<>>
  /\ loadingItems = TRUE
  /\ table = Layout(TRUE, <<>>)
  /\ refreshing = FALSE
  /\ alert = FALSE
  /\ main = <<>>
  /\ started = 0
  /\ kind = [l \in Loads |-> "none"]
  /\ stage = [l \in Loads |-> "unused"]
  /\ ids = [l \in Loads |-> {}]
  /\ group = [l \in Loads |-> 0]
  /\ request = [l \in Loads |-> [k \in Ids |-> "none"]]
  /\ array = [l \in Loads |-> <<>>]

(* The call of reloadData: it only dispatches to the background queue.      *)
StartLoad(who) ==
  /\ started < MaxLoads
  /\ started' = started + 1
  /\ kind' = [kind EXCEPT ![started + 1] = who]
  /\ stage' = [stage EXCEPT ![started + 1] = "dispatched"]
  /\ UNCHANGED <<main, ids, group, request, array>>

-------------------------------------------------------------------------------
(* User interface events.  They run on the main thread between two blocks.  *)

(* viewWillAppear: after the splash, and each time a detail screen pops.    *)
ViewWillAppear ==
  /\ screen # "list"
  /\ screen' = "list"
  /\ detailItem' = NoItem
  /\ IF items = <<>>
       THEN StartLoad("appear")
       ELSE UNCHANGED <<started, kind, stage, main, ids, group, request, array>>
  /\ UNCHANGED <<items, loadingItems, table, refreshing, alert>>

(* pullToRefresh: a control that spins cannot be pulled again, and an alert *)
(* covers the list.                                                         *)
PullToRefresh ==
  /\ screen = "list" /\ ~alert /\ ~refreshing
  /\ refreshing' = TRUE
  /\ StartLoad("pull")
  /\ UNCHANGED <<screen, detailItem, items, loadingItems, table, alert>>

(* didSelectRowAt and prepare(for:): a cell that the table shows is tapped. *)
SelectRow(section) ==
  /\ screen = "list" /\ ~alert
  /\ table.rows = 1 /\ section \in 1..table.sections
  /\ screen' = "detail"
  /\ detailItem' = items[section]
  /\ UNCHANGED <<items, loadingItems, table, refreshing, alert, main, stage, loadVars>>

DismissAlert ==
  /\ alert
  /\ alert' = FALSE
  /\ UNCHANGED <<screen, detailItem, items, loadingItems, table, refreshing,
                 main, stage, loadVars>>

-------------------------------------------------------------------------------
(* The background queue and the network.                                    *)

(* The background block runs and askstoriesItemsIds sends its request.      *)
AskIds(l) ==
  /\ stage[l] = "dispatched"
  /\ stage' = [stage EXCEPT ![l] = "asking"]
  /\ UNCHANGED <<uiVars, main, loadVars>>

(* The response arrives: an array of ids, or a failure (transport, status,  *)
(* or a body that is not an array of integers).  Alamofire hands its        *)
(* completion handler to the main queue.                                    *)
AnswerIds(l) ==
  /\ stage[l] = "asking"
  /\ \/ /\ stage' = [stage EXCEPT ![l] = "refused"]
        /\ UNCHANGED ids
     \/ \E S \in SUBSET Ids :
          /\ stage' = [stage EXCEPT ![l] = "answered"]
          /\ ids' = [ids EXCEPT ![l] = S]
  /\ main' = Append(main, MainBlock(l, "ids", NoItem))
  /\ UNCHANGED <<uiVars, started, kind, group, request, array>>

(* The response of one item request arrives: an item, or a failure.         *)
AnswerItem(l, k) ==
  /\ request[l][k] = "sent"
  /\ \E r \in {"okQueued", "failedQueued"} :
       request' = [request EXCEPT ![l][k] = r]
  /\ main' = Append(main, MainBlock(l, "item", k))
  /\ UNCHANGED <<uiVars, stage, started, kind, ids, group, array>>

-------------------------------------------------------------------------------
(* The blocks of the main queue, run one at a time in order.                *)

Running(job) == main # <<>> /\ Head(main).job = job

(* The success closure of askstoriesItemsIds: enter the group and send one  *)
(* request per id, then notify(queue: main).  A group nobody entered        *)
(* notifies at once.                                                        *)
Gather ==
  /\ Running("ids")
  /\ LET l == Head(main).load IN
       /\ stage[l] = "answered"
       /\ request' = [request EXCEPT ![l] =
                        [k \in Ids |-> IF k \in ids[l] THEN "sent" ELSE "none"]]
       /\ group' = [group EXCEPT ![l] = Enters(ids[l])]
       /\ IF ids[l] = {}
            THEN /\ stage' = [stage EXCEPT ![l] = "publishing"]
                 /\ main' = Append(Tail(main), MainBlock(l, "publish", NoItem))
            ELSE /\ stage' = [stage EXCEPT ![l] = "gathering"]
                 /\ main' = Tail(main)
  /\ UNCHANGED <<uiVars, started, kind, ids, array>>

(* The failure closure of askstoriesItemsIds: main.async once more.         *)
RefuseIds ==
  /\ Running("ids")
  /\ LET l == Head(main).load IN
       /\ stage[l] = "refused"
       /\ stage' = [stage EXCEPT ![l] = "alerting"]
       /\ main' = Append(Tail(main), MainBlock(l, "alert", NoItem))
  /\ UNCHANGED <<uiVars, loadVars>>

(* The closures of itemById: append the item if there is one, then leave    *)
(* the group.  The leave that empties it enqueues the notify block.         *)
ItemHandler ==
  /\ Running("item")
  /\ LET l == Head(main).load
         k == Head(main).id
         ok == request[l][k] = "okQueued"
     IN  /\ array' = IF ok THEN [array EXCEPT ![l] = Append(@, k)] ELSE array
         /\ request' = [request EXCEPT ![l][k] = IF ok THEN "ok" ELSE "failed"]
         /\ group' = [group EXCEPT ![l] = @ - Leaves(ok)]
         /\ IF group'[l] = 0
              THEN /\ stage' = [stage EXCEPT ![l] = "publishing"]
                   /\ main' = Append(Tail(main), MainBlock(l, "publish", NoItem))
              ELSE /\ main' = Tail(main)
                   /\ UNCHANGED stage
  /\ UNCHANGED <<uiVars, started, kind, ids>>

(* The completion closures of viewWillAppear and of pullToRefresh.  Both    *)
(* reload the table after list became the items.                            *)
Completion(l, list) ==
  /\ stage' = [stage EXCEPT ![l] = "done"]
  /\ loadingItems' = IF kind[l] = "appear" THEN FALSE ELSE loadingItems
  /\ refreshing' = IF kind[l] = "pull" THEN FALSE ELSE refreshing
  /\ table' = Layout(loadingItems', list)

(* The notify block.                                                        *)
Publish ==
  /\ Running("publish")
  /\ LET l == Head(main).load IN
       /\ items' = Replaced(items, array[l])
       /\ Completion(l, items')
  /\ main' = Tail(main)
  /\ UNCHANGED <<screen, detailItem, alert, loadVars>>

(* The alert block.  UIKit presents nothing for a controller that is not in *)
(* the window, nor when an alert is presented already; completion runs      *)
(* either way.                                                              *)
AlertWithoutCompletion ==
  /\ Running("alert")
  /\ stage' = [stage EXCEPT ![Head(main).load] = "done"]
  /\ alert' = (alert \/ screen = "list")
  /\ main' = Tail(main)
  /\ UNCHANGED <<screen, detailItem, items, loadingItems, table, refreshing, loadVars>>
FailLoad ==
  /\ Running("alert")
  /\ Completion(Head(main).load, items)
  /\ alert' = (alert \/ screen = "list")
  /\ main' = Tail(main)
  /\ UNCHANGED <<screen, detailItem, items, loadVars>>

-------------------------------------------------------------------------------
MainQueue == Gather \/ RefuseIds \/ ItemHandler \/ Publish \/ FailLoad

User ==
  \/ ViewWillAppear
  \/ PullToRefresh
  \/ \E section \in 1..Len(items) + 1 : SelectRow(section)
  \/ DismissAlert

Network(l) == AskIds(l) \/ AnswerIds(l) \/ \E k \in Ids : AnswerItem(l, k)

Next == User \/ MainQueue \/ \E l \in Loads : Network(l)

(* The main run loop and the background queue run what they are given, and  *)
(* URLSession answers every request, with a time-out if need be.  Nothing   *)
(* is assumed of the user.                                                  *)
Fairness ==
  /\ WF_vars(MainQueue)
  /\ \A l \in Loads :
       /\ WF_vars(AskIds(l) \/ AnswerIds(l))
       /\ \A k \in Ids : WF_vars(AnswerItem(l, k))

Spec == Init /\ [][Next]_vars /\ Fairness

-------------------------------------------------------------------------------
Active(l) == stage[l] \notin {"unused", "done"}

(* The requests of load l whose handler has not run.                        *)
Outstanding(l) == {k \in Ids : request[l][k] \in {"sent", "okQueued", "failedQueued"}}

(* The items the service answered to load l and whose handler has run.      *)
Fetched(l) == {k \in Ids : request[l][k] = "ok"}

(* The enters and leaves of every DispatchGroup balance: its count is the   *)
(* number of requests whose handler is still to run, and a load is waiting  *)
(* on its group exactly while there is one (ListViewController 63-78).      *)
GroupBalanced ==
  \A l \in Loads :
    /\ group[l] = Cardinality(Outstanding(l))
    /\ stage[l] = "gathering" <=> Outstanding(l) # {}

(* The local array of a load holds each item it was answered exactly once,  *)
(* and when the notify block is queued nothing is missing: every id the     *)
(* load was given was either fetched or failed (lines 64-78).               *)
GatheredWhole ==
  \A l \in Loads :
    /\ IsInjective(array[l])
    /\ Range(array[l]) = Fetched(l)
    /\ stage[l] = "publishing" => \A k \in ids[l] : request[l][k] \in {"ok", "failed"}

(* The list shown is the whole result of one load that ended, never a part  *)
(* of one nor a mixture of two that overlapped (lines 75-78).               *)
ShownIsOneLoad ==
  items = <<>> \/ \E l \in Loads : stage[l] = "done" /\ items = array[l]

(* Every cell the table may ask for has an item: cellForRowAt and           *)
(* didSelectRowAt index items without a check (lines 108-125).              *)
CellsInBounds == table.rows = 1 => table.sections = Len(items)

(* The refresh control spins exactly while the load it started is running:  *)
(* it never spins for ever nor stops early (lines 51-56).                   *)
SpinnerTracksPull ==
  refreshing <=> \E l \in Loads : kind[l] = "pull" /\ Active(l)

(* "Loading ..." is shown only while a load that will remove it is running: *)
(* the title cannot be left behind (lines 32-38, 127-138).                  *)
LoadingNotStuck ==
  loadingItems /\ screen # "splash" => \E l \in Loads : kind[l] = "appear" /\ Active(l)

(* A block of the main queue finds its load as the code that queued it left *)
(* it, and is queued once: no closure runs twice, late or for another load. *)
Expected(b) ==
  IF b.job = "item"
    THEN b.id \in Ids /\ request[b.load][b.id] \in {"okQueued", "failedQueued"}
    ELSE /\ b.id = NoItem
         /\ \/ b.job = "ids" /\ stage[b.load] \in {"answered", "refused"}
            \/ b.job = "publish" /\ stage[b.load] = "publishing"
            \/ b.job = "alert" /\ stage[b.load] = "alerting"

HandlersRunOnce ==
  /\ \A b \in Range(main) : Expected(b)
  /\ IsInjective(main)

(* The screen as a whole, whatever loads overlap and whatever they are      *)
(* answered: what the loads of reloadData leave behind fits together, in    *)
(* the groups and arrays of the loads, on the main queue and on the screen. *)
ScreenSafe ==
  /\ GroupBalanced
  /\ GatheredWhole
  /\ HandlersRunOnce
  /\ ShownIsOneLoad
  /\ CellsInBounds
  /\ SpinnerTracksPull
  /\ LoadingNotStuck

(* The detailed screen implements ItemFeed.  In particular every call of    *)
(* reloadData that starts calls its completion, whatever the network does   *)
(* and however many loads overlap (lines 60-88).                            *)
Feed == INSTANCE ItemFeed WITH
  shown <- items,
  phase <- [l \in Loads |-> CASE stage[l] = "unused" -> "idle"
                              [] stage[l] = "done" -> "ended"
                              [] OTHER -> "running"],
  offer <- [l \in Loads |-> {k \in Ids : request[l][k] \in {"okQueued", "ok"}}]

(* Every load offers, ends once and publishes as ItemFeed promises.          *)
ImplementsFeed == Feed!Spec
===============================================================================
