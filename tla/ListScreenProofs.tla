--------------------------- MODULE ListScreenProofs ---------------------------
(***************************************************************************)
(* The safety of the list screen for any number of loads and any finite    *)
(* set of items.                                                           *)
(***************************************************************************)
EXTENDS ListScreen, FiniteSetTheorems, TLAPS

(* A load is unused until it is started, in the order of the calls.         *)
StartedInOrder ==
  \A l \in Loads : /\ stage[l] = "unused" <=> l > started
                   /\ kind[l] = "none" <=> stage[l] = "unused"

(* Requests are made for the ids of the load, all of them at once.          *)
RequestsFollowIds ==
  \A l \in Loads :
    /\ ids[l] # {} => stage[l] \in {"answered", "gathering", "publishing", "done"}
    /\ \A k \in Ids : request[l][k] = "none" <=> k \notin ids[l] \/ stage[l] = "answered"

(* The refresh control runs one load at a time.                             *)
OnePull ==
  \A l, m \in Loads :
    kind[l] = "pull" /\ Active(l) /\ kind[m] = "pull" /\ Active(m) => l = m

NothingBeforeTheList == screen = "splash" => started = 0 /\ items = <<>>

IndInv ==
  /\ TypeOK
  /\ StartedInOrder
  /\ RequestsFollowIds
  /\ HandlersRunOnce
  /\ GroupBalanced
  /\ GatheredWhole
  /\ ShownIsOneLoad
  /\ CellsInBounds
  /\ OnePull
  /\ SpinnerTracksPull
  /\ NothingBeforeTheList
  /\ LoadingNotStuck
-------------------------------------------------------------------------------
(* Sequences without repetition: what Head takes off and Append adds.       *)
LEMMA EmptySeqFacts ==
  ASSUME NEW S
  PROVE  <<>> \in Seq(S) /\ IsInjective(<<>>) /\ Range(<<>>) = {}
  BY DEF IsInjective, Range

LEMMA HeadFacts ==
  ASSUME NEW S, NEW q \in Seq(S), q # <<>>
  PROVE  Head(q) \in S /\ Head(q) \in Range(q) /\ Tail(q) \in Seq(S)
  BY DEF Range

LEMMA TailFacts ==
  ASSUME NEW S, NEW q \in Seq(S), q # <<>>, IsInjective(q)
  PROVE  IsInjective(Tail(q)) /\ Range(Tail(q)) = Range(q) \ {Head(q)}
  <1>1. /\ Len(q) \in Nat /\ Len(q) > 0 /\ DOMAIN q = 1..Len(q) /\ Head(q) = q[1]
        /\ Len(Tail(q)) = Len(q) - 1 /\ DOMAIN Tail(q) = 1..(Len(q) - 1)
        /\ \A i \in 1..(Len(q) - 1) : Tail(q)[i] = q[i + 1]
    OBVIOUS
  <1>2. IsInjective(Tail(q))
    BY <1>1 DEF IsInjective
  <1>3. ASSUME NEW x \in Range(Tail(q)) PROVE x \in Range(q) \ {Head(q)}
    BY <1>1, <1>3 DEF IsInjective, Range
  <1>4. ASSUME NEW x \in Range(q) \ {Head(q)} PROVE x \in Range(Tail(q))
    <2>1. PICK i \in 1..Len(q) : x = q[i]
      BY <1>1 DEF Range
    <2>2. i # 1 /\ i - 1 \in 1..(Len(q) - 1) /\ Tail(q)[i - 1] = q[i]
      BY <2>1, <1>1
    <2>3. QED
      BY <2>1, <2>2, <1>1 DEF Range
  <1>5. QED
    BY <1>2, <1>3, <1>4

LEMMA AppendFacts ==
  ASSUME NEW S, NEW q \in Seq(S), NEW b \in S
  PROVE  /\ Append(q, b) \in Seq(S)
         /\ Range(Append(q, b)) = Range(q) \cup {b}
         /\ IsInjective(q) /\ b \notin Range(q) => IsInjective(Append(q, b))
  <1>1. /\ Len(q) \in Nat /\ DOMAIN q = 1..Len(q)
        /\ DOMAIN Append(q, b) = 1..(Len(q) + 1)
        /\ \A i \in 1..Len(q) : Append(q, b)[i] = q[i]
        /\ Append(q, b)[Len(q) + 1] = b
    OBVIOUS
  <1>2. Range(Append(q, b)) = Range(q) \cup {b}
    <2>1. ASSUME NEW x \in Range(Append(q, b)) PROVE x \in Range(q) \cup {b}
      BY <1>1 DEF Range
    <2>2. ASSUME NEW x \in Range(q) \cup {b} PROVE x \in Range(Append(q, b))
      BY <1>1 DEF Range
    <2>3. QED
      BY <2>1, <2>2
  <1>3. IsInjective(q) /\ b \notin Range(q) => IsInjective(Append(q, b))
    BY <1>1 DEF IsInjective, Range
  <1>4. QED
    BY <1>2, <1>3
-------------------------------------------------------------------------------
LEMMA InitIndInv == Init => IndInv
  <1> SUFFICES ASSUME Init PROVE IndInv
    OBVIOUS
  <1>1. TypeOK
    <2>1. <<>> \in Seq(Ids) /\ <<>> \in Seq(Block)
      BY EmptySeqFacts
    <2>2. table \in [sections : Nat, rows : {0, 1}] /\ started \in 0..MaxLoads
      BY MaxLoadsAssumption DEF Init, Layout
    <2>3. QED
      BY <2>1, <2>2 DEF Init, TypeOK, Stages, RequestStates
  <1>2. StartedInOrder /\ RequestsFollowIds /\ OnePull /\ SpinnerTracksPull
    BY DEF Init, StartedInOrder, RequestsFollowIds, OnePull, SpinnerTracksPull, Active, Loads
  <1>3. HandlersRunOnce
    BY EmptySeqFacts DEF Init, HandlersRunOnce
  <1>4. GroupBalanced
    BY FS_EmptySet DEF Init, GroupBalanced, Outstanding
  <1>5. GatheredWhole
    BY EmptySeqFacts DEF Init, GatheredWhole, Fetched
  <1>6. ShownIsOneLoad /\ CellsInBounds /\ NothingBeforeTheList /\ LoadingNotStuck
    BY DEF Init, ShownIsOneLoad, CellsInBounds, NothingBeforeTheList, LoadingNotStuck, Layout
  <1>7. QED
    BY <1>1, <1>2, <1>3, <1>4, <1>5, <1>6 DEF IndInv

(* Calling reloadData disturbs neither the loads that run nor the queue.    *)
LEMMA StartLoadKeeps ==
  ASSUME IndInv, NEW who \in {"appear", "pull"}, StartLoad(who)
  PROVE  /\ started' \in 0..MaxLoads /\ stage' \in [Loads -> Stages]
         /\ kind' \in [Loads -> {"none", "appear", "pull"}]
         /\ StartedInOrder' /\ RequestsFollowIds' /\ HandlersRunOnce'
         /\ GroupBalanced' /\ GatheredWhole'
  <1> DEFINE n == started + 1
  <1> USE DEF IndInv
  <1>1. /\ n \in Loads /\ stage[n] = "unused" /\ kind[n] = "none"
        /\ stage' = [stage EXCEPT ![n] = "dispatched"]
        /\ kind' = [kind EXCEPT ![n] = who]
        /\ started' = n /\ n \in 0..MaxLoads
        /\ UNCHANGED <<main, ids, group, request, array>>
    BY MaxLoadsAssumption DEF StartLoad, StartedInOrder, TypeOK, Loads
  <1>2. started' \in 0..MaxLoads /\ stage' \in [Loads -> Stages]
        /\ kind' \in [Loads -> {"none", "appear", "pull"}]
    BY <1>1 DEF TypeOK, Stages
  <1>3. StartedInOrder'
    BY <1>1, MaxLoadsAssumption DEF StartedInOrder, TypeOK, Loads
  <1>4. RequestsFollowIds'
    BY <1>1 DEF RequestsFollowIds, TypeOK
  <1>5. HandlersRunOnce'
    <2>1. ASSUME NEW b \in Range(main) PROVE Expected(b)'
      <3>1. b \in Block /\ Expected(b)
        BY DEF HandlersRunOnce, Range, TypeOK
      <3>2. QED
        BY <3>1, <1>1 DEF Expected, TypeOK, Block
    <2>2. QED
      BY <2>1, <1>1 DEF HandlersRunOnce
  <1>6. GroupBalanced' /\ GatheredWhole'
    <2>1. ASSUME NEW l \in Loads
          PROVE  Outstanding(l)' = Outstanding(l) /\ Fetched(l)' = Fetched(l)
      BY <1>1 DEF Outstanding, Fetched
    <2>2. ASSUME NEW l \in Loads
          PROVE  /\ stage'[l] = "gathering" <=> stage[l] = "gathering"
                 /\ stage'[l] = "publishing" <=> stage[l] = "publishing"
      BY <1>1 DEF TypeOK
    <2>3. QED
      BY <2>1, <2>2, <1>1 DEF GroupBalanced, GatheredWhole
  <1>7. QED
    BY <1>2, <1>3, <1>4, <1>5, <1>6
-------------------------------------------------------------------------------
(* The main queue keeps its promise when a block is queued, run, or run and *)
(* followed by another one.                                                 *)
LEMMA Enqueue ==
  ASSUME TypeOK, HandlersRunOnce, NEW nb \in Block, ~Expected(nb), Expected(nb)',
         main' = Append(main, nb), \A b \in Block : Expected(b) => Expected(b)'
  PROVE  main' \in Seq(Block) /\ HandlersRunOnce'
  <1>1. main \in Seq(Block) /\ Range(main) \subseteq Block /\ IsInjective(main)
        /\ \A b \in Range(main) : Expected(b)
    BY DEF TypeOK, HandlersRunOnce, Range
  <1>2. main' \in Seq(Block) /\ Range(main') = Range(main) \cup {nb} /\ IsInjective(main')
    <2>1. nb \notin Range(main)
      BY <1>1
    <2>2. QED
      BY <1>1, <2>1, AppendFacts
  <1>3. QED
    BY <1>1, <1>2 DEF HandlersRunOnce

LEMMA Dequeue ==
  ASSUME TypeOK, HandlersRunOnce, main # <<>>, main' = Tail(main),
         \A b \in Block : b # Head(main) /\ Expected(b) => Expected(b)'
  PROVE  main' \in Seq(Block) /\ HandlersRunOnce'
  <1>1. main \in Seq(Block) /\ Range(main) \subseteq Block /\ IsInjective(main)
        /\ \A b \in Range(main) : Expected(b)
    BY DEF TypeOK, HandlersRunOnce, Range
  <1>2. main' \in Seq(Block) /\ Range(main') = Range(main) \ {Head(main)} /\ IsInjective(main')
    BY <1>1, HeadFacts, TailFacts
  <1>3. QED
    BY <1>1, <1>2 DEF HandlersRunOnce

LEMMA Requeue ==
  ASSUME TypeOK, HandlersRunOnce, main # <<>>,
         NEW nb \in Block, ~Expected(nb), Expected(nb)', main' = Append(Tail(main), nb),
         \A b \in Block : b # Head(main) /\ Expected(b) => Expected(b)'
  PROVE  main' \in Seq(Block) /\ HandlersRunOnce'
  <1>1. main \in Seq(Block) /\ Range(main) \subseteq Block /\ IsInjective(main)
        /\ \A b \in Range(main) : Expected(b)
    BY DEF TypeOK, HandlersRunOnce, Range
  <1>2. /\ Tail(main) \in Seq(Block) /\ IsInjective(Tail(main))
        /\ Range(Tail(main)) = Range(main) \ {Head(main)}
    BY <1>1, HeadFacts, TailFacts
  <1>3. main' \in Seq(Block) /\ Range(main') = Range(Tail(main)) \cup {nb} /\ IsInjective(main')
    <2>1. nb \notin Range(Tail(main))
      BY <1>1, <1>2
    <2>2. ASSUME NEW q \in Seq(Block), q = Tail(main)
          PROVE  /\ Append(q, nb) \in Seq(Block)
                 /\ Range(Append(q, nb)) = Range(q) \cup {nb}
                 /\ IsInjective(q) /\ nb \notin Range(q) => IsInjective(Append(q, nb))
      BY AppendFacts
    <2>3. QED
      BY <1>2, <2>1, <2>2
  <1>4. QED
    BY <1>1, <1>2, <1>3 DEF HandlersRunOnce

(* The block at the head of the queue.                                      *)
LEMMA HeadExpected ==
  ASSUME IndInv, main # <<>>
  PROVE  Head(main) \in Block /\ Expected(Head(main))
  BY HeadFacts DEF IndInv, TypeOK, HandlersRunOnce

(* Loads whose requests and array a step leaves alone, and whose stage      *)
(* neither enters nor leaves the wait for the group.                        *)
LEMMA GroupsKept ==
  ASSUME IndInv, UNCHANGED <<ids, group, request, array>>,
         \A l \in Loads : /\ stage'[l] = "gathering" <=> stage[l] = "gathering"
                          /\ stage'[l] = "publishing" => stage[l] = "publishing"
  PROVE  GroupBalanced' /\ GatheredWhole'
  <1>1. ASSUME NEW l \in Loads
        PROVE  Outstanding(l)' = Outstanding(l) /\ Fetched(l)' = Fetched(l)
    BY DEF Outstanding, Fetched
  <1>2. QED
    BY <1>1 DEF IndInv, GroupBalanced, GatheredWhole

(* The requests of a load are finitely many.                                *)
LEMMA OutstandingFinite ==
  ASSUME NEW l \in Loads
  PROVE  IsFiniteSet(Outstanding(l)) /\ Cardinality(Outstanding(l)) \in Nat
  BY IdsAssumption, FS_Subset, FS_CardinalityType DEF Outstanding

-------------------------------------------------------------------------------
LEMMA ViewWillAppearStep == IndInv /\ ViewWillAppear => IndInv'
  <1> SUFFICES ASSUME IndInv, ViewWillAppear PROVE IndInv'
    OBVIOUS
  <1> USE DEF IndInv
  <1>1. CASE items = <<>>
    <2>1. StartLoad("appear") /\ screen' = "list" /\ detailItem' = NoItem
          /\ UNCHANGED <<items, loadingItems, table, refreshing, alert>>
      BY <1>1 DEF ViewWillAppear
    <2>2. /\ started' \in 0..MaxLoads /\ stage' \in [Loads -> Stages]
          /\ kind' \in [Loads -> {"none", "appear", "pull"}]
          /\ StartedInOrder' /\ RequestsFollowIds' /\ HandlersRunOnce'
          /\ GroupBalanced' /\ GatheredWhole'
      BY <2>1, StartLoadKeeps
    <2>3. /\ started + 1 \in Loads /\ stage[started + 1] = "unused"
          /\ kind[started + 1] = "none"
          /\ kind' = [kind EXCEPT ![started + 1] = "appear"]
          /\ stage' = [stage EXCEPT ![started + 1] = "dispatched"]
          /\ UNCHANGED <<main, ids, group, request, array>>
      BY <2>1, MaxLoadsAssumption DEF StartLoad, StartedInOrder, TypeOK, Loads
    <2>4. TypeOK'
      BY <2>1, <2>2, <2>3 DEF TypeOK
    <2>5. ShownIsOneLoad' /\ CellsInBounds' /\ NothingBeforeTheList'
      BY <1>1, <2>1 DEF ShownIsOneLoad, CellsInBounds, NothingBeforeTheList
    <2>6. OnePull' /\ SpinnerTracksPull'
      BY <2>1, <2>3 DEF OnePull, SpinnerTracksPull, Active, TypeOK
    <2>7. LoadingNotStuck'
      BY <2>3 DEF LoadingNotStuck, Active, TypeOK
    <2>8. QED
      BY <2>2, <2>4, <2>5, <2>6, <2>7
  <1>2. CASE items # <<>>
    <2>1. /\ screen # "splash" /\ screen' = "list" /\ detailItem' = NoItem
          /\ UNCHANGED <<items, loadingItems, table, refreshing, alert, started, kind,
                         stage, main, ids, group, request, array>>
      BY <1>2 DEF ViewWillAppear, NothingBeforeTheList
    <2>2. TypeOK' /\ StartedInOrder' /\ RequestsFollowIds' /\ HandlersRunOnce'
      BY <2>1 DEF TypeOK, StartedInOrder, RequestsFollowIds, HandlersRunOnce, Expected
    <2>3. GroupBalanced' /\ GatheredWhole'
      BY <2>1, GroupsKept
    <2>4. /\ ShownIsOneLoad' /\ CellsInBounds' /\ OnePull' /\ SpinnerTracksPull'
          /\ NothingBeforeTheList' /\ LoadingNotStuck'
      BY <2>1 DEF ShownIsOneLoad, CellsInBounds, OnePull, SpinnerTracksPull,
                  NothingBeforeTheList, LoadingNotStuck, Active
    <2>5. QED
      BY <2>2, <2>3, <2>4
  <1>3. QED
    BY <1>1, <1>2

LEMMA PullToRefreshStep == IndInv /\ PullToRefresh => IndInv'
  <1> SUFFICES ASSUME IndInv, PullToRefresh PROVE IndInv'
    OBVIOUS
  <1> USE DEF IndInv
  <1>1. StartLoad("pull") /\ ~refreshing /\ refreshing' = TRUE /\ screen = "list"
        /\ UNCHANGED <<screen, detailItem, items, loadingItems, table, alert>>
    BY DEF PullToRefresh
  <1>2. /\ started' \in 0..MaxLoads /\ stage' \in [Loads -> Stages]
        /\ kind' \in [Loads -> {"none", "appear", "pull"}]
        /\ StartedInOrder' /\ RequestsFollowIds' /\ HandlersRunOnce'
        /\ GroupBalanced' /\ GatheredWhole'
    BY <1>1, StartLoadKeeps
  <1>3. /\ started + 1 \in Loads /\ stage[started + 1] = "unused"
        /\ kind[started + 1] = "none"
        /\ kind' = [kind EXCEPT ![started + 1] = "pull"]
        /\ stage' = [stage EXCEPT ![started + 1] = "dispatched"]
        /\ UNCHANGED <<main, ids, group, request, array>>
    BY <1>1, MaxLoadsAssumption DEF StartLoad, StartedInOrder, TypeOK, Loads
  <1>4. TypeOK'
    BY <1>1, <1>2, <1>3 DEF TypeOK
  <1>5. ShownIsOneLoad'
    BY <1>1, <1>3 DEF ShownIsOneLoad, TypeOK
  <1>6. CellsInBounds' /\ NothingBeforeTheList'
    BY <1>1 DEF CellsInBounds, NothingBeforeTheList
  <1>7. OnePull' /\ SpinnerTracksPull'
    BY <1>1, <1>3 DEF OnePull, SpinnerTracksPull, Active, TypeOK
  <1>8. LoadingNotStuck'
    <2>1. ASSUME NEW l \in Loads, kind[l] = "appear", Active(l)
          PROVE  kind'[l] = "appear" /\ Active(l)'
      BY <2>1, <1>3 DEF Active, TypeOK
    <2>2. QED
      BY <2>1, <1>1 DEF LoadingNotStuck
  <1>9. QED
    BY <1>2, <1>4, <1>5, <1>6, <1>7, <1>8

(* Tapping a cell and dismissing the alert touch no load.                   *)
LEMMA TouchStep ==
  IndInv /\ (DismissAlert \/ \E section \in 1..Len(items) + 1 : SelectRow(section)) => IndInv'
  <1> SUFFICES ASSUME IndInv, DismissAlert \/ \E section \in 1..Len(items) + 1 : SelectRow(section)
               PROVE  IndInv'
    OBVIOUS
  <1> USE DEF IndInv
  <1>1. /\ UNCHANGED <<items, loadingItems, table, refreshing, main, stage, loadVars>>
        /\ alert' \in BOOLEAN
        /\ detailItem' \in Ids \cup {NoItem} /\ screen' \in {"splash", "list", "detail"}
        /\ screen' = "splash" <=> screen = "splash"
    <2>1. CASE DismissAlert
      BY <2>1 DEF DismissAlert, TypeOK
    <2>2. ASSUME NEW section \in 1..Len(items) + 1, SelectRow(section)
          PROVE  /\ UNCHANGED <<items, loadingItems, table, refreshing, alert, main, stage, loadVars>>
                 /\ screen = "list" /\ screen' = "detail" /\ detailItem' \in Ids
      <3>1. section \in 1..Len(items) /\ items \in Seq(Ids) /\ detailItem' = items[section]
        BY <2>2 DEF SelectRow, CellsInBounds, TypeOK
      <3>2. QED
        BY <2>2, <3>1 DEF SelectRow
    <2>3. QED
      BY <2>1, <2>2 DEF TypeOK
  <1>2. TypeOK' /\ StartedInOrder' /\ RequestsFollowIds' /\ HandlersRunOnce'
    BY <1>1 DEF TypeOK, StartedInOrder, RequestsFollowIds, HandlersRunOnce, Expected, loadVars
  <1>3. GroupBalanced' /\ GatheredWhole'
    BY <1>1, GroupsKept DEF loadVars
  <1>4. /\ ShownIsOneLoad' /\ CellsInBounds' /\ OnePull' /\ SpinnerTracksPull'
        /\ NothingBeforeTheList' /\ LoadingNotStuck'
    BY <1>1 DEF ShownIsOneLoad, CellsInBounds, OnePull, SpinnerTracksPull,
                NothingBeforeTheList, LoadingNotStuck, Active, loadVars
  <1>5. QED
    BY <1>2, <1>3, <1>4
-------------------------------------------------------------------------------
(* A step of one load that moves it between two stages before its group     *)
(* exists, or from its failure to the alert, changes nothing on the screen. *)
LEMMA BackstageKeeps ==
  ASSUME IndInv, UNCHANGED <<uiVars, started, kind>>, NEW l \in Loads, NEW s \in Stages,
         stage' \in {stage, [stage EXCEPT ![l] = s]}, Active(l), s \notin {"unused", "done"},
         UNCHANGED array
  PROVE  /\ stage' \in [Loads -> Stages]
         /\ StartedInOrder' /\ ShownIsOneLoad' /\ CellsInBounds' /\ OnePull'
         /\ SpinnerTracksPull' /\ NothingBeforeTheList' /\ LoadingNotStuck'
  <1> USE DEF IndInv
  <1>1. stage' \in [Loads -> Stages]
    BY DEF TypeOK
  <1>2. \A m \in Loads : /\ stage'[m] = "unused" <=> stage[m] = "unused"
                         /\ stage'[m] = "done" <=> stage[m] = "done"
                         /\ Active(m)' <=> Active(m)
    BY DEF Active, TypeOK
  <1>3. StartedInOrder'
    BY <1>2 DEF StartedInOrder
  <1>4. ShownIsOneLoad' /\ CellsInBounds' /\ NothingBeforeTheList'
    BY <1>2 DEF uiVars, ShownIsOneLoad, CellsInBounds, NothingBeforeTheList
  <1>5. OnePull' /\ SpinnerTracksPull' /\ LoadingNotStuck'
    BY <1>2 DEF uiVars, OnePull, SpinnerTracksPull, LoadingNotStuck
  <1>6. QED
    BY <1>1, <1>3, <1>4, <1>5

LEMMA AskIdsStep == ASSUME NEW l \in Loads PROVE IndInv /\ AskIds(l) => IndInv'
  <1> SUFFICES ASSUME IndInv, AskIds(l) PROVE IndInv'
    OBVIOUS
  <1> USE DEF IndInv
  <1>1. /\ stage[l] = "dispatched" /\ stage' = [stage EXCEPT ![l] = "asking"]
        /\ UNCHANGED <<uiVars, main, started, kind, ids, group, request, array>>
    BY DEF AskIds, loadVars
  <1>2. /\ stage' \in [Loads -> Stages]
        /\ StartedInOrder' /\ ShownIsOneLoad' /\ CellsInBounds' /\ OnePull'
        /\ SpinnerTracksPull' /\ NothingBeforeTheList' /\ LoadingNotStuck'
    BY <1>1, BackstageKeeps DEF Active, Stages
  <1>3. TypeOK'
    BY <1>1, <1>2 DEF TypeOK, uiVars
  <1>4. RequestsFollowIds'
    BY <1>1 DEF RequestsFollowIds, TypeOK
  <1>5. HandlersRunOnce'
    <2>1. ASSUME NEW b \in Block, Expected(b) PROVE Expected(b)'
      BY <2>1, <1>1 DEF Expected, Block, TypeOK
    <2>2. Range(main) \subseteq Block
      BY DEF TypeOK, Range
    <2>3. QED
      BY <1>1, <2>1, <2>2 DEF HandlersRunOnce
  <1>6. GroupBalanced' /\ GatheredWhole'
    <2>1. \A m \in Loads : /\ stage'[m] = "gathering" <=> stage[m] = "gathering"
                           /\ stage'[m] = "publishing" => stage[m] = "publishing"
      BY <1>1 DEF TypeOK
    <2>2. QED
      BY <1>1, <2>1, GroupsKept
  <1>7. QED
    BY <1>2, <1>3, <1>4, <1>5, <1>6

LEMMA AnswerIdsStep == ASSUME NEW l \in Loads PROVE IndInv /\ AnswerIds(l) => IndInv'
  <1> SUFFICES ASSUME IndInv, AnswerIds(l) PROVE IndInv'
    OBVIOUS
  <1> DEFINE nb == MainBlock(l, "ids", NoItem)
  <1> USE DEF IndInv
  <1>1. PICK s \in {"answered", "refused"} :
          /\ stage[l] = "asking" /\ stage' = [stage EXCEPT ![l] = s]
          /\ \E S \in SUBSET Ids : ids' = [ids EXCEPT ![l] = S]
          /\ s = "refused" => ids' = ids
          /\ main' = Append(main, nb)
          /\ UNCHANGED <<uiVars, started, kind, group, request, array>>
    <2>1. ids = [ids EXCEPT ![l] = ids[l]] /\ ids[l] \in SUBSET Ids
      BY DEF TypeOK
    <2>2. QED
      BY <2>1 DEF AnswerIds
  <1>2. /\ stage' \in [Loads -> Stages]
        /\ StartedInOrder' /\ ShownIsOneLoad' /\ CellsInBounds' /\ OnePull'
        /\ SpinnerTracksPull' /\ NothingBeforeTheList' /\ LoadingNotStuck'
    BY <1>1, BackstageKeeps DEF Active, Stages
  <1>3. main' \in Seq(Block) /\ HandlersRunOnce'
    <2>1. nb \in Block /\ ~Expected(nb) /\ Expected(nb)'
      BY <1>1 DEF Block, Expected, MainBlock, Jobs, TypeOK
    <2>2. ASSUME NEW b \in Block, Expected(b) PROVE Expected(b)'
      BY <2>2, <1>1 DEF Expected, Block, TypeOK
    <2>3. QED
      BY <1>1, <2>1, <2>2, Enqueue
  <1>4. TypeOK'
    BY <1>1, <1>2, <1>3 DEF TypeOK, uiVars
  <1>5. RequestsFollowIds'
    BY <1>1 DEF RequestsFollowIds, TypeOK
  <1>6. GroupBalanced' /\ GatheredWhole'
    <2>1. ASSUME NEW m \in Loads
          PROVE  Outstanding(m)' = Outstanding(m) /\ Fetched(m)' = Fetched(m)
      BY <1>1 DEF Outstanding, Fetched
    <2>2. \A m \in Loads : /\ stage'[m] = "gathering" <=> stage[m] = "gathering"
                           /\ stage'[m] = "publishing" => stage[m] = "publishing" /\ m # l
      BY <1>1 DEF TypeOK
    <2>3. \A m \in Loads : m # l => ids'[m] = ids[m]
      BY <1>1 DEF TypeOK
    <2>4. QED
      BY <1>1, <2>1, <2>2, <2>3 DEF GroupBalanced, GatheredWhole
  <1>7. QED
    BY <1>2, <1>3, <1>4, <1>5, <1>6

LEMMA AnswerItemStep ==
  ASSUME NEW l \in Loads, NEW k \in Ids PROVE IndInv /\ AnswerItem(l, k) => IndInv'
  <1> SUFFICES ASSUME IndInv, AnswerItem(l, k) PROVE IndInv'
    OBVIOUS
  <1> DEFINE nb == MainBlock(l, "item", k)
  <1> USE DEF IndInv
  <1>1. PICK r \in {"okQueued", "failedQueued"} :
          /\ request[l][k] = "sent" /\ request' = [request EXCEPT ![l][k] = r]
          /\ main' = Append(main, nb)
          /\ UNCHANGED <<uiVars, stage, started, kind, ids, group, array>>
    BY DEF AnswerItem
  <1>2. stage[l] = "gathering"
    BY <1>1 DEF GroupBalanced, Outstanding
  <1>3. /\ StartedInOrder' /\ ShownIsOneLoad' /\ CellsInBounds' /\ OnePull'
        /\ SpinnerTracksPull' /\ NothingBeforeTheList' /\ LoadingNotStuck'
    BY <1>1, <1>2, BackstageKeeps DEF Active, Stages
  <1>4. main' \in Seq(Block) /\ HandlersRunOnce'
    <2>1. nb \in Block /\ ~Expected(nb) /\ Expected(nb)'
      BY <1>1 DEF Block, Expected, MainBlock, Jobs, TypeOK
    <2>2. ASSUME NEW b \in Block, Expected(b) PROVE Expected(b)'
      BY <2>2, <1>1 DEF Expected, Block, TypeOK
    <2>3. QED
      BY <1>1, <2>1, <2>2, Enqueue
  <1>5. TypeOK'
    BY <1>1, <1>4 DEF TypeOK, uiVars, RequestStates
  <1>6. RequestsFollowIds'
    BY <1>1 DEF RequestsFollowIds, TypeOK
  <1>7. GroupBalanced' /\ GatheredWhole'
    <2>1. ASSUME NEW m \in Loads
          PROVE  Outstanding(m)' = Outstanding(m) /\ Fetched(m)' = Fetched(m)
      BY <1>1 DEF Outstanding, Fetched, TypeOK
    <2>2. \A m \in Loads : stage'[m] = "publishing" => m # l
      BY <1>1, <1>2
    <2>3. \A m \in Loads : m # l => request'[m] = request[m]
      BY <1>1 DEF TypeOK
    <2>4. QED
      BY <1>1, <2>1, <2>2, <2>3 DEF GroupBalanced, GatheredWhole
  <1>8. QED
    BY <1>3, <1>4, <1>5, <1>6, <1>7

LEMMA RefuseIdsStep == IndInv /\ RefuseIds => IndInv'
  <1> SUFFICES ASSUME IndInv, RefuseIds PROVE IndInv'
    OBVIOUS
  <1> USE DEF IndInv
  <1>1. PICK l \in Loads :
          /\ main # <<>> /\ Head(main) \in Block /\ Expected(Head(main))
          /\ Head(main).job = "ids" /\ Head(main).load = l
          /\ stage[l] = "refused" /\ stage' = [stage EXCEPT ![l] = "alerting"]
          /\ main' = Append(Tail(main), MainBlock(l, "alert", NoItem))
          /\ UNCHANGED <<uiVars, started, kind, ids, group, request, array>>
    BY HeadExpected DEF RefuseIds, Running, loadVars, Block
  <1> DEFINE nb == MainBlock(l, "alert", NoItem)
  <1>2. /\ stage' \in [Loads -> Stages]
        /\ StartedInOrder' /\ ShownIsOneLoad' /\ CellsInBounds' /\ OnePull'
        /\ SpinnerTracksPull' /\ NothingBeforeTheList' /\ LoadingNotStuck'
    BY <1>1, BackstageKeeps DEF Active, Stages
  <1>3. main' \in Seq(Block) /\ HandlersRunOnce'
    <2>1. nb \in Block /\ ~Expected(nb) /\ Expected(nb)'
      BY <1>1 DEF Block, Expected, MainBlock, Jobs, TypeOK
    <2>2. ASSUME NEW b \in Block, b # Head(main), Expected(b) PROVE Expected(b)'
      <3>1. CASE b.load = l /\ b.job # "item"
        BY <3>1, <2>2, <1>1 DEF Expected, Block
      <3>2. CASE b.load # l \/ b.job = "item"
        BY <3>2, <2>2, <1>1 DEF Expected, Block, TypeOK
      <3>3. QED
        BY <3>1, <3>2
    <2>3. QED
      BY <1>1, <2>1, <2>2, Requeue
  <1>4. TypeOK'
    BY <1>1, <1>2, <1>3 DEF TypeOK, uiVars
  <1>5. RequestsFollowIds'
    BY <1>1 DEF RequestsFollowIds, TypeOK
  <1>6. GroupBalanced' /\ GatheredWhole'
    <2>1. \A m \in Loads : /\ stage'[m] = "gathering" <=> stage[m] = "gathering"
                           /\ stage'[m] = "publishing" => stage[m] = "publishing"
      BY <1>1 DEF TypeOK
    <2>2. QED
      BY <1>1, <2>1, GroupsKept
  <1>7. QED
    BY <1>2, <1>3, <1>4, <1>5, <1>6

LEMMA GatherStep == IndInv /\ Gather => IndInv'
  <1> SUFFICES ASSUME IndInv, Gather PROVE IndInv'
    OBVIOUS
  <1> USE DEF IndInv
  <1>1. PICK l \in Loads, s \in {"publishing", "gathering"} :
          /\ main # <<>> /\ Head(main) \in Block /\ Expected(Head(main))
          /\ Head(main).job = "ids" /\ Head(main).load = l
          /\ stage[l] = "answered" /\ stage' = [stage EXCEPT ![l] = s]
          /\ s = "publishing" <=> ids[l] = {}
          /\ request' = [request EXCEPT ![l] =
                           [k \in Ids |-> IF k \in ids[l] THEN "sent" ELSE "none"]]
          /\ group' = [group EXCEPT ![l] = Cardinality(ids[l])]
          /\ main' = IF ids[l] = {} THEN Append(Tail(main), MainBlock(l, "publish", NoItem))
                                   ELSE Tail(main)
          /\ UNCHANGED <<uiVars, started, kind, ids, array>>
    BY HeadExpected DEF Gather, Running, Block, Enters
  <1> DEFINE nb == MainBlock(l, "publish", NoItem)
  <1>2. /\ stage' \in [Loads -> Stages]
        /\ StartedInOrder' /\ ShownIsOneLoad' /\ CellsInBounds' /\ OnePull'
        /\ SpinnerTracksPull' /\ NothingBeforeTheList' /\ LoadingNotStuck'
    <2>1. s \in Stages \ {"unused", "done"} /\ Active(l)
      BY <1>1 DEF Active, Stages
    <2>2. stage' = [stage EXCEPT ![l] = s] /\ UNCHANGED <<uiVars, started, kind, array>>
      BY <1>1
    <2>3. QED
      BY <1>1, <2>1, <2>2, BackstageKeeps
  <1>3. \A k \in Ids : request[l][k] = "none"
    BY <1>1 DEF RequestsFollowIds
  <1>4. main' \in Seq(Block) /\ HandlersRunOnce'
    <2>1. ASSUME NEW b \in Block, b # Head(main), Expected(b) PROVE Expected(b)'
      <3>1. CASE b.load = l
        <4>1. b.job # "item"
          BY <3>1, <2>1, <1>3 DEF Expected
        <4>2. b.job = "ids" /\ b.id = NoItem
          BY <4>1, <3>1, <2>1, <1>1 DEF Expected
        <4>3. Head(main).id = NoItem
          BY <1>1 DEF Expected
        <4>4. b = Head(main)
          BY <4>2, <4>3, <3>1, <1>1 DEF Block
        <4>5. QED
          BY <4>4, <2>1
      <3>2. CASE b.load # l
        BY <3>2, <2>1, <1>1 DEF Expected, Block, TypeOK
      <3>3. QED
        BY <3>1, <3>2
    <2>2. CASE ids[l] = {}
      <3>1. nb \in Block /\ ~Expected(nb) /\ Expected(nb)'
        BY <1>1, <2>2 DEF Block, Expected, MainBlock, Jobs, TypeOK
      <3>2. QED
        BY <1>1, <2>2, <3>1, <2>1, Requeue
    <2>3. CASE ids[l] # {}
      BY <1>1, <2>3, <2>1, Dequeue
    <2>4. QED
      BY <2>2, <2>3
  <1>5. ids[l] \subseteq Ids /\ IsFiniteSet(ids[l]) /\ Cardinality(ids[l]) \in Nat
    BY <1>1, IdsAssumption, FS_Subset, FS_CardinalityType DEF TypeOK
  <1>6. TypeOK'
    <2>1. request' \in [Loads -> [Ids -> RequestStates]] /\ group' \in [Loads -> Nat]
      BY <1>1, <1>5 DEF TypeOK, RequestStates
    <2>2. QED
      BY <1>1, <1>2, <1>4, <2>1 DEF TypeOK, uiVars
  <1>7. RequestsFollowIds'
    BY <1>1, <1>5 DEF RequestsFollowIds, TypeOK
  <1>8. Outstanding(l)' = ids[l] /\ Fetched(l)' = {} /\ Fetched(l) = {}
    BY <1>1, <1>3, <1>5 DEF Outstanding, Fetched, TypeOK
  <1>9. ASSUME NEW m \in Loads, m # l
        PROVE  /\ Outstanding(m)' = Outstanding(m) /\ Fetched(m)' = Fetched(m)
               /\ request'[m] = request[m] /\ group'[m] = group[m] /\ stage'[m] = stage[m]
    BY <1>9, <1>1 DEF Outstanding, Fetched, TypeOK
  <1>10. GroupBalanced'
    <2>1. group'[l] = Cardinality(Outstanding(l)')
          /\ (stage'[l] = "gathering" <=> Outstanding(l)' # {})
      BY <1>1, <1>8 DEF TypeOK
    <2>2. QED
      BY <2>1, <1>9 DEF GroupBalanced
  <1>11. GatheredWhole'
    <2>1. array' = array /\ ids' = ids
      BY <1>1
    <2>2. /\ IsInjective(array'[l]) /\ Range(array'[l]) = Fetched(l)'
          /\ stage'[l] = "publishing" => ids'[l] = {}
      <3>1. stage'[l] = "publishing" => ids[l] = {}
        BY <1>1 DEF TypeOK
      <3>2. IsInjective(array[l]) /\ Range(array[l]) = Fetched(l)
        BY DEF GatheredWhole
      <3>3. QED
        BY <3>1, <3>2, <2>1, <1>8
    <2>3. ASSUME NEW m \in Loads, m # l
          PROVE  /\ IsInjective(array'[m]) /\ Range(array'[m]) = Fetched(m)'
                 /\ stage'[m] = "publishing" => \A k \in ids'[m] : request'[m][k] \in {"ok", "failed"}
      BY <2>1, <2>3, <1>9 DEF GatheredWhole
    <2>4. QED
      BY <2>2, <2>3 DEF GatheredWhole
  <1>12. QED
    BY <1>2, <1>4, <1>6, <1>7, <1>10, <1>11

LEMMA ItemHandlerStep == IndInv /\ ItemHandler => IndInv'
  <1> SUFFICES ASSUME IndInv, ItemHandler PROVE IndInv'
    OBVIOUS
  <1> USE DEF IndInv
  <1>1. PICK l \in Loads, k \in Ids, r \in {"ok", "failed"} :
          /\ main # <<>> /\ Head(main) \in Block /\ Expected(Head(main))
          /\ Head(main).job = "item" /\ Head(main).load = l /\ Head(main).id = k
          /\ request[l][k] = IF r = "ok" THEN "okQueued" ELSE "failedQueued"
          /\ array' = IF r = "ok" THEN [array EXCEPT ![l] = Append(@, k)] ELSE array
          /\ request' = [request EXCEPT ![l][k] = r]
          /\ group' = [group EXCEPT ![l] = @ - 1]
          /\ IF group'[l] = 0
               THEN /\ stage' = [stage EXCEPT ![l] = "publishing"]
                    /\ main' = Append(Tail(main), MainBlock(l, "publish", NoItem))
               ELSE main' = Tail(main) /\ UNCHANGED stage
          /\ UNCHANGED <<uiVars, started, kind, ids>>
    <2> DEFINE h == Head(main)
               ok == request[h.load][h.id] = "okQueued"
    <2>1. main # <<>> /\ h \in Block /\ Expected(h) /\ h.job = "item" /\ h.load \in Loads
          /\ h.id \in Ids /\ request[h.load][h.id] \in {"okQueued", "failedQueued"}
      BY HeadExpected DEF ItemHandler, Running, Block, Expected
    <2>2. /\ group' = [group EXCEPT ![h.load] = @ - 1]
          /\ IF group'[h.load] = 0
               THEN /\ stage' = [stage EXCEPT ![h.load] = "publishing"]
                    /\ main' = Append(Tail(main), MainBlock(h.load, "publish", NoItem))
               ELSE main' = Tail(main) /\ UNCHANGED stage
          /\ UNCHANGED <<uiVars, started, kind, ids>>
      BY DEF ItemHandler, Leaves
    <2>3. CASE ok
      <3>1. /\ request[h.load][h.id] = "okQueued" /\ array' = [array EXCEPT ![h.load] = Append(@, h.id)]
            /\ request' = [request EXCEPT ![h.load][h.id] = "ok"]
        BY <2>1, <2>3 DEF ItemHandler
      <3>2. QED
        BY <2>1, <2>2, <3>1
    <2>4. CASE ~ok
      <3>1. /\ request[h.load][h.id] = "failedQueued" /\ array' = array
            /\ request' = [request EXCEPT ![h.load][h.id] = "failed"]
        BY <2>1, <2>4 DEF ItemHandler
      <3>2. QED
        BY <2>1, <2>2, <3>1
    <2>5. QED
      BY <2>3, <2>4
  <1> DEFINE nb == MainBlock(l, "publish", NoItem)
  (* The group of l was entered for k, and l waits on it. *)
  <1>2. /\ k \in Outstanding(l) /\ stage[l] = "gathering"
        /\ Outstanding(l)' = Outstanding(l) \ {k}
        /\ \A m \in Loads : m # l => Outstanding(m)' = Outstanding(m)
    <2>1. k \in Outstanding(l) /\ stage[l] = "gathering"
      BY <1>1 DEF GroupBalanced, Outstanding
    <2>2. Outstanding(l)' = Outstanding(l) \ {k}
      BY <1>1 DEF Outstanding, TypeOK
    <2>3. ASSUME NEW m \in Loads, m # l PROVE Outstanding(m)' = Outstanding(m)
      BY <2>3, <1>1 DEF Outstanding, TypeOK
    <2>4. QED
      BY <2>1, <2>2, <2>3
  <1>3. /\ group'[l] = Cardinality(Outstanding(l)') /\ group'[l] \in Nat
        /\ group'[l] = 0 <=> Outstanding(l)' = {}
    <2>1. IsFiniteSet(Outstanding(l)) /\ Cardinality(Outstanding(l)) \in Nat
      BY OutstandingFinite
    <2>2. /\ Cardinality(Outstanding(l) \ {k}) = Cardinality(Outstanding(l)) - 1
          /\ IsFiniteSet(Outstanding(l) \ {k})
      BY <2>1, <1>2, FS_RemoveElement
    <2>3. Cardinality(Outstanding(l) \ {k}) \in Nat
          /\ (Cardinality(Outstanding(l) \ {k}) = 0 <=> Outstanding(l) \ {k} = {})
      BY <2>2, FS_CardinalityType, FS_EmptySet
    <2>4. group'[l] = group[l] - 1 /\ group[l] = Cardinality(Outstanding(l))
      BY <1>1 DEF GroupBalanced, TypeOK
    <2>5. QED
      BY <2>2, <2>3, <2>4, <1>2
  <1>4. \/ group'[l] = 0 /\ stage' = [stage EXCEPT ![l] = "publishing"]
        \/ group'[l] # 0 /\ stage' = stage
    BY <1>1
  (* The array grows by an item it did not hold. *)
  <1>5. /\ array'[l] \in Seq(Ids) /\ IsInjective(array'[l])
        /\ Range(array'[l]) = Fetched(l)'
    <2>1. array[l] \in Seq(Ids) /\ IsInjective(array[l]) /\ Range(array[l]) = Fetched(l)
      BY DEF GatheredWhole, TypeOK
    <2>2. CASE r = "ok"
      <3>1. array'[l] = Append(array[l], k) /\ k \notin Fetched(l)
        BY <2>2, <1>1 DEF Fetched, TypeOK
      <3>2. Fetched(l)' = Fetched(l) \cup {k}
        BY <2>2, <1>1 DEF Fetched, TypeOK
      <3>3. QED
        BY <2>1, <3>1, <3>2, AppendFacts
    <2>3. CASE r = "failed"
      <3>1. array'[l] = array[l] /\ Fetched(l)' = Fetched(l)
        BY <2>3, <1>1 DEF Fetched, TypeOK
      <3>2. QED
        BY <2>1, <3>1
    <2>4. QED
      BY <2>2, <2>3
  <1>6. ASSUME NEW m \in Loads, m # l
        PROVE  /\ array'[m] = array[m] /\ request'[m] = request[m] /\ group'[m] = group[m]
               /\ stage'[m] = stage[m] /\ Fetched(m)' = Fetched(m)
    BY <1>6, <1>1 DEF Fetched, TypeOK
  <1>7. \A m \in Loads : /\ stage'[m] = "unused" <=> stage[m] = "unused"
                         /\ stage'[m] = "done" <=> stage[m] = "done"
                         /\ Active(m)' <=> Active(m)
    BY <1>2, <1>4 DEF Active, TypeOK
  <1>8. TypeOK'
    <2>1. array' \in [Loads -> Seq(Ids)] /\ stage' \in [Loads -> Stages]
      BY <1>1, <1>4, <1>5 DEF TypeOK, Stages
    <2>2. request' \in [Loads -> [Ids -> RequestStates]] /\ group' \in [Loads -> Nat]
      BY <1>1, <1>3 DEF TypeOK, RequestStates
    <2>3. main' \in Seq(Block)
      <3>1. Tail(main) \in Seq(Block) /\ nb \in Block
        BY <1>1, HeadFacts DEF TypeOK, Block, MainBlock, Jobs
      <3>2. main' = Tail(main) \/ main' = Append(Tail(main), nb)
        BY <1>1
      <3>3. Append(Tail(main), nb) \in Seq(Block)
        BY <3>1, AppendFacts
      <3>4. QED
        BY <3>1, <3>2, <3>3
    <2>4. QED
      BY <2>1, <2>2, <2>3, <1>1 DEF TypeOK, uiVars
  <1>9. StartedInOrder' /\ OnePull' /\ SpinnerTracksPull' /\ NothingBeforeTheList' /\ LoadingNotStuck'
    BY <1>1, <1>7 DEF StartedInOrder, OnePull, SpinnerTracksPull, NothingBeforeTheList,
                      LoadingNotStuck, uiVars
  <1>10. ShownIsOneLoad' /\ CellsInBounds'
    <2>1. ASSUME NEW m \in Loads, stage[m] = "done" PROVE stage'[m] = "done" /\ array'[m] = array[m]
      BY <2>1, <1>2, <1>6
    <2>2. items' = items /\ table' = table
      BY <1>1 DEF uiVars
    <2>3. ShownIsOneLoad'
      BY <2>1, <2>2 DEF ShownIsOneLoad
    <2>4. CellsInBounds'
      BY <2>2 DEF CellsInBounds
    <2>5. QED
      BY <2>3, <2>4
  <1>11. RequestsFollowIds'
    BY <1>1, <1>2, <1>4 DEF RequestsFollowIds, TypeOK
  <1>12. GroupBalanced'
    <2>1. stage'[l] = "gathering" <=> Outstanding(l)' # {}
      BY <1>2, <1>3, <1>4 DEF TypeOK
    <2>2. QED
      BY <2>1, <1>2, <1>3, <1>6 DEF GroupBalanced
  <1>13. GatheredWhole'
    <2>1. stage'[l] = "publishing" => \A j \in ids[l] : request'[l][j] \in {"ok", "failed"}
      <3> SUFFICES ASSUME stage'[l] = "publishing", NEW j \in ids[l]
                   PROVE  request'[l][j] \in {"ok", "failed"}
        OBVIOUS
      <3>1. Outstanding(l)' = {} /\ j \in Ids
        BY <1>2, <1>3, <1>4 DEF TypeOK
      <3>2. request'[l][j] # "none" /\ request'[l][j] \in RequestStates
        BY <3>1, <1>1, <1>8, <1>11 DEF RequestsFollowIds, TypeOK
      <3>3. QED
        BY <3>1, <3>2 DEF Outstanding, RequestStates
    <2>2. QED
      BY <2>1, <1>1, <1>5, <1>6 DEF GatheredWhole
  <1>14. HandlersRunOnce'
    <2>1. ASSUME NEW b \in Block, b # Head(main), Expected(b) PROVE Expected(b)'
      <3>1. CASE b.job = "item"
        <4>1. ~(b.load = l /\ b.id = k)
          BY <3>1, <2>1, <1>1 DEF Block
        <4>2. QED
          BY <4>1, <3>1, <2>1, <1>1 DEF Expected, Block, TypeOK
      <3>2. CASE b.job # "item"
        BY <3>2, <2>1, <1>2, <1>6 DEF Expected, Block
      <3>3. QED
        BY <3>1, <3>2
    <2>2. CASE group'[l] = 0
      <3>1. nb \in Block /\ nb.job = "publish" /\ nb.id = NoItem /\ nb.load = l
        BY DEF Block, MainBlock, Jobs
      <3>2. stage[l] = "gathering" /\ stage'[l] = "publishing"
        BY <2>2, <1>2, <1>4 DEF TypeOK
      <3>3. ~Expected(nb) /\ Expected(nb)'
        BY <3>1, <3>2 DEF Expected
      <3>4. main' = Append(Tail(main), nb)
        BY <2>2, <1>1
      <3>5. QED
        BY <3>1, <3>3, <3>4, <2>1, <1>1, Requeue
    <2>3. CASE group'[l] # 0
      <3>1. main' = Tail(main)
        BY <2>3, <1>1
      <3>2. QED
        BY <3>1, <2>1, <1>1, Dequeue
    <2>4. QED
      BY <2>2, <2>3
  <1>15. QED
    BY <1>8, <1>9, <1>10, <1>11, <1>12, <1>13, <1>14
(* The completion of a load that ends: what it shows, list, is what was     *)
(* shown already or the whole array of the load.                            *)
LEMMA CompletionKeeps ==
  ASSUME IndInv, NEW l \in Loads, stage[l] \in {"publishing", "alerting"},
         NEW list \in Seq(Ids), list = items \/ list = array[l],
         Completion(l, list), items' = list,
         UNCHANGED <<screen, started, kind, ids, group, request, array>>
  PROVE  /\ stage' \in [Loads -> Stages] /\ loadingItems' \in BOOLEAN /\ refreshing' \in BOOLEAN
         /\ table' \in [sections : Nat, rows : {0, 1}]
         /\ StartedInOrder' /\ RequestsFollowIds' /\ GroupBalanced' /\ GatheredWhole'
         /\ ShownIsOneLoad' /\ CellsInBounds' /\ OnePull' /\ SpinnerTracksPull'
         /\ NothingBeforeTheList' /\ LoadingNotStuck'
  <1> USE DEF IndInv
  <1>1. /\ stage' = [stage EXCEPT ![l] = "done"] /\ stage' \in [Loads -> Stages]
        /\ loadingItems' = IF kind[l] = "appear" THEN FALSE ELSE loadingItems
        /\ refreshing' = IF kind[l] = "pull" THEN FALSE ELSE refreshing
        /\ loadingItems' \in BOOLEAN /\ refreshing' \in BOOLEAN
        /\ table' = Layout(loadingItems', list)
    BY DEF Completion, TypeOK, Stages
  <1>2. /\ table' \in [sections : Nat, rows : {0, 1}]
        /\ table'.rows = 1 => table'.sections = Len(list)
    BY <1>1 DEF Layout
  <1>3. /\ Active(l) /\ ~Active(l)'
        /\ \A m \in Loads : m # l => (Active(m)' <=> Active(m)) /\ stage'[m] = stage[m]
    BY <1>1 DEF Active, TypeOK
  <1>4. screen # "splash"
    BY <1>3 DEF NothingBeforeTheList, StartedInOrder, Active, Loads
  <1>5. StartedInOrder' /\ RequestsFollowIds'
    BY <1>1 DEF StartedInOrder, RequestsFollowIds, TypeOK
  <1>6. GroupBalanced' /\ GatheredWhole'
    <2>1. \A m \in Loads : /\ stage'[m] = "gathering" <=> stage[m] = "gathering"
                           /\ stage'[m] = "publishing" => stage[m] = "publishing"
      BY <1>1 DEF TypeOK
    <2>2. QED
      BY <2>1, GroupsKept
  <1>7. ShownIsOneLoad'
    BY <1>1 DEF ShownIsOneLoad, TypeOK
  <1>8. OnePull' /\ SpinnerTracksPull'
    BY <1>1, <1>3 DEF OnePull, SpinnerTracksPull
  <1>9. CellsInBounds' /\ NothingBeforeTheList' /\ LoadingNotStuck'
    BY <1>1, <1>2, <1>3, <1>4 DEF CellsInBounds, NothingBeforeTheList, LoadingNotStuck
  <1>10. QED
    BY <1>1, <1>2, <1>5, <1>6, <1>7, <1>8, <1>9

(* The notify block and the alert block complete the load they were queued  *)
(* for.                                                                     *)
LEMMA CompletionStep == IndInv /\ (Publish \/ FailLoad) => IndInv'
  <1> SUFFICES ASSUME IndInv, Publish \/ FailLoad PROVE IndInv'
    OBVIOUS
  <1> USE DEF IndInv
  <1>1. PICK l \in Loads :
          /\ main # <<>> /\ Head(main) \in Block /\ Head(main).load = l
          /\ Head(main).job \in {"publish", "alert"} /\ Head(main).id = NoItem
          /\ stage[l] = IF Head(main).job = "publish" THEN "publishing" ELSE "alerting"
          /\ items' = items \/ items' = array[l]
          /\ Completion(l, items')
          /\ main' = Tail(main) /\ alert' \in BOOLEAN
          /\ UNCHANGED <<screen, detailItem, started, kind, ids, group, request, array>>
    <2>1. main # <<>> => Head(main) \in Block /\ Expected(Head(main))
      BY HeadExpected
    <2>2. CASE Publish
      BY <2>1, <2>2 DEF Publish, Running, Replaced, Expected, Block, loadVars, TypeOK
    <2>3. CASE FailLoad
      BY <2>1, <2>3 DEF FailLoad, Running, Expected, Block, loadVars, TypeOK
    <2>4. QED
      BY <2>2, <2>3
  <1>2. items' \in Seq(Ids)
    BY <1>1 DEF TypeOK
  <1>3. /\ stage' \in [Loads -> Stages] /\ loadingItems' \in BOOLEAN /\ refreshing' \in BOOLEAN
        /\ table' \in [sections : Nat, rows : {0, 1}]
        /\ StartedInOrder' /\ RequestsFollowIds' /\ GroupBalanced' /\ GatheredWhole'
        /\ ShownIsOneLoad' /\ CellsInBounds' /\ OnePull' /\ SpinnerTracksPull'
        /\ NothingBeforeTheList' /\ LoadingNotStuck'
    BY <1>1, <1>2, CompletionKeeps
  <1>4. main' \in Seq(Block) /\ HandlersRunOnce'
    <2>1. ASSUME NEW b \in Block, b # Head(main), Expected(b) PROVE Expected(b)'
      <3>1. CASE b.load = l /\ b.job # "item"
        BY <3>1, <2>1, <1>1 DEF Expected, Block
      <3>2. CASE b.load # l \/ b.job = "item"
        BY <3>2, <2>1, <1>1 DEF Expected, Block, Completion, TypeOK
      <3>3. QED
        BY <3>1, <3>2
    <2>2. QED
      BY <2>1, <1>1, Dequeue
  <1>5. TypeOK'
    BY <1>1, <1>2, <1>3, <1>4 DEF TypeOK
  <1>6. QED
    BY <1>3, <1>4, <1>5

-------------------------------------------------------------------------------
LEMMA StutterKeeps == IndInv /\ UNCHANGED vars => IndInv'
  <1> SUFFICES ASSUME IndInv, UNCHANGED vars PROVE IndInv'
    OBVIOUS
  <1> USE DEF IndInv, vars
  <1>1. TypeOK' /\ StartedInOrder' /\ RequestsFollowIds' /\ NothingBeforeTheList'
    BY DEF TypeOK, StartedInOrder, RequestsFollowIds, NothingBeforeTheList
  <1>2. GroupBalanced' /\ GatheredWhole'
    BY GroupsKept
  <1>3. HandlersRunOnce'
    <2>1. ASSUME NEW b \in Range(main) PROVE Expected(b)'
      BY DEF HandlersRunOnce, Expected
    <2>2. QED
      BY <2>1 DEF HandlersRunOnce
  <1>4. /\ ShownIsOneLoad' /\ CellsInBounds' /\ OnePull' /\ SpinnerTracksPull'
        /\ LoadingNotStuck'
    BY DEF ShownIsOneLoad, CellsInBounds, OnePull, SpinnerTracksPull, LoadingNotStuck, Active
  <1>5. QED
    BY <1>1, <1>2, <1>3, <1>4

(* The inductive invariant holds in every state of every behaviour of the   *)
(* list screen: initially, and after each of its actions.                   *)
THEOREM Invariance == Spec => []IndInv
  <1>1. Init => IndInv
    BY InitIndInv
  <1>2. IndInv /\ [Next]_vars => IndInv'
    <2> SUFFICES ASSUME IndInv, [Next]_vars PROVE IndInv'
      OBVIOUS
    <2>1. CASE User
      BY <2>1, ViewWillAppearStep, PullToRefreshStep, TouchStep DEF User
    <2>2. CASE MainQueue
      BY <2>2, GatherStep, RefuseIdsStep, ItemHandlerStep, CompletionStep DEF MainQueue
    <2>3. ASSUME NEW l \in Loads, Network(l) PROVE IndInv'
      BY <2>3, AskIdsStep, AnswerIdsStep, AnswerItemStep DEF Network
    <2>4. CASE UNCHANGED vars
      BY <2>4, StutterKeeps
    <2>5. QED
      BY <2>1, <2>2, <2>3, <2>4 DEF Next
  <1>3. QED
    BY <1>1, <1>2, PTL DEF Spec

(* Every variable of the list screen has its type.                          *)
THEOREM TypeCorrect == Spec => []TypeOK
  BY Invariance, PTL DEF IndInv

(* The groups balance, and a published load is whole: the two facts that    *)
(* make the notify block of reloadData run once and with all the items.     *)
THEOREM LoadsAreWhole == Spec => [](GroupBalanced /\ GatheredWhole)
  BY Invariance, PTL DEF IndInv

(* The screen of the first tab is sound: its groups balance, no closure     *)
(* runs twice, the list shown is that of one load and is indexed in bounds, *)
(* and its indicators follow the loads (ListViewController.reloadData).     *)
THEOREM ScreenIsSafe == Spec => []ScreenSafe
  BY Invariance, PTL DEF IndInv, ScreenSafe

(* No closure of the main queue runs twice, late or for another load.       *)
THEOREM NoHandlerRunsTwice == Spec => []HandlersRunOnce
  BY Invariance, PTL DEF IndInv

(* The list shown is the whole result of one load that ended, and the table *)
(* never indexes it out of bounds.                                          *)
THEOREM ShownListIsSound == Spec => [](ShownIsOneLoad /\ CellsInBounds)
  BY Invariance, PTL DEF IndInv

(* The refresh control and the title "Loading ..." are never left behind by *)
(* the loads that must remove them.                                         *)
THEOREM IndicatorsFollowLoads == Spec => [](SpinnerTracksPull /\ LoadingNotStuck)
  BY Invariance, PTL DEF IndInv
-------------------------------------------------------------------------------
(* What ItemFeed promises                                                   *)

(* What ImplementsFeed makes of the loads of the screen.                    *)
Phase == [l \in Loads |-> CASE stage[l] = "unused" -> "idle"
                            [] stage[l] = "done" -> "ended"
                            [] OTHER -> "running"]
Offered == [l \in Loads |-> {k \in Ids : request[l][k] \in {"okQueued", "ok"}}]

(* A sequence without repetition is one of the orders of its members.       *)
LEMMA OrderOfRange ==
  ASSUME NEW S, NEW q \in Seq(S), IsInjective(q)
  PROVE  q \in SetToSeqs(Range(q))
  <1>1. Len(q) \in Nat /\ DOMAIN q = 1..Len(q) /\ q \in [1..Len(q) -> Range(q)]
    BY DEF Range
  <1>2. q \in Bijection(1..Len(q), Range(q))
    BY <1>1 DEF Bijection, Injection, Surjection, IsInjective, Range
  <1>3. Cardinality(Range(q)) = Len(q)
    BY <1>1, <1>2, FS_CountingElements DEF ExistsBijection
  <1>4. QED
    BY <1>1, <1>3 DEF SetToSeqs, IsInjective

(* Loads that a step neither starts nor ends, and that it offers nothing.   *)
LEMMA SamePhase ==
  ASSUME \A l \in Loads : /\ stage'[l] = "unused" <=> stage[l] = "unused"
                          /\ stage'[l] = "done" <=> stage[l] = "done"
  PROVE  Phase' = Phase
  <1>1. ASSUME NEW l \in Loads PROVE Phase'[l] = Phase[l]
    BY DEF Phase
  <1>2. QED
    BY <1>1 DEF Phase

LEMMA SameOffer ==
  ASSUME \A l \in Loads : \A k \in Ids :
           request'[l][k] \in {"okQueued", "ok"} <=> request[l][k] \in {"okQueued", "ok"}
  PROVE  Offered' = Offered
  <1>1. ASSUME NEW l \in Loads
        PROVE  {k \in Ids : request'[l][k] \in {"okQueued", "ok"}}
                 = {k \in Ids : request[l][k] \in {"okQueued", "ok"}}
    OBVIOUS
  <1>2. QED
    BY <1>1 DEF Offered

LEMMA InitFeed == Init => Feed!Init
  <1> SUFFICES ASSUME Init
               PROVE  items = <<>> /\ Phase = [l \in Loads |-> "idle"] /\ Offered = [l \in Loads |-> {}]
    BY DEF Feed!Init, Phase, Offered
  <1>1. ASSUME NEW l \in Loads PROVE Phase[l] = "idle" /\ Offered[l] = {}
    BY DEF Init, Phase, Offered
  <1>2. QED
    BY <1>1 DEF Init, Phase, Offered

(* One step of the screen, in the terms of ItemFeed.                        *)
FeedStep ==
  \/ UNCHANGED <<items, Phase, Offered>>
  \/ \E l \in Loads :
       \/ /\ Phase[l] = "idle" /\ Phase' = [Phase EXCEPT ![l] = "running"]
          /\ UNCHANGED <<items, Offered>>
       \/ /\ Phase[l] = "running" /\ Phase' = [Phase EXCEPT ![l] = "ended"]
          /\ \/ items' \in SetToSeqs(Offered[l])
             \/ Offered[l] = {} /\ UNCHANGED items
          /\ UNCHANGED Offered
       \/ \E k \in Ids : /\ Phase[l] = "running" /\ k \notin Offered[l]
                         /\ Offered' = [Offered EXCEPT ![l] = @ \cup {k}]
                         /\ UNCHANGED <<items, Phase>>

(* The library of ItemFeed is that of the screen.                           *)
LEMMA OrdersOfFeed == \A S : Feed!SetToSeqs(S) = SetToSeqs(S)
  <1>1. \A S : Feed!Cardinality(S) = Cardinality(S)
    BY DEF Feed!Cardinality, Cardinality
  <1>2. QED
    BY <1>1 DEF Feed!SetToSeqs, SetToSeqs

LEMMA FeedStepIsNext == FeedStep => [Feed!Next]_(Feed!vars)
  <1>1. ASSUME UNCHANGED <<items, Phase, Offered>> PROVE UNCHANGED Feed!vars
    BY <1>1 DEF Feed!vars, Phase, Offered
  <1>2. ASSUME NEW l \in Loads, Phase[l] = "idle", Phase' = [Phase EXCEPT ![l] = "running"],
               UNCHANGED <<items, Offered>>
        PROVE  Feed!Start(l)
    BY <1>2 DEF Feed!Start, Phase, Offered
  <1>3. ASSUME NEW l \in Loads, Phase[l] = "running", Phase' = [Phase EXCEPT ![l] = "ended"],
               items' \in SetToSeqs(Offered[l]) \/ (Offered[l] = {} /\ UNCHANGED items),
               UNCHANGED Offered
        PROVE  Feed!End(l)
    <2>1. items' \in Feed!SetToSeqs(Offered[l]) \/ (Offered[l] = {} /\ UNCHANGED items)
      BY <1>3, OrdersOfFeed
    <2>2. QED
      BY <1>3, <2>1 DEF Feed!End, Phase, Offered
  <1>4. ASSUME NEW l \in Loads, NEW k \in Ids, Phase[l] = "running", k \notin Offered[l],
               Offered' = [Offered EXCEPT ![l] = @ \cup {k}], UNCHANGED <<items, Phase>>
        PROVE  Feed!Offer(l, k)
    BY <1>4 DEF Feed!Offer, Phase, Offered
  <1>5. QED
    BY <1>1, <1>2, <1>3, <1>4 DEF FeedStep, Feed!Next

(* A call of reloadData starts its load.                                    *)
LEMMA StartFeed == ASSUME IndInv, NEW who, StartLoad(who), UNCHANGED items PROVE FeedStep
  <1> DEFINE n == started + 1
  <1> USE DEF IndInv
  <1>1. stage' = [stage EXCEPT ![n] = "dispatched"] /\ UNCHANGED request /\ started < MaxLoads
    BY DEF StartLoad
  <1>2. n \in Loads /\ stage[n] = "unused"
    BY <1>1, MaxLoadsAssumption DEF TypeOK, StartedInOrder, Loads
  <1>3. stage'[n] = "dispatched" /\ \A l \in Loads \ {n} : stage'[l] = stage[l]
    BY <1>1, <1>2 DEF TypeOK
  <1> HIDE DEF n
  <1>4. Phase[n] = "idle" /\ Phase'[n] = "running" /\ \A l \in Loads \ {n} : Phase'[l] = Phase[l]
    BY <1>2, <1>3 DEF Phase
  <1>5. Phase' = [Phase EXCEPT ![n] = "running"]
    BY <1>2, <1>4 DEF Phase
  <1>6. Offered' = Offered
    BY <1>1, SameOffer
  <1>7. QED
    BY <1>2, <1>4, <1>5, <1>6 DEF FeedStep

LEMMA UserFeed == ASSUME IndInv, User PROVE FeedStep
  <1>1. CASE \E who : StartLoad(who) /\ UNCHANGED items
    BY <1>1, StartFeed
  <1>2. CASE UNCHANGED <<items, stage, request>>
    BY <1>2, SamePhase, SameOffer DEF FeedStep
  <1>3. QED
    BY <1>1, <1>2 DEF User, ViewWillAppear, PullToRefresh, SelectRow, DismissAlert, loadVars

(* The queues, the ids and the handlers are hidden.                         *)
LEMMA HiddenFeed ==
  ASSUME IndInv, UNCHANGED items, NEW l \in Loads, Active(l),
         stage' = stage \/ \E s \in Stages \ {"unused", "done"} : stage' = [stage EXCEPT ![l] = s],
         Offered' = Offered
  PROVE  FeedStep
  <1>1. \A m \in Loads : /\ stage'[m] = "unused" <=> stage[m] = "unused"
                         /\ stage'[m] = "done" <=> stage[m] = "done"
    BY DEF IndInv, TypeOK, Active
  <1>2. QED
    BY <1>1, SamePhase DEF FeedStep

LEMMA IdsFeed == ASSUME IndInv, NEW l \in Loads, AskIds(l) \/ AnswerIds(l) PROVE FeedStep
  <1>1. UNCHANGED <<items, request>> /\ stage[l] \in {"dispatched", "asking"}
    BY DEF AskIds, AnswerIds, uiVars, loadVars
  <1>2. \E s \in Stages \ {"unused", "done"} : stage' = [stage EXCEPT ![l] = s]
    BY DEF AskIds, AnswerIds, Stages
  <1>3. QED
    BY <1>1, <1>2, SameOffer, HiddenFeed DEF Active

LEMMA GatherFeed == ASSUME IndInv, Gather \/ RefuseIds PROVE FeedStep
  <1> USE DEF IndInv
  <1>1. main # <<>> /\ Head(main).load \in Loads
    BY HeadExpected DEF Gather, RefuseIds, Running, Block
  <1>2. PICK l \in Loads : l = Head(main).load
    BY <1>1
  <1>3. /\ stage[l] \in {"answered", "refused"} /\ items' = items
        /\ \E s \in Stages \ {"unused", "done"} : stage' = [stage EXCEPT ![l] = s]
    BY <1>2 DEF Gather, RefuseIds, uiVars, Stages
  <1>4. Offered' = Offered
    <2>1. CASE RefuseIds
      BY <2>1, SameOffer DEF RefuseIds, loadVars
    <2>2. CASE Gather
      <3>1. /\ \A k \in Ids : request[l][k] = "none" /\ request'[l][k] \in {"sent", "none"}
            /\ \A m \in Loads \ {l} : request'[m] = request[m]
        BY <1>2, <2>2 DEF Gather, RequestsFollowIds, TypeOK
      <3>2. QED
        BY <3>1, SameOffer
    <2>3. QED
      BY <2>1, <2>2
  <1>5. QED
    BY <1>3, <1>4, HiddenFeed DEF Active

LEMMA HandlerFeed == ASSUME IndInv, ItemHandler PROVE FeedStep
  <1> USE DEF IndInv
  <1>1. PICK l \in Loads, k \in Ids :
          /\ Head(main).load = l /\ Head(main).id = k
          /\ request[l][k] \in {"okQueued", "failedQueued"}
    BY HeadExpected DEF ItemHandler, Running, Block, Expected
  <1>2. stage[l] = "gathering"
    BY <1>1 DEF GroupBalanced, Outstanding
  <1>3. /\ items' = items
        /\ stage' = stage \/ stage' = [stage EXCEPT ![l] = "publishing"]
        /\ request' = [request EXCEPT ![l][k] = IF request[l][k] = "okQueued" THEN "ok" ELSE "failed"]
    BY <1>1 DEF ItemHandler, uiVars
  <1>4. ASSUME NEW m \in Loads, NEW j \in Ids
        PROVE  request'[m][j] \in {"okQueued", "ok"} <=> request[m][j] \in {"okQueued", "ok"}
    BY <1>1, <1>3 DEF TypeOK
  <1>5. Offered' = Offered
    BY <1>4, SameOffer
  <1>6. QED
    BY <1>2, <1>3, <1>5, HiddenFeed DEF Active, Stages

(* The answer of the service is what is offered, when it is an item.        *)
LEMMA AnswerFeed == ASSUME IndInv, NEW l \in Loads, NEW k \in Ids, AnswerItem(l, k) PROVE FeedStep
  <1> USE DEF IndInv
  <1>1. PICK r \in {"okQueued", "failedQueued"} : request' = [request EXCEPT ![l][k] = r]
    BY DEF AnswerItem
  <1>2. request[l][k] = "sent" /\ UNCHANGED <<items, stage>>
    BY DEF AnswerItem, uiVars
  <1>3. Phase' = Phase
    BY <1>2, SamePhase
  <1>4. /\ request'[l][k] = r /\ \A j \in Ids \ {k} : request'[l][j] = request[l][j]
        /\ \A m \in Loads \ {l} : request'[m] = request[m]
    BY <1>1 DEF TypeOK
  <1>5. CASE r = "failedQueued"
    <2>1. Offered' = Offered
      BY <1>2, <1>4, <1>5, SameOffer
    <2>2. QED
      BY <1>2, <1>3, <2>1 DEF FeedStep
  <1>6. CASE r = "okQueued"
    <2>1. stage[l] = "gathering"
      BY <1>2 DEF GroupBalanced, Outstanding
    <2>2. Phase[l] = "running"
      BY <2>1 DEF Phase
    <2>3. k \notin Offered[l] /\ Offered'[l] = Offered[l] \cup {k}
          /\ \A m \in Loads \ {l} : Offered'[m] = Offered[m]
      BY <1>2, <1>4, <1>6 DEF Offered
    <2>4. Offered' = [Offered EXCEPT ![l] = @ \cup {k}]
      BY <2>3 DEF Offered
    <2>5. QED
      BY <1>2, <1>3, <2>2, <2>3, <2>4 DEF FeedStep
  <1>7. QED
    BY <1>5, <1>6

LEMMA EndWithAll ==
  ASSUME NEW l \in Loads, Phase[l] = "running", Phase' = [Phase EXCEPT ![l] = "ended"],
         items' \in SetToSeqs(Offered[l]), UNCHANGED Offered
  PROVE  FeedStep
  BY Zenon DEF FeedStep

LEMMA EndWithNothing ==
  ASSUME NEW l \in Loads, Phase[l] = "running", Phase' = [Phase EXCEPT ![l] = "ended"],
         Offered[l] = {}, UNCHANGED <<items, Offered>>
  PROVE  FeedStep
  BY DEF FeedStep

(* The completion ends the load: with all that was offered to it, or, when  *)
(* the ids were refused, with nothing offered and the list left alone.      *)
LEMMA CompletionFeed == ASSUME IndInv, Publish \/ FailLoad PROVE FeedStep
  <1> USE DEF IndInv
  <1>1. PICK l \in Loads :
          /\ stage[l] \in {"publishing", "alerting"} /\ stage' = [stage EXCEPT ![l] = "done"]
          /\ request' = request
          /\ items' = IF stage[l] = "publishing" THEN array[l] ELSE items
    <2>1. main # <<>> => Head(main) \in Block /\ Expected(Head(main))
      BY HeadExpected
    <2>2. CASE Publish
      BY <2>1, <2>2 DEF Publish, Running, Replaced, Expected, Block, Completion, loadVars
    <2>3. CASE FailLoad
      BY <2>1, <2>3 DEF FailLoad, Running, Expected, Block, Completion, loadVars
    <2>4. QED
      BY <2>2, <2>3
  <1>2. stage'[l] = "done" /\ \A m \in Loads \ {l} : stage'[m] = stage[m]
    BY <1>1 DEF TypeOK
  <1>3. Phase[l] = "running" /\ Phase'[l] = "ended" /\ \A m \in Loads \ {l} : Phase'[m] = Phase[m]
    BY <1>1, <1>2 DEF Phase
  <1>4. Phase' = [Phase EXCEPT ![l] = "ended"]
    BY <1>3 DEF Phase
  <1>5. Offered' = Offered
    BY <1>1, SameOffer
  <1>6. CASE stage[l] = "publishing"
    <2>1. ASSUME NEW k \in Ids PROVE request[l][k] # "okQueued"
      BY <1>6 DEF GroupBalanced, Outstanding
    <2>2. Offered[l] = Range(array[l])
      BY <2>1 DEF GatheredWhole, Fetched, Offered
    <2>3. array[l] \in SetToSeqs(Range(array[l]))
      BY OrderOfRange DEF GatheredWhole, TypeOK
    <2>4. items' = array[l]
      BY <1>1, <1>6
    <2>5. items' \in SetToSeqs(Offered[l])
      BY <2>2, <2>3, <2>4, Zenon
    <2>6. QED
      BY <1>3, <1>4, <1>5, <2>5, EndWithAll, Zenon
  <1>7. CASE stage[l] = "alerting"
    <2>1. ASSUME NEW k \in Ids PROVE request[l][k] = "none"
      BY <1>7 DEF RequestsFollowIds
    <2>2. Offered[l] = {}
      BY <2>1 DEF Offered
    <2>3. QED
      BY <1>1, <1>3, <1>4, <1>5, <1>7, <2>2, EndWithNothing
  <1>8. QED
    BY <1>1, <1>6, <1>7

LEMMA NextFeed == IndInv /\ [Next]_vars => [Feed!Next]_(Feed!vars)
  <1> SUFFICES ASSUME IndInv, [Next]_vars PROVE FeedStep
    BY FeedStepIsNext
  <1>1. CASE UNCHANGED vars
    BY <1>1, SamePhase, SameOffer DEF vars, FeedStep
  <1>2. CASE User
    BY <1>2, UserFeed
  <1>3. CASE MainQueue
    BY <1>3, GatherFeed, HandlerFeed, CompletionFeed DEF MainQueue
  <1>4. CASE \E l \in Loads : Network(l)
    BY <1>4, IdsFeed, AnswerFeed DEF Network
  <1>5. QED
    BY <1>1, <1>2, <1>3, <1>4 DEF Next

(* The safety half of ImplementsFeed, step by step: a load ends once, and   *)
(* then the list is the items it was offered, each once, all of them, or,   *)
(* when the ids were refused, what it was.                                  *)
THEOREM StepsOfFeed == Spec => Feed!Init /\ [][Feed!Next]_(Feed!vars)
  BY Invariance, InitFeed, NextFeed, PTL DEF Spec
===============================================================================
