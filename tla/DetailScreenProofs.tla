-------------------------- MODULE DetailScreenProofs --------------------------
(***************************************************************************)
(* The safety of the detail screen for any number of loads and any finite  *)
(* set of items, and that each of its steps is one that ItemFeed allows.   *)
(***************************************************************************)
EXTENDS DetailScreen, FiniteSetTheorems, TLAPS

(* A load is unused until it is started, in the order of the calls, and     *)
(* none is started for an item without kids.                                *)
StartedInOrder ==
  /\ \A l \in Loads : stage[l] = "unused" <=> l > started
  /\ ~hasKids => started = 0
  /\ hasKids /\ started = 0 => loadingKids

(* The loop makes requests for the kids only, and for all of them before    *)
(* notify is registered.                                                    *)
RequestsFollowLoop ==
  \A l \in Loads : \A k \in Ids :
    /\ request[l][k] # "none" => k \in itemKids /\ stage[l] # "unused"
    /\ k \in itemKids /\ stage[l] \notin {"unused", "looping"} => request[l][k] # "none"

(* A block of the main queue finds its load as the code that queued it left *)
(* it, and is queued once.                                                  *)
Expected(b) ==
  IF b.job = "item" THEN request[b.load][b.id] \in {"okQueued", "failedQueued"}
                    ELSE stage[b.load] = "publishing"

BlocksExpected == (\A b \in Range(main) : Expected(b)) /\ IsInjective(main)

IndInv ==
  /\ TypeOK
  /\ StartedInOrder
  /\ RequestsFollowLoop
  /\ BlocksExpected
  /\ PublishesAfterLoop
  /\ NotifyNotMissed
  /\ KidsAreOneLoad
  /\ RowsInBounds
  /\ LoadingTitleTrue

-------------------------------------------------------------------------------
(* Sequences without repetition                                             *)

LEMMA HeadFacts ==
  ASSUME NEW S, NEW q \in Seq(S), q # <<>>
  PROVE  Head(q) \in S /\ Head(q) \in Range(q) /\ Tail(q) \in Seq(S)
  BY DEF Range

LEMMA TailFacts ==
  ASSUME NEW S, NEW q \in Seq(S), q # <<>>, IsInjective(q)
  PROVE  IsInjective(Tail(q)) /\ Range(Tail(q)) = Range(q) \ {Head(q)}
<1>1. /\ Len(q) \in Nat /\ Len(q) > 0 /\ DOMAIN q = 1..Len(q) /\ Head(q) = q[1]
      /\ Len(Tail(q)) = Len(q) - 1 /\ DOMAIN Tail(q) = 1..(Len(q) - 1)
      /\ \A i \in 1..(Len(q) - 1) : Tail(q)[i] = q[i + 1]
  OBVIOUS
<1>2. IsInjective(Tail(q))
  BY <1>1 DEF IsInjective
<1>3. ASSUME NEW x \in Range(Tail(q)) PROVE x \in Range(q) \ {Head(q)}
  BY <1>1, <1>3 DEF IsInjective, Range
<1>4. ASSUME NEW x \in Range(q) \ {Head(q)} PROVE x \in Range(Tail(q))
  <2>1. PICK i \in 1..Len(q) : x = q[i]
    BY <1>1 DEF Range
  <2>2. i # 1 /\ i - 1 \in 1..(Len(q) - 1) /\ Tail(q)[i - 1] = q[i]
    BY <2>1, <1>1
  <2> QED BY <2>1, <2>2, <1>1 DEF Range
<1> QED BY <1>2, <1>3, <1>4

LEMMA AppendFacts ==
  ASSUME NEW S, NEW q \in Seq(S), NEW b \in S
  PROVE  /\ Append(q, b) \in Seq(S)
         /\ Range(Append(q, b)) = Range(q) \cup {b}
         /\ IsInjective(q) /\ b \notin Range(q) => IsInjective(Append(q, b))
<1>1. /\ Len(q) \in Nat /\ DOMAIN q = 1..Len(q)
      /\ DOMAIN Append(q, b) = 1..(Len(q) + 1)
      /\ \A i \in 1..Len(q) : Append(q, b)[i] = q[i]
      /\ Append(q, b)[Len(q) + 1] = b
  OBVIOUS
<1>2. ASSUME NEW x \in Range(Append(q, b)) PROVE x \in Range(q) \cup {b}
  BY <1>1 DEF Range
<1>3. ASSUME NEW x \in Range(q) \cup {b} PROVE x \in Range(Append(q, b))
  BY <1>1 DEF Range
<1>4. IsInjective(q) /\ b \notin Range(q) => IsInjective(Append(q, b))
  BY <1>1 DEF IsInjective, Range
<1> QED BY <1>2, <1>3, <1>4

(* Such a sequence is one of the orders of the set of its members.          *)
LEMMA OrderOfRange ==
  ASSUME NEW S, NEW q \in Seq(S), IsInjective(q)
  PROVE  q \in SetToSeqs(Range(q))
<1>1. Len(q) \in Nat /\ DOMAIN q = 1..Len(q) /\ q \in [1..Len(q) -> Range(q)]
  BY DEF Range
<1>2. q \in Bijection(1..Len(q), Range(q))
  BY <1>1 DEF Bijection, Injection, Surjection, IsInjective, Range
<1>3. Cardinality(Range(q)) = Len(q)
  BY <1>1, <1>2, FS_CountingElements DEF ExistsBijection
<1> QED BY <1>1, <1>3 DEF SetToSeqs, IsInjective

-------------------------------------------------------------------------------
(* The main queue keeps what it holds in order when a block is queued, run, *)
(* or run and followed by another one.                                      *)
LEMMA BlockTypes ==
  /\ \A b \in Block : b.load \in Loads /\ b.job \in {"item", "publish"} /\ (b.job = "item" => b.id \in Ids)
  /\ \A b, c \in Block : b.load = c.load /\ b.job = c.job /\ (b.job = "item" => b.id = c.id) => b = c
  /\ \A l \in Loads : PublishBlock(l) \in Block /\ PublishBlock(l).load = l /\ PublishBlock(l).job = "publish"
  /\ \A l \in Loads, k \in Ids : /\ ItemBlock(l, k) \in Block /\ ItemBlock(l, k).load = l
                                 /\ ItemBlock(l, k).job = "item" /\ ItemBlock(l, k).id = k
  BY DEF Block, PublishBlock, ItemBlock

LEMMA MainFacts ==
  ASSUME TypeOK, BlocksExpected
  PROVE  /\ main \in Seq(Block) /\ Range(main) \subseteq Block /\ IsInjective(main)
         /\ \A b \in Range(main) : Expected(b)
  BY DEF TypeOK, BlocksExpected, Range

LEMMA Enqueue ==
  ASSUME TypeOK, BlocksExpected, NEW nb \in Block, ~Expected(nb), Expected(nb)',
         main' = Append(main, nb), \A b \in Block : Expected(b) => Expected(b)'
  PROVE  main' \in Seq(Block) /\ BlocksExpected'
<1>1. nb \notin Range(main)
  BY MainFacts
<1>2. main' \in Seq(Block) /\ Range(main') = Range(main) \cup {nb} /\ IsInjective(main')
  BY <1>1, MainFacts, AppendFacts
<1> QED BY <1>2, MainFacts DEF BlocksExpected

LEMMA Dequeue ==
  ASSUME TypeOK, BlocksExpected, main # <<>>, main' = Tail(main),
         \A b \in Block : b # Head(main) /\ Expected(b) => Expected(b)'
  PROVE  main' \in Seq(Block) /\ BlocksExpected'
<1>1. main' \in Seq(Block) /\ Range(main') = Range(main) \ {Head(main)} /\ IsInjective(main')
  BY MainFacts, HeadFacts, TailFacts
<1> QED BY <1>1, MainFacts DEF BlocksExpected

LEMMA Requeue ==
  ASSUME TypeOK, BlocksExpected, main # <<>>,
         NEW nb \in Block, ~Expected(nb), Expected(nb)', main' = Append(Tail(main), nb),
         \A b \in Block : b # Head(main) /\ Expected(b) => Expected(b)'
  PROVE  main' \in Seq(Block) /\ BlocksExpected'
<1>1. /\ Tail(main) \in Seq(Block) /\ IsInjective(Tail(main))
      /\ Range(Tail(main)) = Range(main) \ {Head(main)}
  BY MainFacts, HeadFacts, TailFacts
<1>2. nb \notin Range(Tail(main))
  BY <1>1, MainFacts
<1>3. ASSUME NEW q \in Seq(Block), q = Tail(main)
      PROVE  /\ Append(q, nb) \in Seq(Block)
             /\ Range(Append(q, nb)) = Range(q) \cup {nb}
             /\ IsInjective(q) /\ nb \notin Range(q) => IsInjective(Append(q, nb))
  BY AppendFacts
<1>4. main' \in Seq(Block) /\ Range(main') = Range(Tail(main)) \cup {nb} /\ IsInjective(main')
  BY <1>1, <1>2, <1>3
<1> QED BY <1>1, <1>4, MainFacts DEF BlocksExpected

(* The block at the head of the queue.                                      *)
LEMMA HeadExpected ==
  ASSUME TypeOK, BlocksExpected, main # <<>>
  PROVE  Head(main) \in Block /\ Expected(Head(main))
  BY MainFacts, HeadFacts

(* The requests of a load are finitely many.                                *)
LEMMA OutstandingFinite ==
  ASSUME NEW l \in Loads
  PROVE  IsFiniteSet(Outstanding(l)) /\ Cardinality(Outstanding(l)) \in Nat
  BY IdsAssumption, FS_Subset, FS_CardinalityType DEF Outstanding

-------------------------------------------------------------------------------
(* The invariant                                                            *)

LEMMA InitInv == Init => IndInv
<1> SUFFICES ASSUME Init PROVE IndInv
  OBVIOUS
<1>1. TypeOK
  <2>1. started \in 0..MaxLoads
    BY MaxLoadsAssumption DEF Init
  <2>3. hasKids \in BOOLEAN /\ itemKids \in SUBSET Ids
    BY DEF Init
  <2>2. <<>> \in Seq(Ids) /\ <<>> \in Seq(Block)
    OBVIOUS
  <2> QED BY <2>1, <2>2, <2>3 DEF Init, TypeOK, Stages, RequestStates
<1>2. StartedInOrder /\ RequestsFollowLoop /\ LoadingTitleTrue
  BY DEF Init, StartedInOrder, RequestsFollowLoop, LoadingTitleTrue, Loads
<1>3. BlocksExpected
  BY DEF Init, BlocksExpected, Range, IsInjective
<1>4. PublishesAfterLoop
  <2>1. ASSUME NEW l \in Loads PROVE Outstanding(l) = {} /\ {k \in Ids : request[l][k] = "ok"} = {}
    BY DEF Init, Outstanding
  <2>2. IsInjective(<<>>) /\ Range(<<>>) = {}
    BY DEF IsInjective, Range
  <2> QED BY <2>1, <2>2, FS_EmptySet DEF Init, PublishesAfterLoop
<1>5. NotifyNotMissed /\ KidsAreOneLoad /\ RowsInBounds
  BY DEF Init, NotifyNotMissed, KidsAreOneLoad, RowsInBounds
<1> QED BY <1>1, <1>2, <1>3, <1>4, <1>5 DEF IndInv

(* Loads whose requests and array a step leaves alone, and that it does not *)
(* bring to publish.                                                        *)
LEMMA LoadsKept ==
  ASSUME IndInv, UNCHANGED <<itemKids, group, request, array>>,
         \A l \in Loads : stage'[l] \in {"publishing", "done"} =>
           stage[l] \in {"publishing", "done"} \/ \A k \in itemKids : request[l][k] \in {"ok", "failed"}
  PROVE  PublishesAfterLoop'
<1>1. ASSUME NEW l \in Loads PROVE Outstanding(l)' = Outstanding(l)
  BY DEF Outstanding
<1> QED BY <1>1 DEF IndInv, PublishesAfterLoop

LEMMA ViewWillAppearInv == ASSUME IndInv, ViewWillAppear, ~UNCHANGED vars PROVE IndInv'
<1> USE DEF IndInv
<1>1. CASE /\ kids = <<>> /\ ~hasKids
           /\ Completion(kids)
           /\ UNCHANGED <<hasKids, itemKids, kids, main, started, stage, group, request, array>>
  <2>1. loadingKids' = FALSE /\ tableRows' = 0 /\ started = 0
    BY <1>1 DEF Completion, StartedInOrder
  <2>2. TypeOK'
    BY <1>1, <2>1 DEF TypeOK
  <2>3. StartedInOrder' /\ RequestsFollowLoop' /\ NotifyNotMissed' /\ LoadingTitleTrue'
    BY <1>1, <2>1 DEF StartedInOrder, RequestsFollowLoop, NotifyNotMissed, LoadingTitleTrue, Outstanding
  <2>4. BlocksExpected' /\ KidsAreOneLoad' /\ RowsInBounds'
    BY <1>1, <2>1 DEF BlocksExpected, Expected, KidsAreOneLoad, RowsInBounds
  <2>5. PublishesAfterLoop'
    BY <1>1, LoadsKept
  <2> QED BY <2>2, <2>3, <2>4, <2>5
<1>2. CASE /\ kids = <<>> /\ hasKids /\ started < MaxLoads
           /\ started' = started + 1
           /\ stage' = [stage EXCEPT ![started + 1] = "looping"]
           /\ UNCHANGED <<uiVars, main, group, request, array>>
  <2> DEFINE n == started + 1
  <2>1. n \in Loads /\ started' = n /\ n \in 0..MaxLoads /\ stage[n] = "unused" /\ started \in Nat
    BY <1>2, MaxLoadsAssumption DEF TypeOK, StartedInOrder, Loads
  <2>2. /\ stage' \in [Loads -> Stages] /\ stage'[n] = "looping"
        /\ \A l \in Loads \ {n} : stage'[l] = stage[l]
    BY <1>2, <2>1 DEF TypeOK, Stages
  <2> HIDE DEF n
  <2>3. TypeOK'
    BY <1>2, <2>1, <2>2 DEF TypeOK, uiVars
  <2>4. StartedInOrder'
    BY <1>2, <2>1, <2>2 DEF StartedInOrder, uiVars, Loads, n
  <2>5. RequestsFollowLoop'
    BY <1>2, <2>1, <2>2 DEF RequestsFollowLoop, uiVars
  <2>6. BlocksExpected'
    <3>1. ASSUME NEW b \in Block, Expected(b) PROVE Expected(b)'
      BY <1>2, <2>1, <2>2, <3>1, BlockTypes DEF Expected
    <3> QED BY <1>2, <3>1, MainFacts DEF BlocksExpected
  <2>7. PublishesAfterLoop'
    BY <1>2, <2>2, LoadsKept DEF uiVars
  <2>8. NotifyNotMissed' /\ KidsAreOneLoad' /\ RowsInBounds'
    BY <1>2, <2>1, <2>2 DEF NotifyNotMissed, Outstanding, KidsAreOneLoad, RowsInBounds, uiVars
  <2>9. LoadingTitleTrue'
    <3>1. loadingKids' = loadingKids
      BY <1>2 DEF uiVars
    <3>2. (\A l \in 1..n : stage'[l] # "done") <=> (\A l \in 1..started : stage[l] # "done")
      <4>1. ASSUME NEW l \in 1..n PROVE l = n \/ l \in 1..started
        BY <2>1 DEF n
      <4>2. ASSUME NEW l \in 1..started PROVE l \in 1..n /\ l \in Loads /\ l # n
        BY <2>1, MaxLoadsAssumption DEF n, Loads
      <4> QED BY <2>2, <4>1, <4>2
    <3>3. CASE started = 0
      BY <1>2, <2>1, <3>1, <3>2, <3>3 DEF LoadingTitleTrue, StartedInOrder
    <3>4. CASE started > 0
      BY <2>1, <3>1, <3>2, <3>4 DEF LoadingTitleTrue
    <3> QED BY <2>1, <3>3, <3>4
  <2> QED BY <2>3, <2>4, <2>5, <2>6, <2>7, <2>8, <2>9
<1> QED BY <1>1, <1>2 DEF ViewWillAppear

-------------------------------------------------------------------------------
(* A step of a load that is running, and leaves it running, changes nothing *)
(* on the screen.                                                           *)
LEMMA BackstageKeeps ==
  ASSUME IndInv, UNCHANGED <<uiVars, started>>, stage' \in [Loads -> Stages],
         \A l \in Loads : /\ stage'[l] = "unused" <=> stage[l] = "unused"
                          /\ stage'[l] = "done" <=> stage[l] = "done"
                          /\ stage[l] = "done" => array'[l] = array[l]
  PROVE  StartedInOrder' /\ KidsAreOneLoad' /\ RowsInBounds' /\ LoadingTitleTrue'
<1> USE DEF IndInv, uiVars
<1>1. StartedInOrder' /\ KidsAreOneLoad' /\ RowsInBounds'
  BY DEF StartedInOrder, KidsAreOneLoad, RowsInBounds
<1>2. 1..started \subseteq Loads
  BY MaxLoadsAssumption DEF TypeOK, Loads
<1>3. LoadingTitleTrue'
  BY <1>2 DEF LoadingTitleTrue
<1> QED BY <1>1, <1>3

LEMMA EnterNextInv == ASSUME IndInv, NEW l \in Loads, EnterNext(l) PROVE IndInv'
<1> USE DEF IndInv
<1>1. PICK k \in itemKids : /\ request[l][k] = "none"
                            /\ request' = [request EXCEPT ![l][k] = "sent"]
                            /\ group' = [group EXCEPT ![l] = @ + 1]
  BY DEF EnterNext, Entered
<1>2. stage[l] = "looping" /\ UNCHANGED <<uiVars, main, started, stage, array>> /\ k \in Ids
      /\ UNCHANGED <<hasKids, itemKids, kids, loadingKids, tableRows>>
  BY DEF EnterNext, TypeOK, uiVars
<1>3. /\ request' \in [Loads -> [Ids -> RequestStates]] /\ request'[l][k] = "sent"
      /\ \A j \in Ids \ {k} : request'[l][j] = request[l][j]
      /\ \A m \in Loads \ {l} : request'[m] = request[m]
      /\ group' \in [Loads -> Nat] /\ group'[l] = group[l] + 1
      /\ \A m \in Loads \ {l} : group'[m] = group[m]
  BY <1>1, <1>2 DEF TypeOK, RequestStates
<1>4. TypeOK'
  BY <1>2, <1>3 DEF TypeOK
<1>5. StartedInOrder' /\ KidsAreOneLoad' /\ RowsInBounds' /\ LoadingTitleTrue'
  BY <1>2, <1>4, BackstageKeeps DEF TypeOK
<1>6. RequestsFollowLoop'
  <2>1. ASSUME NEW m \in Loads, NEW j \in Ids
        PROVE  /\ request'[m][j] # "none" => j \in itemKids /\ stage[m] # "unused"
               /\ j \in itemKids /\ stage[m] \notin {"unused", "looping"} => request'[m][j] # "none"
    <3>1. CASE m = l /\ j = k
      BY <1>2, <1>3, <3>1
    <3>2. CASE m # l \/ j # k
      BY <1>3, <3>2 DEF RequestsFollowLoop
    <3> QED BY <3>1, <3>2
  <2> QED BY <1>2, <2>1 DEF RequestsFollowLoop
<1>7. BlocksExpected'
  <2>1. ASSUME NEW b \in Block, Expected(b) PROVE Expected(b)'
    BY <1>1, <1>2, <1>3, <2>1, BlockTypes DEF Expected
  <2> QED BY <1>2, <2>1, MainFacts DEF BlocksExpected
<1>8. /\ Outstanding(l)' = Outstanding(l) \cup {k} /\ k \notin Outstanding(l)
      /\ \A m \in Loads \ {l} : Outstanding(m)' = Outstanding(m)
  <2>1. k \notin Outstanding(l)
    BY <1>1 DEF Outstanding
  <2>2. Outstanding(l)' = Outstanding(l) \cup {k}
    BY <1>2, <1>3 DEF Outstanding
  <2>3. ASSUME NEW m \in Loads \ {l} PROVE Outstanding(m)' = Outstanding(m)
    BY <1>3 DEF Outstanding
  <2> QED BY <2>1, <2>2, <2>3
<1>9. PublishesAfterLoop'
  <2>1. group'[l] = Cardinality(Outstanding(l)')
    <3>1. IsFiniteSet(Outstanding(l)) /\ group[l] = Cardinality(Outstanding(l))
      BY OutstandingFinite DEF PublishesAfterLoop
    <3>2. Cardinality(Outstanding(l) \cup {k}) = Cardinality(Outstanding(l)) + 1
      BY <1>8, <3>1, FS_AddElement
    <3> QED BY <1>3, <1>8, <3>1, <3>2
  <2>2. \A m \in Loads : {j \in Ids : request'[m][j] = "ok"} = {j \in Ids : request[m][j] = "ok"}
    <3>1. ASSUME NEW m \in Loads, NEW j \in Ids PROVE request'[m][j] = "ok" <=> request[m][j] = "ok"
      BY <1>1, <1>3
    <3> QED BY <3>1
  <2>3. ASSUME NEW m \in Loads
        PROVE  /\ group'[m] = Cardinality(Outstanding(m)')
               /\ IsInjective(array[m]) /\ Range(array[m]) = {j \in Ids : request'[m][j] = "ok"}
               /\ stage[m] \in {"publishing", "done"} => \A j \in itemKids : request'[m][j] \in {"ok", "failed"}
    <3>1. CASE m = l
      BY <1>2, <2>1, <2>2, <3>1 DEF PublishesAfterLoop
    <3>2. CASE m # l
      BY <1>3, <1>8, <2>2, <3>2 DEF PublishesAfterLoop
    <3> QED BY <3>1, <3>2
  <2> QED BY <1>2, <2>3 DEF PublishesAfterLoop
<1>10. NotifyNotMissed'
  BY <1>2, <1>8 DEF NotifyNotMissed
<1> QED BY <1>4, <1>5, <1>6, <1>7, <1>9, <1>10

(* notify(queue: main), after the loop.                                     *)
LEMMA NotifyInv == ASSUME IndInv, NEW l \in Loads, NotifyAfterLoop(l) PROVE IndInv'
<1> USE DEF IndInv
<1>1. /\ stage[l] = "looping" /\ (\A k \in itemKids : request[l][k] # "none")
      /\ UNCHANGED <<uiVars, started, group, request, array>>
      /\ UNCHANGED <<hasKids, itemKids, kids, loadingKids, tableRows>>
  BY DEF NotifyAfterLoop, Notify, uiVars
<1>2. PICK s \in {"publishing", "notifying"} :
        /\ stage' = [stage EXCEPT ![l] = s]
        /\ s = "publishing" <=> group[l] = 0
        /\ main' = IF group[l] = 0 THEN Append(main, PublishBlock(l)) ELSE main
  BY DEF NotifyAfterLoop, Notify
<1>3. /\ stage' \in [Loads -> Stages] /\ stage'[l] = s
      /\ \A m \in Loads \ {l} : stage'[m] = stage[m]
  BY <1>2 DEF TypeOK, Stages
<1>4. StartedInOrder' /\ KidsAreOneLoad' /\ RowsInBounds' /\ LoadingTitleTrue'
  BY <1>1, <1>3, BackstageKeeps
<1>5. main' \in Seq(Block) /\ BlocksExpected'
  <2>1. ASSUME NEW b \in Block, Expected(b) PROVE Expected(b)'
    BY <1>1, <1>3, <2>1, BlockTypes DEF Expected
  <2>2. CASE group[l] = 0
    <3>1. PublishBlock(l) \in Block /\ ~Expected(PublishBlock(l)) /\ Expected(PublishBlock(l))'
      BY <1>1, <1>2, <1>3, <2>2, BlockTypes DEF Expected
    <3> QED BY <1>2, <2>1, <2>2, <3>1, Enqueue
  <2>3. CASE group[l] # 0
    BY <1>2, <2>1, <2>3, MainFacts DEF BlocksExpected
  <2> QED BY <2>2, <2>3
<1>6. TypeOK'
  BY <1>1, <1>3, <1>5 DEF TypeOK
<1>7. RequestsFollowLoop'
  BY <1>1, <1>3 DEF RequestsFollowLoop
<1>8. IsFiniteSet(Outstanding(l)) /\ group[l] = Cardinality(Outstanding(l))
      /\ (group[l] = 0 <=> Outstanding(l) = {})
  BY OutstandingFinite, FS_EmptySet DEF PublishesAfterLoop
<1>9. PublishesAfterLoop'
  <2>1. ASSUME s = "publishing", NEW k \in itemKids PROVE request[l][k] \in {"ok", "failed"}
    BY <1>1, <1>2, <1>8, <2>1 DEF Outstanding, TypeOK, RequestStates
  <2> QED BY <1>1, <1>3, <2>1, LoadsKept
<1>10. NotifyNotMissed'
  <2>1. \A m \in Loads : Outstanding(m)' = Outstanding(m)
    BY <1>1 DEF Outstanding
  <2> QED BY <1>2, <1>3, <1>8, <2>1 DEF NotifyNotMissed
<1> QED BY <1>4, <1>5, <1>6, <1>7, <1>9, <1>10

LEMMA AnswerItemInv == ASSUME IndInv, NEW l \in Loads, NEW k \in Ids, AnswerItem(l, k) PROVE IndInv'
<1> USE DEF IndInv
<1>1. PICK r \in {"okQueued", "failedQueued"} : request' = [request EXCEPT ![l][k] = r]
  BY DEF AnswerItem
<1>2. /\ request[l][k] = "sent" /\ main' = Append(main, ItemBlock(l, k))
      /\ UNCHANGED <<uiVars, started, stage, group, array>>
      /\ UNCHANGED <<hasKids, itemKids, kids, loadingKids, tableRows>>
  BY DEF AnswerItem, uiVars
<1>3. /\ request' \in [Loads -> [Ids -> RequestStates]] /\ request'[l][k] = r
      /\ \A j \in Ids \ {k} : request'[l][j] = request[l][j]
      /\ \A m \in Loads \ {l} : request'[m] = request[m]
  BY <1>1 DEF TypeOK, RequestStates
<1>4. main' \in Seq(Block) /\ BlocksExpected'
  <2>1. ASSUME NEW b \in Block, Expected(b) PROVE Expected(b)'
    BY <1>2, <1>3, <2>1, BlockTypes DEF Expected
  <2>2. /\ ItemBlock(l, k) \in Block /\ ItemBlock(l, k).job = "item"
        /\ ItemBlock(l, k).load = l /\ ItemBlock(l, k).id = k
    BY BlockTypes
  <2>3. ~Expected(ItemBlock(l, k)) /\ Expected(ItemBlock(l, k))'
    BY <1>2, <1>3, <2>2 DEF Expected
  <2> QED BY <1>2, <2>1, <2>2, <2>3, Enqueue
<1>5. TypeOK'
  BY <1>2, <1>3, <1>4 DEF TypeOK
<1>6. StartedInOrder' /\ KidsAreOneLoad' /\ RowsInBounds' /\ LoadingTitleTrue'
  BY <1>2, <1>5, BackstageKeeps DEF TypeOK
<1>7. RequestsFollowLoop'
  <2>1. ASSUME NEW m \in Loads, NEW j \in Ids PROVE request'[m][j] = "none" <=> request[m][j] = "none"
    BY <1>2, <1>3
  <2> QED BY <1>2, <2>1 DEF RequestsFollowLoop
<1>8. ASSUME NEW m \in Loads
      PROVE  /\ Outstanding(m)' = Outstanding(m)
             /\ \A j \in Ids : /\ request'[m][j] = "ok" <=> request[m][j] = "ok"
                               /\ request[m][j] \in {"ok", "failed"} => request'[m][j] \in {"ok", "failed"}
  <2>1. ASSUME NEW j \in Ids
        PROVE  /\ request'[m][j] \in {"sent", "okQueued", "failedQueued"}
                    <=> request[m][j] \in {"sent", "okQueued", "failedQueued"}
               /\ request'[m][j] = "ok" <=> request[m][j] = "ok"
               /\ request[m][j] \in {"ok", "failed"} => request'[m][j] \in {"ok", "failed"}
    BY <1>2, <1>3
  <2> QED BY <2>1 DEF Outstanding
<1>9. PublishesAfterLoop'
  <2>1. itemKids \subseteq Ids
    BY DEF TypeOK
  <2>2. \A m \in Loads : {j \in Ids : request'[m][j] = "ok"} = {j \in Ids : request[m][j] = "ok"}
    BY <1>8
  <2> QED BY <1>2, <1>8, <2>1, <2>2 DEF PublishesAfterLoop
<1>10. NotifyNotMissed'
  BY <1>2, <1>8 DEF NotifyNotMissed
<1> QED BY <1>4, <1>5, <1>6, <1>7, <1>9, <1>10

-------------------------------------------------------------------------------
(* The handler of an item: what the closure does with it, whether the       *)
(* service gave one or not.                                                 *)
LEMMA ItemHandlerFacts ==
  ASSUME TypeOK, BlocksExpected, ItemHandler
  PROVE  \E l \in Loads, k \in Ids, r \in {"ok", "failed"} :
           /\ main # <<>> /\ Head(main) \in Block
           /\ Head(main).job = "item" /\ Head(main).load = l /\ Head(main).id = k
           /\ request[l][k] = IF r = "ok" THEN "okQueued" ELSE "failedQueued"
           /\ array' = IF r = "ok" THEN [array EXCEPT ![l] = Append(@, k)] ELSE array
           /\ request' = [request EXCEPT ![l][k] = r]
           /\ group' = [group EXCEPT ![l] = @ - 1]
           /\ IF group[l] = 1 /\ stage[l] = "notifying"
                THEN /\ stage' = [stage EXCEPT ![l] = "publishing"]
                     /\ main' = Append(Tail(main), PublishBlock(l))
                ELSE main' = Tail(main) /\ UNCHANGED stage
           /\ UNCHANGED <<uiVars, started>>
<1> DEFINE h == Head(main)
           l == h.load
           k == h.id
           ok == request[l][k] = "okQueued"
<1>1. /\ main # <<>> /\ h \in Block /\ h.job = "item" /\ l \in Loads /\ k \in Ids
      /\ request[l][k] \in {"okQueued", "failedQueued"}
  BY HeadExpected, BlockTypes DEF ItemHandler, Expected
<1>2. /\ group' = [group EXCEPT ![l] = @ - 1]
      /\ IF group[l] = 1 /\ stage[l] = "notifying"
           THEN /\ stage' = [stage EXCEPT ![l] = "publishing"]
                /\ main' = Append(Tail(main), PublishBlock(l))
           ELSE main' = Tail(main) /\ UNCHANGED stage
      /\ UNCHANGED <<uiVars, started>>
  BY DEF ItemHandler, LastLeave
<1>3. CASE ok
  <2>1. array' = [array EXCEPT ![l] = Append(@, k)] /\ request' = [request EXCEPT ![l][k] = "ok"]
    BY <1>3 DEF ItemHandler
  <2> QED BY <1>1, <1>2, <1>3, <2>1
<1>4. CASE ~ok
  <2>1. array' = array /\ request' = [request EXCEPT ![l][k] = "failed"]
    BY <1>4 DEF ItemHandler
  <2>2. request[l][k] = "failedQueued"
    BY <1>1, <1>4
  <2> QED BY <1>1, <1>2, <2>1, <2>2
<1> QED BY <1>3, <1>4

LEMMA ItemHandlerInv == ASSUME IndInv, ItemHandler PROVE IndInv'
<1> USE DEF IndInv
<1>1. PICK l \in Loads, k \in Ids, r \in {"ok", "failed"} :
        /\ main # <<>> /\ Head(main) \in Block
        /\ Head(main).job = "item" /\ Head(main).load = l /\ Head(main).id = k
        /\ request[l][k] = IF r = "ok" THEN "okQueued" ELSE "failedQueued"
        /\ array' = IF r = "ok" THEN [array EXCEPT ![l] = Append(@, k)] ELSE array
        /\ request' = [request EXCEPT ![l][k] = r]
        /\ group' = [group EXCEPT ![l] = @ - 1]
        /\ IF group[l] = 1 /\ stage[l] = "notifying"
             THEN /\ stage' = [stage EXCEPT ![l] = "publishing"]
                  /\ main' = Append(Tail(main), PublishBlock(l))
             ELSE main' = Tail(main) /\ UNCHANGED stage
        /\ UNCHANGED <<uiVars, started>>
  BY ItemHandlerFacts
<1>2. UNCHANGED <<hasKids, itemKids, kids, loadingKids, tableRows>>
  BY <1>1 DEF uiVars
<1>3. /\ request' \in [Loads -> [Ids -> RequestStates]] /\ request'[l][k] = r
      /\ \A j \in Ids \ {k} : request'[l][j] = request[l][j]
      /\ \A m \in Loads \ {l} : request'[m] = request[m]
  BY <1>1 DEF TypeOK, RequestStates
<1>4. /\ k \in Outstanding(l) /\ Outstanding(l)' = Outstanding(l) \ {k}
      /\ \A m \in Loads \ {l} : Outstanding(m)' = Outstanding(m)
  <2>1. k \in Outstanding(l)
    BY <1>1 DEF Outstanding
  <2>2. Outstanding(l)' = Outstanding(l) \ {k}
    BY <1>3 DEF Outstanding
  <2>3. ASSUME NEW m \in Loads \ {l} PROVE Outstanding(m)' = Outstanding(m)
    BY <1>3 DEF Outstanding
  <2> QED BY <2>1, <2>2, <2>3
(* The group of l was entered for k: its last handler is the one that finds *)
(* the count at one.                                                        *)
<1>5. /\ group' \in [Loads -> Nat] /\ group'[l] = Cardinality(Outstanding(l)')
      /\ \A m \in Loads \ {l} : group'[m] = group[m]
      /\ group[l] = 1 <=> Outstanding(l)' = {}
  <2>1. IsFiniteSet(Outstanding(l)) /\ group[l] = Cardinality(Outstanding(l)) /\ group[l] \in Nat
    BY OutstandingFinite DEF PublishesAfterLoop
  <2>2. IsFiniteSet(Outstanding(l) \ {k}) /\ Cardinality(Outstanding(l) \ {k}) = group[l] - 1
    BY <1>4, <2>1, FS_RemoveElement
  <2>3. group[l] - 1 \in Nat /\ (group[l] - 1 = 0 <=> Outstanding(l) \ {k} = {})
    BY <2>2, FS_CardinalityType, FS_EmptySet
  <2>4. group' \in [Loads -> Nat] /\ group'[l] = group[l] - 1 /\ \A m \in Loads \ {l} : group'[m] = group[m]
    BY <1>1, <2>3 DEF TypeOK
  <2> QED BY <1>4, <2>1, <2>2, <2>3, <2>4
<1>6. stage[l] \in {"looping", "notifying"}
  <2>1. request[l][k] \in {"okQueued", "failedQueued"}
    BY <1>1
  <2>2. stage[l] # "unused" /\ k \in itemKids
    BY <2>1 DEF RequestsFollowLoop
  <2>3. stage[l] \notin {"publishing", "done"}
    BY <2>1, <2>2 DEF PublishesAfterLoop
  <2> QED BY <2>2, <2>3 DEF TypeOK, Stages
<1>7. /\ stage' \in [Loads -> Stages] /\ \A m \in Loads \ {l} : stage'[m] = stage[m]
      /\ stage'[l] = IF Outstanding(l)' = {} /\ stage[l] = "notifying" THEN "publishing" ELSE stage[l]
  <2>1. CASE group[l] = 1 /\ stage[l] = "notifying"
    <3>1. stage' = [stage EXCEPT ![l] = "publishing"]
      BY <1>1, <2>1
    <3> QED BY <1>5, <2>1, <3>1 DEF TypeOK, Stages
  <2>2. CASE ~(group[l] = 1 /\ stage[l] = "notifying")
    <3>1. stage' = stage
      BY <1>1, <2>2
    <3> QED BY <1>5, <2>2, <3>1 DEF TypeOK
  <2> QED BY <2>1, <2>2
(* The array grows by an item it did not hold.                              *)
<1>8. /\ array' \in [Loads -> Seq(Ids)] /\ \A m \in Loads \ {l} : array'[m] = array[m]
      /\ IsInjective(array'[l]) /\ Range(array'[l]) = {j \in Ids : request'[l][j] = "ok"}
  <2>1. array[l] \in Seq(Ids) /\ IsInjective(array[l]) /\ Range(array[l]) = {j \in Ids : request[l][j] = "ok"}
    BY DEF PublishesAfterLoop, TypeOK
  <2>2. CASE r = "ok"
    <3>1. k \notin Range(array[l])
      BY <1>1, <2>1, <2>2
    <3>2. {j \in Ids : request'[l][j] = "ok"} = {j \in Ids : request[l][j] = "ok"} \cup {k}
      BY <1>3, <2>2
    <3>3. /\ Append(array[l], k) \in Seq(Ids) /\ IsInjective(Append(array[l], k))
          /\ Range(Append(array[l], k)) = Range(array[l]) \cup {k}
      BY <2>1, <3>1, AppendFacts
    <3>4. /\ array' = [array EXCEPT ![l] = Append(array[l], k)] /\ array'[l] = Append(array[l], k)
          /\ \A m \in Loads \ {l} : array'[m] = array[m]
      BY <1>1, <2>2 DEF TypeOK
    <3>5. array' \in [Loads -> Seq(Ids)]
      BY <3>3, <3>4 DEF TypeOK
    <3> QED BY <2>1, <3>2, <3>3, <3>4, <3>5
  <2>3. CASE r = "failed"
    <3>1. {j \in Ids : request'[l][j] = "ok"} = {j \in Ids : request[l][j] = "ok"}
      BY <1>1, <1>3, <2>3
    <3> QED BY <1>1, <2>1, <2>3, <3>1 DEF TypeOK
  <2> QED BY <2>2, <2>3
<1>9. main' \in Seq(Block) /\ BlocksExpected'
  <2>1. ASSUME NEW b \in Block, b # Head(main), Expected(b) PROVE Expected(b)'
    <3>1. CASE b.job = "item"
      <4>1. ~(b.load = l /\ b.id = k)
        BY <1>1, <2>1, <3>1, BlockTypes
      <4> QED BY <1>3, <2>1, <3>1, <4>1, BlockTypes DEF Expected
    <3>2. CASE b.job # "item"
      BY <1>6, <1>7, <2>1, <3>2, BlockTypes DEF Expected
    <3> QED BY <3>1, <3>2
  <2>2. CASE group[l] = 1 /\ stage[l] = "notifying"
    <3>1. stage'[l] = "publishing"
      BY <1>5, <1>7, <2>2
    <3>2. PublishBlock(l) \in Block /\ ~Expected(PublishBlock(l)) /\ Expected(PublishBlock(l))'
      BY <2>2, <3>1, BlockTypes DEF Expected
    <3> QED BY <1>1, <2>1, <2>2, <3>2, Requeue
  <2>3. CASE ~(group[l] = 1 /\ stage[l] = "notifying")
    BY <1>1, <2>1, <2>3, Dequeue
  <2> QED BY <2>2, <2>3
<1>10. TypeOK'
  BY <1>1, <1>2, <1>3, <1>5, <1>7, <1>8, <1>9 DEF TypeOK
<1>11. StartedInOrder' /\ KidsAreOneLoad' /\ RowsInBounds' /\ LoadingTitleTrue'
  <2>1. \A m \in Loads : /\ stage'[m] = "unused" <=> stage[m] = "unused"
                         /\ stage'[m] = "done" <=> stage[m] = "done"
                         /\ stage[m] = "done" => array'[m] = array[m]
    BY <1>6, <1>7, <1>8
  <2> QED BY <1>1, <1>7, <2>1, BackstageKeeps
<1>12. RequestsFollowLoop'
  <2>1. ASSUME NEW m \in Loads, NEW j \in Ids
        PROVE  /\ request'[m][j] = "none" <=> request[m][j] = "none"
               /\ stage'[m] = "unused" <=> stage[m] = "unused"
               /\ stage'[m] \in {"unused", "looping"} <=> stage[m] \in {"unused", "looping"}
    BY <1>1, <1>3, <1>6, <1>7
  <2> QED BY <1>2, <2>1 DEF RequestsFollowLoop
<1>13. PublishesAfterLoop'
  <2>1. ASSUME stage'[l] \in {"publishing", "done"}, NEW j \in itemKids
        PROVE  request'[l][j] \in {"ok", "failed"}
    <3>1. Outstanding(l)' = {} /\ stage[l] = "notifying" /\ j \in Ids
      BY <1>6, <1>7, <2>1 DEF TypeOK
    <3>2. request[l][j] # "none"
      BY <2>1, <3>1 DEF RequestsFollowLoop
    <3>3. request'[l][j] # "none" /\ request'[l][j] \in RequestStates
      BY <1>3, <3>1, <3>2
    <3> QED BY <3>1, <3>3 DEF Outstanding, RequestStates
  <2>2. ASSUME NEW m \in Loads
        PROVE  /\ group'[m] = Cardinality(Outstanding(m)')
               /\ IsInjective(array'[m]) /\ Range(array'[m]) = {j \in Ids : request'[m][j] = "ok"}
               /\ stage'[m] \in {"publishing", "done"} => \A j \in itemKids : request'[m][j] \in {"ok", "failed"}
    <3>1. CASE m = l
      BY <1>5, <1>8, <2>1, <3>1
    <3>2. CASE m # l
      <4>1. /\ request'[m] = request[m] /\ Outstanding(m)' = Outstanding(m) /\ group'[m] = group[m]
            /\ stage'[m] = stage[m] /\ array'[m] = array[m]
        BY <1>3, <1>4, <1>5, <1>7, <1>8, <3>2
      <4> QED BY <4>1 DEF PublishesAfterLoop
    <3> QED BY <3>1, <3>2
  <2> QED BY <1>2, <2>2 DEF PublishesAfterLoop
<1>14. NotifyNotMissed'
  BY <1>4, <1>7 DEF NotifyNotMissed
<1> QED BY <1>9, <1>10, <1>11, <1>12, <1>13, <1>14

(* The notify block.                                                        *)
LEMMA PublishFacts ==
  ASSUME TypeOK, BlocksExpected, Publish
  PROVE  \E l \in Loads :
           /\ main # <<>> /\ Head(main) \in Block /\ Head(main).job = "publish" /\ Head(main).load = l
           /\ stage[l] = "publishing" /\ stage' = [stage EXCEPT ![l] = "done"]
           /\ kids' = array[l] /\ loadingKids' = FALSE /\ tableRows' = Len(array[l])
           /\ main' = Tail(main)
           /\ UNCHANGED <<hasKids, itemKids, started, group, request, array>>
<1>1. main # <<>> /\ Head(main) \in Block /\ Head(main).job = "publish" /\ Head(main).load \in Loads
      /\ stage[Head(main).load] = "publishing"
  BY HeadExpected, BlockTypes DEF Publish, Expected
<1> QED BY <1>1 DEF Publish, Replaced, Completion

LEMMA PublishInv == ASSUME IndInv, Publish PROVE IndInv'
<1> USE DEF IndInv
<1>1. PICK l \in Loads :
        /\ main # <<>> /\ Head(main) \in Block /\ Head(main).job = "publish" /\ Head(main).load = l
        /\ stage[l] = "publishing" /\ stage' = [stage EXCEPT ![l] = "done"]
        /\ kids' = array[l] /\ loadingKids' = FALSE /\ tableRows' = Len(array[l])
        /\ main' = Tail(main)
        /\ UNCHANGED <<hasKids, itemKids, started, group, request, array>>
  BY PublishFacts
<1>2. /\ stage' \in [Loads -> Stages] /\ stage'[l] = "done"
      /\ \A m \in Loads \ {l} : stage'[m] = stage[m]
  BY <1>1 DEF TypeOK, Stages
<1>3. main' \in Seq(Block) /\ BlocksExpected'
  <2>1. ASSUME NEW b \in Block, b # Head(main), Expected(b) PROVE Expected(b)'
    <3>1. CASE b.job = "item"
      BY <1>1, <2>1, <3>1 DEF Expected
    <3>2. CASE b.job = "publish"
      <4>1. b.load # l
        BY <1>1, <2>1, <3>2, BlockTypes
      <4> QED BY <1>2, <2>1, <3>2, <4>1, BlockTypes DEF Expected
    <3> QED BY <3>1, <3>2, BlockTypes
  <2> QED BY <1>1, <2>1, Dequeue
<1>4. TypeOK'
  <2>1. kids' \in Seq(Ids) /\ tableRows' \in Nat
    BY <1>1 DEF TypeOK
  <2> QED BY <1>1, <1>2, <1>3, <2>1 DEF TypeOK
<1>5. l \in 1..started /\ started > 0 /\ 1..started \subseteq Loads
  <2>1. ~(l > started)
    BY <1>1 DEF StartedInOrder
  <2>2. started \in Nat /\ started <= MaxLoads
    BY MaxLoadsAssumption DEF TypeOK
  <2> QED BY <2>1, <2>2, MaxLoadsAssumption DEF Loads
<1>6. StartedInOrder'
  <2>1. \A m \in Loads : stage'[m] = "unused" <=> stage[m] = "unused"
    BY <1>1, <1>2
  <2> QED BY <1>1, <1>5, <2>1 DEF StartedInOrder
<1>7. RequestsFollowLoop'
  BY <1>1, <1>2 DEF RequestsFollowLoop
<1>8. PublishesAfterLoop'
  BY <1>1, <1>2, LoadsKept
<1>9. NotifyNotMissed'
  <2>1. \A m \in Loads : Outstanding(m)' = Outstanding(m)
    BY <1>1 DEF Outstanding
  <2> QED BY <1>2, <2>1 DEF NotifyNotMissed
<1>10. KidsAreOneLoad' /\ RowsInBounds'
  BY <1>1, <1>2 DEF KidsAreOneLoad, RowsInBounds
<1>11. LoadingTitleTrue'
  BY <1>1, <1>2, <1>5 DEF LoadingTitleTrue
<1> QED BY <1>3, <1>4, <1>6, <1>7, <1>8, <1>9, <1>10, <1>11

LEMMA StutterInv == ASSUME IndInv, UNCHANGED vars PROVE IndInv'
<1> USE DEF IndInv, vars
<1>1. TypeOK' /\ StartedInOrder' /\ RequestsFollowLoop' /\ BlocksExpected'
  BY DEF TypeOK, StartedInOrder, RequestsFollowLoop, BlocksExpected, Expected
<1>2. PublishesAfterLoop'
  BY LoadsKept
<1>3. NotifyNotMissed' /\ KidsAreOneLoad' /\ RowsInBounds' /\ LoadingTitleTrue'
  BY DEF NotifyNotMissed, Outstanding, KidsAreOneLoad, RowsInBounds, LoadingTitleTrue
<1> QED BY <1>1, <1>2, <1>3

LEMMA NextInv == IndInv /\ [Next]_vars => IndInv'
<1> SUFFICES ASSUME IndInv, [Next]_vars PROVE IndInv'
  OBVIOUS
<1>1. CASE UNCHANGED vars
  BY <1>1, StutterInv
<1>2. CASE ViewWillAppear /\ ~UNCHANGED vars
  BY <1>2, ViewWillAppearInv
<1>3. CASE MainQueue
  BY <1>3, ItemHandlerInv, PublishInv DEF MainQueue
<1>4. CASE \E l \in Loads : Background(l) \/ \E k \in Ids : AnswerItem(l, k)
  BY <1>4, EnterNextInv, NotifyInv, AnswerItemInv DEF Background
<1> QED BY <1>1, <1>2, <1>3, <1>4 DEF Next

(* In every state, for any number of loads and any finite set of items: the *)
(* blocks of the main queue, the groups and the arrays of the loads fit     *)
(* together (DetailViewController.reloadData).                              *)
THEOREM Invariance == Spec => []IndInv
  BY InitInv, NextInv, PTL DEF Spec

(* The types: in particular no group is left more often than it was entered.*)
THEOREM TypeCorrect == Spec => []TypeOK
<1>1. IndInv => TypeOK
  BY DEF IndInv
<1> QED BY <1>1, Invariance, PTL

(* The screen is sound: a load publishes its whole array after its loop and *)
(* every handler, none waits on an empty group, rows are indexed in bounds  *)
(* and the title follows the loads, although handlers run during the loop.  *)
THEOREM ScreenIsSafe == Spec => []ScreenSafe
<1>1. IndInv => ScreenSafe
  BY DEF IndInv, ScreenSafe
<1> QED BY <1>1, Invariance, PTL

-------------------------------------------------------------------------------
(* What ItemFeed promises                                                   *)

(* What ImplementsFeed makes of the loads of the screen.                    *)
Phase == [l \in Loads |-> CASE stage[l] = "unused" -> "idle"
                            [] stage[l] = "done" -> "ended"
                            [] OTHER -> "running"]
Offered == [l \in Loads |-> {k \in Ids : request[l][k] \in {"okQueued", "ok"}}]

LEMMA PhaseFacts ==
  /\ Phase \in [Loads -> {"idle", "running", "ended"}]
  /\ \A l \in Loads : /\ Phase[l] = "idle" <=> stage[l] = "unused"
                      /\ Phase[l] = "ended" <=> stage[l] = "done"
  BY DEF Phase

(* Loads that a step neither starts nor ends, and that it offers nothing.   *)
LEMMA SamePhase ==
  ASSUME \A l \in Loads : /\ stage'[l] = "unused" <=> stage[l] = "unused"
                          /\ stage'[l] = "done" <=> stage[l] = "done"
  PROVE  Phase' = Phase
<1>1. ASSUME NEW l \in Loads PROVE Phase'[l] = Phase[l]
  BY DEF Phase
<1> QED BY <1>1 DEF Phase

LEMMA SameOffer ==
  ASSUME \A l \in Loads : \A k \in Ids :
           request'[l][k] \in {"okQueued", "ok"} <=> request[l][k] \in {"okQueued", "ok"}
  PROVE  Offered' = Offered
<1>1. ASSUME NEW l \in Loads
      PROVE  {k \in Ids : request'[l][k] \in {"okQueued", "ok"}}
               = {k \in Ids : request[l][k] \in {"okQueued", "ok"}}
  OBVIOUS
<1> QED BY <1>1 DEF Offered

LEMMA InitFeed == Init => Feed!Init
<1> SUFFICES ASSUME Init PROVE kids = <<>> /\ Phase = [l \in Loads |-> "idle"] /\ Offered = [l \in Loads |-> {}]
  BY DEF Feed!Init, Phase, Offered
<1>1. ASSUME NEW l \in Loads PROVE Phase[l] = "idle" /\ Offered[l] = {}
  BY DEF Init, Phase, Offered
<1> QED BY <1>1 DEF Init, Phase, Offered

(* One step of the screen, in the terms of ItemFeed.                        *)
FeedStep ==
  \/ UNCHANGED <<kids, Phase, Offered>>
  \/ \E l \in Loads :
       \/ /\ Phase[l] = "idle" /\ Phase' = [Phase EXCEPT ![l] = "running"]
          /\ UNCHANGED <<kids, Offered>>
       \/ /\ Phase[l] = "running" /\ Phase' = [Phase EXCEPT ![l] = "ended"]
          /\ kids' \in SetToSeqs(Offered[l]) /\ UNCHANGED Offered
       \/ \E k \in Ids : /\ Phase[l] = "running" /\ k \notin Offered[l]
                         /\ Offered' = [Offered EXCEPT ![l] = @ \cup {k}]
                         /\ UNCHANGED <<kids, Phase>>

(* The library of ItemFeed is that of the screen.                           *)
LEMMA OrdersOfFeed == \A S : Feed!SetToSeqs(S) = SetToSeqs(S)
<1>1. \A S : Feed!Cardinality(S) = Cardinality(S)
  BY DEF Feed!Cardinality, Cardinality
<1> QED BY <1>1 DEF Feed!SetToSeqs, SetToSeqs

LEMMA FeedStepIsNext == FeedStep => [Feed!Next]_(Feed!vars)
<1>1. ASSUME UNCHANGED <<kids, Phase, Offered>> PROVE UNCHANGED Feed!vars
  BY <1>1 DEF Feed!vars, Phase, Offered
<1>2. ASSUME NEW l \in Loads, Phase[l] = "idle", Phase' = [Phase EXCEPT ![l] = "running"],
             UNCHANGED <<kids, Offered>>
      PROVE  Feed!Start(l)
  BY <1>2 DEF Feed!Start, Phase, Offered
<1>3. ASSUME NEW l \in Loads, Phase[l] = "running", Phase' = [Phase EXCEPT ![l] = "ended"],
             kids' \in SetToSeqs(Offered[l]), UNCHANGED Offered
      PROVE  Feed!End(l)
  <2>1. kids' \in Feed!SetToSeqs(Offered[l])
    BY <1>3, OrdersOfFeed
  <2> QED BY <1>3, <2>1 DEF Feed!End, Phase, Offered
<1>4. ASSUME NEW l \in Loads, NEW k \in Ids, Phase[l] = "running", k \notin Offered[l],
             Offered' = [Offered EXCEPT ![l] = @ \cup {k}], UNCHANGED <<kids, Phase>>
      PROVE  Feed!Offer(l, k)
  BY <1>4 DEF Feed!Offer, Phase, Offered
<1> QED BY <1>1, <1>2, <1>3, <1>4 DEF FeedStep, Feed!Next

LEMMA StartFeed == ASSUME IndInv, ViewWillAppear PROVE FeedStep
<1> USE DEF IndInv
<1>1. CASE UNCHANGED <<kids, stage, request>>
  BY <1>1, SamePhase, SameOffer DEF FeedStep
<1>2. CASE ~UNCHANGED <<kids, stage, request>>
  <2> DEFINE n == started + 1
  <2>1. stage' = [stage EXCEPT ![n] = "looping"] /\ UNCHANGED <<kids, request>> /\ started < MaxLoads
    BY <1>2 DEF ViewWillAppear, vars, uiVars
  <2>2. n \in Loads /\ stage[n] = "unused"
    BY <2>1, MaxLoadsAssumption DEF TypeOK, StartedInOrder, Loads
  <2>3. stage'[n] = "looping" /\ \A l \in Loads \ {n} : stage'[l] = stage[l]
    BY <2>1, <2>2 DEF TypeOK
  <2> HIDE DEF n
  <2>4. Phase[n] = "idle" /\ Phase'[n] = "running" /\ \A l \in Loads \ {n} : Phase'[l] = Phase[l]
    BY <2>2, <2>3 DEF Phase
  <2>5. Phase' = [Phase EXCEPT ![n] = "running"]
    BY <2>2, <2>4 DEF Phase
  <2>6. Offered' = Offered
    BY <2>1, SameOffer
  <2> QED BY <2>1, <2>2, <2>4, <2>5, <2>6 DEF FeedStep
<1> QED BY <1>1, <1>2

(* The loop, notify and the handlers are hidden.                            *)
LEMMA LoopFeed == ASSUME IndInv, NEW l \in Loads, Background(l) PROVE FeedStep
<1> USE DEF IndInv
<1>1. kids' = kids
  BY DEF Background, EnterNext, NotifyAfterLoop, Notify, uiVars
<1>2. stage[l] = "looping"
  BY DEF Background, EnterNext, NotifyAfterLoop, Notify
<1>3. \E s \in {"looping", "publishing", "notifying"} : stage' = [stage EXCEPT ![l] = s]
  <2>1. stage = [stage EXCEPT ![l] = "looping"]
    BY <1>2 DEF TypeOK
  <2> QED BY <2>1 DEF Background, EnterNext, NotifyAfterLoop, Notify
<1>4. Phase' = Phase
  <2>1. \A m \in Loads : /\ stage'[m] = "unused" <=> stage[m] = "unused"
                         /\ stage'[m] = "done" <=> stage[m] = "done"
    BY <1>2, <1>3 DEF TypeOK
  <2> QED BY <2>1, SamePhase
<1>5. Offered' = Offered
  <2>1. CASE UNCHANGED request
    BY <2>1, SameOffer
  <2>2. ASSUME NEW k \in Ids, request[l][k] = "none", request' = [request EXCEPT ![l][k] = "sent"]
        PROVE  Offered' = Offered
    <3>1. ASSUME NEW m \in Loads, NEW j \in Ids
          PROVE  request'[m][j] \in {"okQueued", "ok"} <=> request[m][j] \in {"okQueued", "ok"}
      BY <2>2 DEF TypeOK
    <3> QED BY <3>1, SameOffer
  <2>3. itemKids \subseteq Ids
    BY DEF TypeOK
  <2> QED BY <2>1, <2>2, <2>3 DEF Background, EnterNext, NotifyAfterLoop, Notify
<1> QED BY <1>1, <1>4, <1>5 DEF FeedStep

LEMMA HandlerFeed == ASSUME IndInv, ItemHandler PROVE FeedStep
<1> USE DEF IndInv
<1>1. PICK l \in Loads, k \in Ids, r \in {"ok", "failed"} :
        /\ request[l][k] = IF r = "ok" THEN "okQueued" ELSE "failedQueued"
        /\ request' = [request EXCEPT ![l][k] = r]
        /\ stage' \in {stage, [stage EXCEPT ![l] = "publishing"]}
        /\ stage' # stage => stage[l] = "notifying"
        /\ kids' = kids
  BY ItemHandlerFacts DEF uiVars
<1>2. Offered' = Offered
  <2>1. ASSUME NEW m \in Loads, NEW j \in Ids
        PROVE  request'[m][j] \in {"okQueued", "ok"} <=> request[m][j] \in {"okQueued", "ok"}
    BY <1>1 DEF TypeOK
  <2> QED BY <2>1, SameOffer
<1>3. Phase' = Phase
  <2>1. \A m \in Loads : /\ stage'[m] = "unused" <=> stage[m] = "unused"
                         /\ stage'[m] = "done" <=> stage[m] = "done"
    BY <1>1 DEF TypeOK
  <2> QED BY <2>1, SamePhase
<1> QED BY <1>1, <1>2, <1>3 DEF FeedStep

(* The answer of the service is what is offered, when it is an item.        *)
LEMMA AnswerFeed == ASSUME IndInv, NEW l \in Loads, NEW k \in Ids, AnswerItem(l, k) PROVE FeedStep
<1> USE DEF IndInv
<1>1. PICK r \in {"okQueued", "failedQueued"} : request' = [request EXCEPT ![l][k] = r]
  BY DEF AnswerItem
<1>2. request[l][k] = "sent" /\ UNCHANGED <<kids, stage>>
  BY DEF AnswerItem, uiVars
<1>3. Phase' = Phase
  BY <1>2, SamePhase
<1>4. /\ request'[l][k] = r /\ \A j \in Ids \ {k} : request'[l][j] = request[l][j]
      /\ \A m \in Loads \ {l} : request'[m] = request[m]
  BY <1>1 DEF TypeOK
<1>5. CASE r = "failedQueued"
  <2>1. Offered' = Offered
    BY <1>2, <1>4, <1>5, SameOffer
  <2> QED BY <1>2, <1>3, <2>1 DEF FeedStep
<1>6. CASE r = "okQueued"
  <2>1. stage[l] \notin {"unused", "done"}
    BY <1>2 DEF RequestsFollowLoop, PublishesAfterLoop
  <2>2. Phase[l] = "running"
    BY <2>1, PhaseFacts
  <2>3. k \notin Offered[l] /\ Offered'[l] = Offered[l] \cup {k}
        /\ \A m \in Loads \ {l} : Offered'[m] = Offered[m]
    BY <1>2, <1>4, <1>6 DEF Offered
  <2>4. Offered' = [Offered EXCEPT ![l] = @ \cup {k}]
    BY <2>3 DEF Offered
  <2> QED BY <1>2, <1>3, <2>2, <2>3, <2>4 DEF FeedStep
<1> QED BY <1>5, <1>6

(* The notify block ends the load with all that was offered to it.          *)
LEMMA PublishFeed == ASSUME IndInv, Publish PROVE FeedStep
<1> USE DEF IndInv
<1>1. PICK l \in Loads : /\ stage[l] = "publishing" /\ stage' = [stage EXCEPT ![l] = "done"]
                         /\ kids' = array[l] /\ request' = request
  BY PublishFacts
<1>2. stage'[l] = "done" /\ \A m \in Loads \ {l} : stage'[m] = stage[m]
  BY <1>1 DEF TypeOK
<1>3. Phase[l] = "running" /\ Phase'[l] = "ended" /\ \A m \in Loads \ {l} : Phase'[m] = Phase[m]
  BY <1>1, <1>2 DEF Phase
<1>4. Phase' = [Phase EXCEPT ![l] = "ended"]
  BY <1>3 DEF Phase
<1>5. Offered' = Offered
  BY <1>1, SameOffer
<1>6. Offered[l] = Range(array[l])
  <2>1. ASSUME NEW k \in Ids PROVE request[l][k] # "okQueued"
    BY <1>1 DEF RequestsFollowLoop, PublishesAfterLoop
  <2>2. Range(array[l]) = {k \in Ids : request[l][k] = "ok"}
    BY DEF PublishesAfterLoop
  <2> QED BY <2>1, <2>2 DEF Offered
<1>7. array[l] \in SetToSeqs(Range(array[l]))
  BY OrderOfRange DEF PublishesAfterLoop, TypeOK
<1> QED BY <1>1, <1>3, <1>4, <1>5, <1>6, <1>7 DEF FeedStep

LEMMA NextFeed == IndInv /\ [Next]_vars => [Feed!Next]_(Feed!vars)
<1> SUFFICES ASSUME IndInv, [Next]_vars PROVE FeedStep
  BY FeedStepIsNext
<1>1. CASE UNCHANGED vars
  BY <1>1, SamePhase, SameOffer DEF vars, FeedStep
<1>2. CASE ViewWillAppear
  BY <1>2, StartFeed
<1>3. CASE MainQueue
  BY <1>3, HandlerFeed, PublishFeed DEF MainQueue
<1>4. CASE \E l \in Loads : Background(l) \/ \E k \in Ids : AnswerItem(l, k)
  BY <1>4, LoopFeed, AnswerFeed
<1> QED BY <1>1, <1>2, <1>3, <1>4 DEF Next

(* The safety half of ImplementsFeed, step by step: a load ends once, and   *)
(* then the kids are the items it was offered, each once, all of them.      *)
THEOREM StepsOfFeed == Spec => Feed!Init /\ [][Feed!Next]_(Feed!vars)
  BY Invariance, InitFeed, NextFeed, PTL DEF Spec
===============================================================================
