--------------------------- MODULE NotifierProofs ---------------------------
(***************************************************************************)
(* Proofs about the notifiers of a Realm.  CallbackList: the list, the index*)
(* and the count that the loop and everybody else change stay in step, for *)
(* any number of callbacks and of passes of the worker.  Notifications: the*)
(* versions the worker and the advancer hold, the versions collections are *)
(* delivered into, and that what a callback is told is what happened since *)
(* it was told last, for any number of Realms, notifiers and versions.     *)
(***************************************************************************)
EXTENDS CallbackList, Notifications, TLAPS

\* Positions the loop has been at
Passed == IF running # 0 THEN index + 1 ELSE index

InDelivery == phase \in {"packaged", "before", "advanced", "after"}

\* The types, apart from the Boolean flag, which its own conjunct determines
Typed ==
    /\ list \in Seq(Callback) /\ Len(list) <= MaxTokens
    /\ next \in 0..MaxTokens /\ index \in NPos..MaxTokens /\ count \in Int
    /\ phase \in {"idle", "packaged", "advanced", "reading"} \cup Loops
    /\ running \in 0..MaxTokens /\ size \in 0..MaxTokens /\ passes \in 0..MaxPasses
    /\ outside \in BOOLEAN /\ packaged \subseteq Tokens /\ called \subseteq Tokens
    /\ due \in [Tokens -> SUBSET Passes]

\* Tokens are given out once, in increasing order.
TokensAreFresh ==
    /\ Len(list) <= next /\ packaged \subseteq 1..next /\ called \subseteq 1..next
    /\ \A i \in 1..Len(list) : list[i].token <= next
    /\ \A i, j \in 1..Len(list) : list[i].token = list[j].token => i = j
    /\ \A t \in Tokens : t > next => due[t] = {}

\* Where the index may be
IndexIsInside ==
    /\ phase \notin Loops => index = NPos /\ running = 0
    /\ running # 0 => index < Len(list)
    /\ phase \in Loops /\ running = 0 => index \in 0..Len(list)

\* The callbacks of the package come first in the list, and are as many as the count says.
PackageComesFirst ==
    InDelivery => /\ count \in 0..Len(list)
                  /\ \A i \in 1..Len(list) : list[i].token \in packaged <=> i <= count

\* Only the callbacks of the package that the loop has not come to hold changes to be told.
OutIsToCome ==
    \A i \in 1..Len(list) :
        list[i].out # {} => InDelivery /\ i <= count /\ (phase = "after" => i > Passed)

ToldWhenPassed == phase = "after" => \A i \in 1..Len(list) : i <= Passed => list[i].told

\* Passes are numbered, and none is in both sets of a callback.
ChangesAreSplit ==
    \A i \in 1..Len(list) : /\ list[i].acc \cap list[i].out = {}
                            /\ list[i].acc \cup list[i].out \subseteq 1..passes

CalledWhenPassed ==
    phase \in Loops => \A i \in 1..Len(list) : list[i].token \in called => i <= Passed

CallbacksInv == /\ Typed
          /\ TokensAreFresh /\ IndexIsInside /\ PackageComesFirst
          /\ OutIsToCome /\ ToldWhenPassed /\ ChangesAreSplit /\ CalledWhenPassed
          /\ HaveIsRight /\ NothingLost

USE CallbackListAssumption DEF Tokens, Passes, NPos, Loops

LEMMA CallbacksInitInv == CallbacksInit => CallbacksInv
  <1> SUFFICES ASSUME CallbacksInit PROVE CallbacksInv
    OBVIOUS
  <1>1. Typed
    <2>1. list \in Seq(Callback) /\ Len(list) = 0 /\ due \in [Tokens -> SUBSET Passes]
      BY DEF CallbacksInit
    <2>2. outside \in BOOLEAN
      BY DEF CallbacksInit
    <2>3. QED
      BY <2>1, <2>2 DEF CallbacksInit, Typed
  <1>2. TokensAreFresh /\ IndexIsInside /\ PackageComesFirst
    BY DEF CallbacksInit, TokensAreFresh, IndexIsInside, PackageComesFirst, InDelivery
  <1>3. OutIsToCome /\ ToldWhenPassed /\ ChangesAreSplit /\ CalledWhenPassed /\ NothingLost
    BY DEF CallbacksInit, OutIsToCome, ToldWhenPassed, ChangesAreSplit, CalledWhenPassed, NothingLost
  <1>4. HaveIsRight
    BY DEF CallbacksInit, HaveIsRight
  <1>5. QED
    BY <1>1, <1>2, <1>3, <1>4 DEF CallbacksInv

LEMMA EntryFacts ==
  ASSUME list \in Seq(Callback), NEW i \in 1..Len(list)
  PROVE  /\ list[i] \in Callback /\ list[i].token \in Tokens /\ list[i].token \in Int
         /\ list[i].acc \subseteq Passes /\ list[i].out \subseteq Passes
  <1>1. list[i] \in Callback
    OBVIOUS
  <1>2. QED
    BY <1>1 DEF Callback

(* A list without one of its callbacks.                                     *)
LEMMA WithoutFacts ==
  ASSUME list \in Seq(Callback), NEW i \in 1..Len(list)
  PROVE  /\ Without(i) \in Seq(Callback) /\ Len(Without(i)) = Len(list) - 1
         /\ \A j \in 1..(Len(list) - 1) : Without(i)[j] = IF j < i THEN list[j] ELSE list[j + 1]
  BY DEF Without

LEMMA PositionFacts ==
  ASSUME list \in Seq(Callback), NEW t \in Present
  PROVE  Position(t) \in 1..Len(list) /\ list[Position(t)].token = t
  BY DEF Present, Position

LEMMA AddTokenStep == CallbacksInv /\ AddToken => CallbacksInv'
  <1> SUFFICES ASSUME CallbacksInv, AddToken PROVE CallbacksInv'
    OBVIOUS
  <1> DEFINE new == [token |-> next + 1, acc |-> {}, out |-> {}, told |-> FALSE]
  <1>1. /\ list \in Seq(Callback) /\ list' = Append(list, new) /\ next' = next + 1 /\ next < MaxTokens
        /\ next \in Nat /\ new \in Callback
    BY DEF CallbacksInv, Typed, AddToken, Callback
  <1>2. /\ list' \in Seq(Callback) /\ Len(list') = Len(list) + 1 /\ Len(list) \in Nat
        /\ \A i \in 1..Len(list) : list'[i] = list[i]
        /\ list'[Len(list) + 1] = new
    BY <1>1
  <1>3. /\ UNCHANGED <<index, count, phase, running, size, passes, outside, packaged, called, due>>
        /\ Passed' = Passed /\ (InDelivery' <=> InDelivery)
    BY DEF AddToken, Passed, InDelivery
  <1>4. /\ Len(list) <= next /\ packaged \subseteq 1..next /\ called \subseteq 1..next
        /\ \A i \in 1..Len(list) : list[i].token <= next
        /\ phase \in Loops => Passed <= Len(list)
    BY <1>2 DEF CallbacksInv, TokensAreFresh, Typed, IndexIsInside, Passed, AddToken, InUserCode
  <1>5. Typed'
    BY <1>1, <1>2, <1>3, <1>4 DEF CallbacksInv, Typed
  <1>6. TokensAreFresh'
    <2>1. Len(list') <= next' /\ packaged' \subseteq 1..next' /\ called' \subseteq 1..next'
      BY <1>1, <1>2, <1>3, <1>4
    <2>2. \A i \in 1..Len(list') : list'[i].token <= next'
      <3>1. \A i \in 1..Len(list) : list[i].token \in Int
        BY <1>1, EntryFacts
      <3>2. ASSUME NEW i \in 1..Len(list') PROVE list'[i].token <= next'
        <4>1. CASE i \in 1..Len(list)
          BY <1>1, <1>2, <1>4, <3>1, <4>1
        <4>2. CASE i = Len(list) + 1
          BY <1>1, <1>2, <4>2
        <4>3. QED
          BY <1>2, <4>1, <4>2
      <3>3. QED
        BY <3>2
    <2>3. \A i, j \in 1..Len(list') : list'[i].token = list'[j].token => i = j
      BY <1>1, <1>2, <1>4 DEF CallbacksInv, TokensAreFresh
    <2>4. \A t \in Tokens : t > next' => due'[t] = {}
      BY <1>1, <1>3 DEF CallbacksInv, TokensAreFresh
    <2>5. QED
      BY <2>1, <2>2, <2>3, <2>4 DEF TokensAreFresh
  <1>7. IndexIsInside' /\ PackageComesFirst'
    BY <1>1, <1>2, <1>3, <1>4 DEF CallbacksInv, IndexIsInside, PackageComesFirst, Typed
  <1>8. OutIsToCome' /\ CalledWhenPassed'
    BY <1>1, <1>2, <1>3, <1>4 DEF CallbacksInv, OutIsToCome, CalledWhenPassed
  <1>9. ToldWhenPassed'
    <2>1. SUFFICES ASSUME phase = "after", NEW i \in 1..Len(list'), i <= Passed PROVE list'[i].told
      BY <1>3 DEF ToldWhenPassed
    <2>2. i \in 1..Len(list)
      BY <1>2, <1>4, <2>1 DEF CallbacksInv, Typed, Passed
    <2>3. QED
      BY <1>2, <2>1, <2>2 DEF CallbacksInv, ToldWhenPassed
  <1>10. ChangesAreSplit' /\ NothingLost'
    BY <1>1, <1>2, <1>3, <1>4 DEF CallbacksInv, ChangesAreSplit, NothingLost, TokensAreFresh
  <1>11. HaveIsRight'
    <2>1. list' # <<>> /\ (index # NPos => list # <<>>)
      BY <1>2 DEF CallbacksInv, AddToken, InUserCode, IndexIsInside, Typed
    <2>2. QED
      BY <2>1, Zenon DEF CallbacksInv, HaveIsRight, AddToken
  <1>12. QED
    BY <1>5, <1>6, <1>7, <1>8, <1>9, <1>10, <1>11 DEF CallbacksInv

LEMMA RemoveTokenStep ==
  ASSUME ~RemovesNew, NEW t \in Tokens
  PROVE  CallbacksInv /\ RemoveToken(t) => CallbacksInv'
  <1> SUFFICES ASSUME CallbacksInv, RemoveToken(t) PROVE CallbacksInv'
    OBVIOUS
  <1> DEFINE p == Position(t)
             n == Len(list)
  <1>1. /\ list \in Seq(Callback) /\ n \in Nat /\ p \in 1..n /\ list[p].token = t
        /\ phase # "idle" => t \in packaged
    BY PositionFacts DEF CallbacksInv, Typed, RemoveToken
  <1>2. /\ list' \in Seq(Callback) /\ Len(list') = n - 1
        /\ \A j \in 1..(n - 1) : list'[j] = IF j < p THEN list[j] ELSE list[j + 1]
    BY <1>1, WithoutFacts DEF RemoveToken
  <1>3. /\ UNCHANGED <<next, phase, running, size, passes, outside, packaged, called, due>>
        /\ InDelivery' <=> InDelivery
        /\ index' = IF index # NPos /\ index >= p - 1 THEN index - 1 ELSE index
        /\ count' = count - 1
    BY DEF RemoveToken, InDelivery, IndexWithout, CountWithout
  <1>4. index \in Int /\ index >= -1 /\ count \in Int
    BY DEF CallbacksInv, Typed
  <1> DEFINE src(j) == IF j < p THEN j ELSE j + 1
  <1> HIDE DEF p, n
  <1>5. /\ \A j \in 1..(n - 1) : src(j) \in 1..n /\ src(j) # p /\ list'[j] = list[src(j)]
        /\ \A i, j \in 1..(n - 1) : src(i) = src(j) => i = j
    BY <1>1, <1>2
  <1>6. Typed'
    BY <1>1, <1>2, <1>3, <1>4 DEF CallbacksInv, Typed, n
  <1>7. IndexIsInside'
    BY <1>1, <1>2, <1>3, <1>4 DEF CallbacksInv, IndexIsInside, Typed, RemoveToken, Unlocked, n
  <1>8. InDelivery => p <= count
    BY <1>1 DEF CallbacksInv, PackageComesFirst, InDelivery, n
  <1>9. \A j \in 1..(n - 1) : phase \in Loops => (j <= Passed' <=> src(j) <= Passed)
    <2>1. phase \in Loops => running # 0
      BY DEF RemoveToken, Unlocked
    <2>2. phase \in Loops => Passed = index + 1 /\ Passed' = index' + 1
      BY <1>3, <2>1 DEF Passed
    <2>3. QED
      BY <1>1, <1>3, <1>4, <2>2
  <1>10. \A j \in 1..(n - 1) : InDelivery => (j <= count' <=> src(j) <= count)
    BY <1>1, <1>3, <1>4, <1>8
  <1> HIDE DEF src
  <1>11. ChangesAreSplit' /\ NothingLost'
    <2>1. ASSUME NEW j \in 1..(n - 1)
          PROVE  /\ list'[j].acc \cap list'[j].out = {} /\ list'[j].acc \cup list'[j].out \subseteq 1..passes
                 /\ due[list'[j].token] = list'[j].acc \cup list'[j].out
      <3>1. src(j) \in 1..Len(list) /\ list'[j] = list[src(j)]
        BY <1>5 DEF n
      <3>2. QED
        BY <3>1 DEF CallbacksInv, ChangesAreSplit, NothingLost
    <2>2. QED
      BY <1>2, <1>3, <2>1 DEF ChangesAreSplit, NothingLost
  <1>12. TokensAreFresh'
    <2>1. Len(list') <= next' /\ packaged' \subseteq 1..next' /\ called' \subseteq 1..next'
      BY <1>1, <1>2, <1>3 DEF CallbacksInv, TokensAreFresh, Typed, n
    <2>2. \A i \in 1..Len(list') : list'[i].token <= next'
      BY <1>2, <1>3, <1>5 DEF CallbacksInv, TokensAreFresh, n
    <2>3. \A i, j \in 1..Len(list') : list'[i].token = list'[j].token => i = j
      <3>1. ASSUME NEW i \in 1..(n - 1), NEW j \in 1..(n - 1), list'[i].token = list'[j].token PROVE i = j
        <4>1. src(i) \in 1..Len(list) /\ src(j) \in 1..Len(list) /\ list[src(i)].token = list[src(j)].token
          BY <1>5, <3>1 DEF n
        <4>2. src(i) = src(j)
          BY <4>1 DEF CallbacksInv, TokensAreFresh
        <4>3. QED
          BY <1>5, <4>2
      <3>2. QED
        BY <1>2, <3>1
    <2>4. \A u \in Tokens : u > next' => due'[u] = {}
      BY <1>3 DEF CallbacksInv, TokensAreFresh
    <2>5. QED
      BY <2>1, <2>2, <2>3, <2>4 DEF TokensAreFresh
  <1>13. PackageComesFirst'
    <2>1. InDelivery => count' \in 0..(n - 1)
      BY <1>1, <1>3, <1>8 DEF CallbacksInv, PackageComesFirst, n
    <2>2. InDelivery => \A j \in 1..(n - 1) : list'[j].token \in packaged <=> j <= count'
      BY <1>5, <1>10 DEF CallbacksInv, PackageComesFirst, n
    <2>3. QED
      BY <1>2, <1>3, <2>1, <2>2 DEF PackageComesFirst
  <1>14. OutIsToCome'
    <2>1. ASSUME NEW j \in 1..(n - 1), list'[j].out # {}
          PROVE  InDelivery /\ src(j) <= count /\ (phase = "after" => src(j) > Passed)
      BY <1>5, <2>1 DEF CallbacksInv, OutIsToCome, n
    <2>2. \A j \in 1..(n - 1) : src(j) \in Int /\ j \in Int /\ Passed \in Int /\ Passed' \in Int
      BY <1>1, <1>3, <1>4, <1>5 DEF Passed
    <2>3. ASSUME NEW j \in 1..(n - 1), list'[j].out # {}
          PROVE  InDelivery' /\ j <= count' /\ (phase' = "after" => j > Passed')
      BY <1>3, <1>9, <1>10, <2>1, <2>2, <2>3
    <2>4. QED
      BY <1>2, <2>3 DEF OutIsToCome
  <1>15. ToldWhenPassed' /\ CalledWhenPassed'
    BY <1>2, <1>3, <1>5, <1>9 DEF CallbacksInv, ToldWhenPassed, CalledWhenPassed, n
  <1>16. HaveIsRight'
    BY Zenon DEF RemoveToken, HaveIsRight
  <1>17. QED
    BY <1>6, <1>7, <1>11, <1>12, <1>13, <1>14, <1>15, <1>16 DEF CallbacksInv

LEMMA AddChangesStep == CallbacksInv /\ AddChanges => CallbacksInv'
  <1> SUFFICES ASSUME CallbacksInv, AddChanges PROVE CallbacksInv'
    OBVIOUS
  <1> DEFINE n == Len(list)
             pass == passes + 1
  <1>1. /\ list \in Seq(Callback) /\ n \in Nat /\ passes \in Nat /\ pass \in Passes /\ passes' = pass
    BY DEF CallbacksInv, Typed, AddChanges
  <1>2. \A i \in 1..n : [list[i] EXCEPT !.acc = @ \cup {pass}] \in Callback
    BY <1>1, EntryFacts DEF Callback
  <1>3. /\ list' \in Seq(Callback) /\ Len(list') = n
        /\ \A i \in 1..n : list'[i] = [list[i] EXCEPT !.acc = @ \cup {pass}]
    BY <1>1, <1>2 DEF AddChanges
  <1>4. \A i \in 1..n : /\ list'[i].token = list[i].token /\ list'[i].out = list[i].out
                         /\ list'[i].told = list[i].told /\ list'[i].acc = list[i].acc \cup {pass}
    BY <1>1, <1>3, EntryFacts DEF Callback
  <1>5. /\ UNCHANGED <<next, index, count, have, phase, running, size, outside, packaged, called>>
        /\ Passed' = Passed /\ (InDelivery' <=> InDelivery)
    BY DEF AddChanges, Passed, InDelivery
  <1>6. /\ due' \in [Tokens -> SUBSET Passes]
        /\ \A i \in 1..n : due'[list[i].token] = due[list[i].token] \cup {pass}
        /\ \A t \in Tokens : t > next => due'[t] = due[t]
    <2>1. due' = [t \in Tokens |-> IF t \in Present THEN due[t] \cup {pass} ELSE due[t]]
      BY DEF AddChanges
    <2>2. due \in [Tokens -> SUBSET Passes]
      BY DEF CallbacksInv, Typed
    <2>3. \A i \in 1..n : list[i].token \in Tokens /\ list[i].token \in Present
      BY <1>1, EntryFacts DEF Present
    <2>4. \A t \in Present : ~(t > next)
      BY <1>1, EntryFacts DEF Present, CallbacksInv, TokensAreFresh, Typed
    <2>5. QED
      BY <1>1, <2>1, <2>2, <2>3, <2>4
  <1> HIDE DEF n
  <1>7. Typed'
    BY <1>1, <1>3, <1>5, <1>6 DEF CallbacksInv, Typed, n
  <1>8. TokensAreFresh'
    BY <1>3, <1>4, <1>5, <1>6 DEF CallbacksInv, TokensAreFresh, n
  <1>9. IndexIsInside' /\ PackageComesFirst'
    BY <1>3, <1>4, <1>5 DEF CallbacksInv, IndexIsInside, PackageComesFirst, n
  <1>10. OutIsToCome' /\ ToldWhenPassed' /\ CalledWhenPassed'
    <2>1. OutIsToCome'
      BY <1>3, <1>4, <1>5 DEF CallbacksInv, OutIsToCome, n
    <2>2. ToldWhenPassed'
      BY <1>3, <1>4, <1>5 DEF CallbacksInv, ToldWhenPassed, n
    <2>3. CalledWhenPassed'
      BY <1>3, <1>4, <1>5 DEF CallbacksInv, CalledWhenPassed, n
    <2>4. QED
      BY <2>1, <2>2, <2>3
  <1>11. ChangesAreSplit'
    BY <1>1, <1>3, <1>4 DEF CallbacksInv, ChangesAreSplit, n
  <1>12. NothingLost'
    <2>1. ASSUME NEW i \in 1..n
          PROVE  due'[list'[i].token] = list'[i].acc \cup list'[i].out
      <3>1. due[list[i].token] = list[i].acc \cup list[i].out
        BY DEF CallbacksInv, NothingLost, n
      <3>2. due'[list[i].token] = due[list[i].token] \cup {pass}
        BY <1>6
      <3>3. /\ list'[i].token = list[i].token /\ list'[i].out = list[i].out
            /\ list'[i].acc = list[i].acc \cup {pass}
        BY <1>4
      <3> HIDE DEF pass
      <3>4. QED
        BY <3>1, <3>2, <3>3
    <2>2. QED
      BY <1>3, <2>1 DEF NothingLost, n
  <1>13. HaveIsRight'
    <2>1. list' # <<>> <=> list # <<>>
      BY <1>1, <1>3 DEF n
    <2>2. QED
      BY <1>5, <2>1, Zenon DEF CallbacksInv, HaveIsRight
  <1>14. QED
    BY <1>7, <1>8, <1>9, <1>10, <1>11, <1>12, <1>13 DEF CallbacksInv

LEMMA PackageStep == CallbacksInv /\ PackageForDelivery => CallbacksInv'
  <1> SUFFICES ASSUME CallbacksInv, PackageForDelivery PROVE CallbacksInv'
    OBVIOUS
  <1> DEFINE n == Len(list)
             entry(i) == [list[i] EXCEPT !.out = list[i].acc, !.acc = {}]
  <1>0. UNCHANGED have
    BY Zenon DEF PackageForDelivery
  <1>1. /\ list \in Seq(Callback) /\ n \in Nat /\ phase = "idle" /\ phase' = "packaged"
        /\ count' = n /\ packaged' = Present
        /\ UNCHANGED <<next, index, running, size, passes, outside, called, due>>
    <2>1. list \in Seq(Callback) /\ n \in Nat
      BY DEF CallbacksInv, Typed
    <2>2. QED
      BY <2>1, Zenon DEF PackageForDelivery, PackagedCount
  <1>2. \A i \in 1..n : /\ entry(i) \in Callback /\ entry(i).token = list[i].token
                         /\ entry(i).out = list[i].acc /\ entry(i).acc = {}
    BY <1>1, EntryFacts DEF Callback
  <1>3. list' = [i \in 1..n |-> entry(i)]
    BY Zenon DEF PackageForDelivery
  <1> HIDE DEF entry
  <1>4. /\ list' \in Seq(Callback) /\ Len(list') = n
        /\ \A i \in 1..n : /\ list'[i].token = list[i].token /\ list'[i].out = list[i].acc
                            /\ list'[i].acc = {} /\ list[i].out = {}
    BY <1>1, <1>2, <1>3 DEF CallbacksInv, OutIsToCome, InDelivery
  <1>5. \A i \in 1..n : list[i].token \in Present /\ list[i].token \in 1..next
    BY <1>1, EntryFacts DEF Present, CallbacksInv, TokensAreFresh, Typed
  <1>6. Present \subseteq Tokens /\ Present \subseteq 1..next
    BY <1>1, <1>5, EntryFacts DEF Present
  <1> HIDE DEF n
  <1>7. Typed'
    BY <1>1, <1>4, <1>6 DEF CallbacksInv, Typed, n
  <1>8. TokensAreFresh'
    BY <1>1, <1>4, <1>6 DEF CallbacksInv, TokensAreFresh, n
  <1>9. IndexIsInside' /\ PackageComesFirst'
    BY <1>1, <1>4, <1>5 DEF CallbacksInv, IndexIsInside, PackageComesFirst, n
  <1>10. OutIsToCome' /\ ToldWhenPassed' /\ CalledWhenPassed'
    BY <1>1, <1>4 DEF OutIsToCome, InDelivery, ToldWhenPassed, CalledWhenPassed, n
  <1>11. ChangesAreSplit' /\ NothingLost'
    BY <1>1, <1>4 DEF CallbacksInv, ChangesAreSplit, NothingLost, n
  <1>12. HaveIsRight'
    <2>1. list' # <<>> <=> list # <<>>
      BY <1>1, <1>4 DEF n
    <2>2. QED
      BY <1>0, <2>1, Zenon DEF CallbacksInv, HaveIsRight
  <1>13. QED
    BY <1>7, <1>8, <1>9, <1>10, <1>11, <1>12 DEF CallbacksInv

(* A step that leaves the list and the books alone keeps what is said of    *)
(* them alone.                                                              *)
LEMMA ListKept ==
  ASSUME CallbacksInv, UNCHANGED <<list, next, have, passes, due>>,
         packaged' \subseteq 1..next, called' \subseteq 1..next
  PROVE  TokensAreFresh' /\ ChangesAreSplit' /\ NothingLost' /\ HaveIsRight'
  <1>1. TokensAreFresh' /\ ChangesAreSplit' /\ NothingLost'
    BY DEF CallbacksInv, TokensAreFresh, ChangesAreSplit, NothingLost
  <1>2. HaveIsRight'
    BY Zenon DEF CallbacksInv, HaveIsRight
  <1>3. QED
    BY <1>1, <1>2

LEMMA ReadSizeStep == CallbacksInv /\ ReadSize => CallbacksInv'
  <1> SUFFICES ASSUME CallbacksInv, ReadSize PROVE CallbacksInv'
    OBVIOUS
  <1>1. /\ list \in Seq(Callback) /\ phase = "idle" /\ phase' = "reading" /\ size' = Len(list)
        /\ UNCHANGED <<list, next, index, count, running, passes, outside, called, due>>
        /\ packaged' = Present
    BY DEF CallbacksInv, Typed, ReadSize
  <1>2. UNCHANGED have
    BY DEF ReadSize
  <1>3. Present \subseteq Tokens /\ Present \subseteq 1..next
    BY <1>1, EntryFacts DEF Present, CallbacksInv, TokensAreFresh, Typed
  <1>4. TokensAreFresh' /\ ChangesAreSplit' /\ NothingLost' /\ HaveIsRight'
    BY <1>1, <1>2, <1>3, ListKept DEF CallbacksInv, TokensAreFresh
  <1>5. Typed'
    BY <1>1, <1>3 DEF CallbacksInv, Typed
  <1>6. IndexIsInside' /\ PackageComesFirst' /\ ToldWhenPassed' /\ CalledWhenPassed'
    BY <1>1 DEF CallbacksInv, IndexIsInside, PackageComesFirst, InDelivery, ToldWhenPassed, CalledWhenPassed
  <1>7. OutIsToCome'
    BY <1>1 DEF CallbacksInv, OutIsToCome, InDelivery
  <1>8. QED
    BY <1>4, <1>5, <1>6, <1>7 DEF CallbacksInv

LEMMA BeginStep ==
  ASSUME BeginErrors \/ \E kind \in {"before", "after"} : BeginLoop(kind)
  PROVE  CallbacksInv => CallbacksInv'
  <1> SUFFICES ASSUME CallbacksInv PROVE CallbacksInv'
    OBVIOUS
  <1>1. /\ phase' \in Loops /\ phase \notin Loops /\ index' = index + 1 /\ called' = {}
        /\ phase' # "error" => InDelivery /\ UNCHANGED <<count, size>>
        /\ phase' = "error" => phase = "reading" /\ count' = size /\ size' = 0
        /\ UNCHANGED <<list, next, running, passes, outside, packaged, due>>
    BY DEF BeginErrors, BeginLoop, InDelivery
  <1>2. UNCHANGED have
    BY DEF BeginErrors, BeginLoop
  <1>3. /\ index = -1 /\ running = 0 /\ index' = 0 /\ Passed' = 0 /\ list \in Seq(Callback)
        /\ count \in Int /\ size \in 0..MaxTokens
    BY <1>1 DEF CallbacksInv, IndexIsInside, Passed, Typed
  <1>4. TokensAreFresh' /\ ChangesAreSplit' /\ NothingLost' /\ HaveIsRight'
    BY <1>1, <1>2, ListKept DEF CallbacksInv, TokensAreFresh
  <1>5. Typed'
    BY <1>1, <1>3 DEF CallbacksInv, Typed
  <1>6. IndexIsInside' /\ PackageComesFirst'
    BY <1>1, <1>3 DEF CallbacksInv, IndexIsInside, PackageComesFirst, InDelivery
  <1>7. OutIsToCome' /\ ToldWhenPassed' /\ CalledWhenPassed'
    BY <1>1, <1>3 DEF CallbacksInv, OutIsToCome, InDelivery, ToldWhenPassed, CalledWhenPassed
  <1>8. QED
    BY <1>4, <1>5, <1>6, <1>7 DEF CallbacksInv

(* In a delivery the count is never too large; an error loop may see one.   *)
LEMMA SkipCallbackStep == CallbacksInv /\ SkipCallback => CallbacksInv'
  <1> SUFFICES ASSUME CallbacksInv, SkipCallback PROVE CallbacksInv'
    OBVIOUS
  <1>1. /\ phase \in Loops /\ running = 0 /\ index < Len(list) /\ index' = index + 1
        /\ list \in Seq(Callback) /\ index \in Int /\ index >= -1 /\ Len(list) \in Nat
        /\ UNCHANGED <<list, next, count, phase, running, size, passes, outside, packaged, called, due>>
        /\ Passed = index /\ Passed' = index + 1 /\ (InDelivery' <=> InDelivery)
    BY DEF CallbacksInv, Typed, SkipCallback, More, Passed, InDelivery
  <1>2. UNCHANGED have
    BY DEF SkipCallback
  <1>3. phase = "after" => list[index + 1].told /\ list[index + 1].out = {}
    BY DEF SkipCallback, Wanted
  <1>4. TokensAreFresh' /\ ChangesAreSplit' /\ NothingLost' /\ HaveIsRight'
    BY <1>1, <1>2, ListKept DEF CallbacksInv, TokensAreFresh
  <1>5. Typed'
    BY <1>1 DEF CallbacksInv, Typed
  <1>6. IndexIsInside' /\ PackageComesFirst' /\ CalledWhenPassed'
    BY <1>1 DEF CallbacksInv, IndexIsInside, PackageComesFirst, CalledWhenPassed
  <1>7. OutIsToCome' /\ ToldWhenPassed'
    BY <1>1, <1>3 DEF CallbacksInv, OutIsToCome, ToldWhenPassed
  <1>8. QED
    BY <1>4, <1>5, <1>6, <1>7 DEF CallbacksInv

LEMMA ReadOutsideStep == CallbacksInv /\ ReadOutside => CallbacksInv'
  <1> SUFFICES ASSUME CallbacksInv, ReadOutside PROVE CallbacksInv'
    OBVIOUS
  <1>1. /\ UNCHANGED <<list, next, index, count, phase, running, size, passes, packaged, called, due>>
        /\ outside' \in BOOLEAN
        /\ Passed' = Passed /\ (InDelivery' <=> InDelivery)
    BY DEF ReadOutside, Passed, InDelivery
  <1>2. UNCHANGED have
    BY DEF ReadOutside
  <1>3. TokensAreFresh' /\ ChangesAreSplit' /\ NothingLost' /\ HaveIsRight'
    BY <1>1, <1>2, ListKept DEF CallbacksInv, TokensAreFresh
  <1>4. Typed'
    BY <1>1 DEF CallbacksInv, Typed
  <1>5. IndexIsInside' /\ PackageComesFirst' /\ CalledWhenPassed' /\ OutIsToCome' /\ ToldWhenPassed'
    BY <1>1 DEF CallbacksInv, IndexIsInside, PackageComesFirst, CalledWhenPassed, OutIsToCome, ToldWhenPassed
  <1>6. QED
    BY <1>3, <1>4, <1>5 DEF CallbacksInv

LEMMA CallCallbackStep == CallbacksInv /\ CallCallback => CallbacksInv'
  <1> SUFFICES ASSUME CallbacksInv, CallCallback PROVE CallbacksInv'
    OBVIOUS
  <1> DEFINE n == Len(list)
             p == index + 1
             c == list[p]
  <1>1. /\ phase \in Loops /\ running = 0 /\ index < n /\ p \in 1..n /\ n \in Nat
        /\ list \in Seq(Callback) /\ index \in Int /\ index >= -1 /\ c \in Callback
        /\ running' = c.token /\ called' = called \cup {c.token}
        /\ UNCHANGED <<next, index, count, phase, size, passes, outside, packaged>>
        /\ InDelivery' <=> InDelivery
    <2>1. /\ phase \in Loops /\ running = 0 /\ index < n /\ running' = c.token /\ called' = called \cup {c.token}
          /\ UNCHANGED <<next, index, count, phase, size, passes, outside, packaged>>
          /\ InDelivery' <=> InDelivery
      BY DEF CallCallback, More, InDelivery
    <2>2. list \in Seq(Callback) /\ index \in Int /\ index >= 0 /\ n \in Nat
      BY <2>1 DEF CallbacksInv, Typed, IndexIsInside
    <2>3. p \in 1..n
      <3>1. index < n
        BY <2>1
      <3>2. QED
        BY <2>2, <3>1
    <2>4. c \in Callback
      BY <2>2, <2>3
    <2>5. QED
      BY <2>1, <2>2, <2>3, <2>4
  <1>2. UNCHANGED have
    BY DEF CallCallback
  <1>3. c.token \in Tokens /\ c.token # 0 /\ c.token <= next
    BY <1>1, EntryFacts DEF CallbacksInv, TokensAreFresh
  <1>4. Passed = index /\ Passed' = p
    BY <1>1, <1>3 DEF Passed
  <1>5. TakenOut(c) \in Callback /\ TakenOut(c).token = c.token /\ TakenOut(c).acc = c.acc
        /\ TakenOut(c).out = {} /\ TakenOut(c).told
    BY <1>1 DEF TakenOut, Callback
  <1>6. /\ phase # "after" => UNCHANGED <<list, due>>
        /\ phase = "after" => list' = [list EXCEPT ![p] = TakenOut(c)]
                              /\ due' = [due EXCEPT ![c.token] = @ \ c.out]
    BY DEF CallCallback
  <1>7. /\ list' \in Seq(Callback) /\ Len(list') = n
        /\ \A i \in 1..n : i # p => list'[i] = list[i]
        /\ list'[p] = IF phase = "after" THEN TakenOut(c) ELSE c
    BY <1>1, <1>5, <1>6
  <1>71. list' \in Seq(Callback) /\ Len(list') = n
    BY <1>7
  <1>8. \A i \in 1..n : list'[i].token = list[i].token /\ list'[i].acc = list[i].acc
                         /\ list'[i].out \subseteq list[i].out
    BY <1>5, <1>7
  <1>9. due' \in [Tokens -> SUBSET Passes]
    BY <1>3, <1>6 DEF CallbacksInv, Typed
  <1>10. /\ phase # "after" => due' = due
         /\ phase = "after" => \A t \in Tokens : due'[t] = IF t = c.token THEN due[t] \ c.out ELSE due[t]
    BY <1>3, <1>6 DEF CallbacksInv, Typed
  <1>11. \A i \in 1..n : list[i].token \in Tokens /\ (i # p => list[i].token # c.token)
    BY <1>1, EntryFacts DEF CallbacksInv, TokensAreFresh
  <1> HIDE DEF n, p, c
  <1>12. Typed'
    <2>1. running' \in Tokens /\ called' \subseteq Tokens
      BY <1>1, <1>3 DEF CallbacksInv, Typed
    <2>2. QED
      BY <1>1, <1>71, <1>9, <2>1 DEF CallbacksInv, Typed, n
  <1>13. TokensAreFresh'
    <2>1. Len(list') <= next' /\ packaged' \subseteq 1..next' /\ called' \subseteq 1..next'
      <3>1. c.token \in 1..next
        BY <1>3
      <3>2. QED
        BY <1>1, <1>71, <3>1 DEF CallbacksInv, TokensAreFresh, n
    <2>2. \A i, j \in 1..Len(list') : list'[i].token <= next' /\ (list'[i].token = list'[j].token => i = j)
      BY <1>1, <1>7, <1>8 DEF CallbacksInv, TokensAreFresh, n
    <2>3. \A t \in Tokens : t > next' => due'[t] = {}
      BY <1>1, <1>10 DEF CallbacksInv, TokensAreFresh
    <2>4. QED
      BY <2>1, <2>2, <2>3 DEF TokensAreFresh
  <1>14. IndexIsInside' /\ PackageComesFirst'
    BY <1>1, <1>7, <1>8 DEF CallbacksInv, IndexIsInside, PackageComesFirst, n
  <1>15. OutIsToCome'
    <2>1. ASSUME NEW i \in 1..n, list'[i].out # {}
          PROVE  InDelivery /\ i <= count /\ (phase = "after" => i > p)
      <3>1. list[i].out # {} /\ i \in 1..Len(list)
        BY <1>8, <2>1 DEF n
      <3>2. InDelivery /\ i <= count /\ (phase = "after" => i > index)
        BY <1>4, <3>1 DEF CallbacksInv, OutIsToCome
      <3>3. phase = "after" => i # p
        BY <1>5, <1>7, <2>1
      <3>4. QED
        BY <1>1, <3>2, <3>3 DEF p
    <2>2. QED
      BY <1>1, <1>4, <1>7, <2>1 DEF OutIsToCome
  <1>16. ToldWhenPassed'
    <2>1. ASSUME phase = "after", NEW i \in 1..n, i <= p PROVE list'[i].told
      <3>1. CASE i = p
        BY <1>5, <1>7, <2>1, <3>1
      <3>2. CASE i # p
        <4>1. i <= Passed /\ i \in 1..Len(list)
          BY <1>1, <1>4, <2>1, <3>2 DEF p, n
        <4>2. list[i].told
          BY <2>1, <4>1 DEF CallbacksInv, ToldWhenPassed
        <4>3. QED
          BY <1>7, <2>1, <3>2, <4>2
      <3>3. QED
        BY <3>1, <3>2
    <2>2. QED
      BY <1>1, <1>4, <1>7, <2>1 DEF ToldWhenPassed
  <1>17. ChangesAreSplit'
    BY <1>1, <1>7, <1>8 DEF CallbacksInv, ChangesAreSplit, n
  <1>18. CalledWhenPassed'
    <2>1. ASSUME NEW i \in 1..n, list[i].token \in called' PROVE i <= p
      <3>1. CASE i = p
        BY <1>1, <3>1 DEF p
      <3>2. CASE i # p
        <4>1. list[i].token \in called /\ i \in 1..Len(list)
          BY <1>1, <1>11, <2>1, <3>2 DEF n
        <4>2. i <= index
          BY <1>1, <1>4, <4>1 DEF CallbacksInv, CalledWhenPassed
        <4>3. QED
          BY <1>1, <4>1, <4>2 DEF p
      <3>3. QED
        BY <3>1, <3>2
    <2>2. QED
      BY <1>1, <1>4, <1>7, <1>8, <2>1 DEF CalledWhenPassed
  <1>19. NothingLost'
    <2>1. ASSUME NEW i \in 1..n PROVE due'[list'[i].token] = list'[i].acc \cup list'[i].out
      <3>1. /\ due[list[i].token] = list[i].acc \cup list[i].out /\ list[i].acc \cap list[i].out = {}
        BY DEF CallbacksInv, NothingLost, ChangesAreSplit, n
      <3>2. CASE phase # "after"
        BY <1>7, <1>8, <1>10, <3>1, <3>2, <1>6
      <3>3. CASE phase = "after" /\ i # p
        BY <1>7, <1>10, <1>11, <3>1, <3>3
      <3>4. CASE phase = "after" /\ i = p
        <4>1. due[c.token] = c.acc \cup c.out /\ c.acc \cap c.out = {}
          BY <3>1, <3>4 DEF c
        <4>2. due'[c.token] = due[c.token] \ c.out
          BY <1>3, <1>10, <3>4
        <4>3. list'[i].token = c.token /\ list'[i].acc = c.acc /\ list'[i].out = {}
          BY <1>5, <1>7, <3>4
        <4>4. QED
          BY <4>1, <4>2, <4>3
      <3>5. QED
        BY <3>2, <3>3, <3>4
    <2>2. QED
      BY <1>7, <2>1 DEF NothingLost
  <1>20. HaveIsRight'
    <2>1. list' # <<>> <=> list # <<>>
      BY <1>1, <1>7 DEF n
    <2>2. QED
      BY <1>2, <2>1, Zenon DEF CallbacksInv, HaveIsRight
  <1>21. QED
    BY <1>12, <1>13, <1>14, <1>15, <1>16, <1>17, <1>18, <1>19, <1>20 DEF CallbacksInv

(* The callback of an error loop is removed as it returns.                  *)
LEMMA ReturnStep == CallbacksInv /\ Return => CallbacksInv'
  <1> SUFFICES ASSUME CallbacksInv, Return PROVE CallbacksInv'
    OBVIOUS
  <1>1. /\ phase \in Loops /\ running # 0 /\ running' = 0 /\ running \in Tokens
        /\ list \in Seq(Callback) /\ index \in Int /\ index >= -1 /\ index < Len(list)
        /\ Len(list) \in Nat /\ count \in Int
        /\ UNCHANGED <<next, phase, size, passes, outside, packaged, called, due>>
        /\ InDelivery' <=> InDelivery
    BY DEF CallbacksInv, Typed, Return, InDelivery, IndexIsInside
  <1>2. Passed = index + 1
    BY <1>1 DEF Passed
  <1>3. CASE ~(phase = "error" /\ running \in Present)
    <2>1. UNCHANGED <<list, count>> /\ index' = index + 1 /\ Passed' = index + 1
      BY <1>1, <1>3 DEF Return, Passed
    <2>2. UNCHANGED have
      BY <1>3 DEF Return
    <2>3. TokensAreFresh' /\ ChangesAreSplit' /\ NothingLost' /\ HaveIsRight'
      BY <1>1, <2>1, <2>2, ListKept DEF CallbacksInv, TokensAreFresh
    <2>4. Typed'
      BY <1>1, <2>1 DEF CallbacksInv, Typed
    <2>5. IndexIsInside' /\ PackageComesFirst'
      BY <1>1, <2>1 DEF CallbacksInv, IndexIsInside, PackageComesFirst
    <2>6. OutIsToCome' /\ ToldWhenPassed' /\ CalledWhenPassed'
      BY <1>1, <1>2, <2>1 DEF CallbacksInv, OutIsToCome, ToldWhenPassed, CalledWhenPassed
    <2>7. QED
      BY <2>3, <2>4, <2>5, <2>6 DEF CallbacksInv
  <1>4. CASE phase = "error" /\ running \in Present
    <2> DEFINE p == Position(running)
               n == Len(list)
               src(j) == IF j < p THEN j ELSE j + 1
    <2>1. /\ list' = Without(p) /\ count' = count - 1
          /\ index' = (IF index # NPos /\ index >= p - 1 THEN index - 1 ELSE index) + 1
      BY <1>4 DEF Return, IndexWithout, CountWithout
    <2>2. have' = (list' # <<>>)
      BY <1>4 DEF Return
    <2>3. p \in 1..n /\ n \in Nat
      BY <1>1, <1>4, PositionFacts
    <2> HIDE DEF p, n
    <2>4. /\ list' \in Seq(Callback) /\ Len(list') = n - 1
          /\ \A j \in 1..(n - 1) : src(j) \in 1..n /\ src(j) # p /\ list'[j] = list[src(j)]
          /\ \A i, j \in 1..(n - 1) : src(i) = src(j) => i = j
      BY <1>1, <2>1, <2>3, WithoutFacts DEF n
    <2>5. /\ index' \in Int /\ index' >= 0 /\ index' < n /\ Passed' = index'
          /\ \A j \in 1..(n - 1) : src(j) <= Passed => j <= Passed'
      BY <1>1, <1>2, <2>1, <2>3 DEF Passed, n
    <2> HIDE DEF src
    <2>6. Typed'
      BY <1>1, <2>1, <2>3, <2>4, <2>5 DEF CallbacksInv, Typed, n
    <2>7. TokensAreFresh'
      <3>1. Len(list') <= next' /\ packaged' \subseteq 1..next' /\ called' \subseteq 1..next'
        BY <1>1, <2>3, <2>4 DEF CallbacksInv, TokensAreFresh, Typed, n
      <3>2. \A i \in 1..Len(list') : list'[i].token <= next'
        BY <1>1, <2>4 DEF CallbacksInv, TokensAreFresh, n
      <3>3. ASSUME NEW i \in 1..(n - 1), NEW j \in 1..(n - 1), list'[i].token = list'[j].token PROVE i = j
        <4>1. src(i) \in 1..Len(list) /\ src(j) \in 1..Len(list) /\ list[src(i)].token = list[src(j)].token
          BY <2>4, <3>3 DEF n
        <4>2. src(i) = src(j)
          BY <4>1 DEF CallbacksInv, TokensAreFresh
        <4>3. QED
          BY <2>4, <4>2
      <3>4. \A u \in Tokens : u > next' => due'[u] = {}
        BY <1>1 DEF CallbacksInv, TokensAreFresh
      <3>5. QED
        BY <2>4, <3>1, <3>2, <3>3, <3>4 DEF TokensAreFresh
    <2>8. ASSUME NEW j \in 1..(n - 1)
          PROVE  /\ list'[j].acc \cap list'[j].out = {} /\ list'[j].acc \cup list'[j].out \subseteq 1..passes
                 /\ due[list'[j].token] = list'[j].acc \cup list'[j].out /\ list'[j].out = {}
                 /\ list'[j].token \in called => src(j) <= Passed
      <3>1. src(j) \in 1..Len(list) /\ list'[j] = list[src(j)]
        BY <2>4 DEF n
      <3>2. QED
        BY <1>1, <1>4, <3>1 DEF CallbacksInv, ChangesAreSplit, NothingLost, OutIsToCome, InDelivery, CalledWhenPassed
    <2>9. IndexIsInside' /\ PackageComesFirst' /\ ToldWhenPassed' /\ OutIsToCome' /\ CalledWhenPassed'
      <3>1. IndexIsInside'
        BY <1>1, <1>4, <2>3, <2>4, <2>5 DEF IndexIsInside
      <3>2. QED
        BY <1>1, <1>4, <2>4, <2>5, <2>8, <3>1
           DEF PackageComesFirst, ToldWhenPassed, OutIsToCome, CalledWhenPassed, InDelivery
    <2>10. ChangesAreSplit' /\ NothingLost'
      BY <1>1, <2>4, <2>8 DEF ChangesAreSplit, NothingLost
    <2>11. HaveIsRight'
      BY <2>2 DEF HaveIsRight
    <2>12. QED
      BY <2>6, <2>7, <2>9, <2>10, <2>11 DEF CallbacksInv
  <1>5. QED
    BY <1>3, <1>4

LEMMA EndLoopStep == CallbacksInv /\ EndLoop => CallbacksInv'
  <1> SUFFICES ASSUME CallbacksInv, EndLoop PROVE CallbacksInv'
    OBVIOUS
  <1>1. /\ phase \in Loops /\ running = 0 /\ index' = NPos /\ count >= 0 /\ index >= count
        /\ phase' = IF phase = "before" THEN "advanced" ELSE "idle"
        /\ packaged' = IF phase = "before" THEN packaged ELSE {}
        /\ UNCHANGED <<list, next, count, running, size, passes, outside, called, due>>
        /\ index \in Int /\ count \in Int
    BY DEF CallbacksInv, Typed, EndLoop, More
  <1>2. UNCHANGED have
    BY DEF EndLoop
  <1>3. Passed = index
    BY <1>1 DEF Passed
  <1>4. phase # "before" => \A i \in 1..Len(list) : list[i].out = {}
    BY <1>1, <1>3 DEF CallbacksInv, OutIsToCome, InDelivery
  <1>5. TokensAreFresh' /\ ChangesAreSplit' /\ NothingLost' /\ HaveIsRight'
    BY <1>1, <1>2, ListKept DEF CallbacksInv, TokensAreFresh
  <1>6. Typed'
    BY <1>1 DEF CallbacksInv, Typed
  <1>7. IndexIsInside' /\ PackageComesFirst' /\ ToldWhenPassed' /\ CalledWhenPassed'
    BY <1>1 DEF CallbacksInv, IndexIsInside, PackageComesFirst, ToldWhenPassed, CalledWhenPassed, InDelivery
  <1>8. OutIsToCome'
    BY <1>1, <1>4 DEF CallbacksInv, OutIsToCome, InDelivery
  <1>9. QED
    BY <1>5, <1>6, <1>7, <1>8 DEF CallbacksInv

LEMMA CallbacksStutterStep == CallbacksInv /\ UNCHANGED callbacksVars => CallbacksInv'
  BY DEF callbacksVars, CallbacksInv, Typed, TokensAreFresh, IndexIsInside, PackageComesFirst, OutIsToCome,
         ToldWhenPassed, ChangesAreSplit, CalledWhenPassed, HaveIsRight, NothingLost, Passed, InDelivery

LEMMA CallbacksNextInv == ASSUME ~RemovesNew PROVE CallbacksInv /\ [CallbacksNext]_callbacksVars => CallbacksInv'
  BY AddTokenStep, RemoveTokenStep, AddChangesStep, PackageStep, ReadSizeStep, BeginStep,
     SkipCallbackStep, CallCallbackStep, ReadOutsideStep, ReturnStep, EndLoopStep, CallbacksStutterStep DEF CallbacksNext

-----------------------------------------------------------------------------
(* The loop of deliver_error.  Its count is what the size was before the    *)
(* lock: as long as no callback was removed in between, the first `count`   *)
(* entries are those that were there, as they are in a delivery.            *)

Reported == IF phase = "reading" THEN size ELSE count

Untouched == phase \in {"reading", "error"} /\ ~gone

ReportedComeFirst ==
    Untouched => /\ Reported \in 0..Len(list)
                 /\ \A i \in 1..Len(list) : list[i].token \in packaged <=> i <= Reported

ErrorInv ==
    /\ gone \in BOOLEAN
    /\ ReportedComeFirst
    /\ phase = "error" /\ ~gone /\ running # 0 => running \in packaged
    /\ ReadsInside

(* Entries that come first in the list do so without one of them.           *)
LEMMA FirstWithout ==
  ASSUME list \in Seq(Callback), NEW p \in 1..Len(list), NEW b \in 0..Len(list), NEW S,
         \A i \in 1..Len(list) : list[i].token \in S <=> i <= b,
         list[p].token \in S, list' = Without(p)
  PROVE  /\ b - 1 \in 0..Len(list')
         /\ \A i \in 1..Len(list') : list'[i].token \in S <=> i <= b - 1
  <1>1. p <= b /\ Len(list) \in Nat
    OBVIOUS
  <1>2. /\ Len(list') = Len(list) - 1
        /\ \A j \in 1..(Len(list) - 1) : list'[j] = IF j < p THEN list[j] ELSE list[j + 1]
    BY WithoutFacts
  <1>3. ASSUME NEW i \in 1..(Len(list) - 1) PROVE list'[i].token \in S <=> i <= b - 1
    <2>1. CASE i < p
      BY <1>1, <1>2, <2>1
    <2>2. CASE ~(i < p)
      <3>1. i + 1 \in 1..Len(list) /\ list'[i] = list[i + 1]
        BY <1>1, <1>2, <2>2
      <3>2. QED
        BY <1>1, <2>2, <3>1
    <2>3. QED
      BY <2>1, <2>2
  <1>4. QED
    BY <1>1, <1>2, <1>3

LEMMA ErrorAddToken == CallbacksInv /\ ErrorInv /\ AddToken => ErrorInv'
  <1> SUFFICES ASSUME CallbacksInv, ErrorInv, AddToken PROVE ErrorInv'
    OBVIOUS
  <1>1. /\ list \in Seq(Callback) /\ Len(list) \in Nat /\ next \in Nat /\ count \in Int /\ size \in Int
        /\ packaged \subseteq 1..next
    BY DEF CallbacksInv, Typed, TokensAreFresh
  <1>2. UNCHANGED <<count, phase, running, size, outside, gone, packaged>>
    BY DEF AddToken
  <1>3. /\ Len(list') = Len(list) + 1 /\ list'[Len(list) + 1].token = next + 1
        /\ \A i \in 1..Len(list) : list'[i] = list[i]
    BY <1>1 DEF AddToken
  <1>4. next + 1 \notin packaged
    BY <1>1
  <1>5. ReportedComeFirst'
    <2>1. Reported' = Reported /\ (Untouched' <=> Untouched) /\ Reported \in Int
      BY <1>1, <1>2 DEF Reported, Untouched
    <2>2. ASSUME Untouched, NEW i \in 1..(Len(list) + 1)
          PROVE  list'[i].token \in packaged <=> i <= Reported
      <3>1. Reported \in 0..Len(list)
        BY <2>2 DEF ErrorInv, ReportedComeFirst
      <3>2. CASE i \in 1..Len(list)
        BY <1>3, <2>2, <3>2 DEF ErrorInv, ReportedComeFirst
      <3>3. CASE i = Len(list) + 1
        BY <1>1, <1>3, <1>4, <3>1, <3>3
      <3>4. QED
        BY <1>1, <3>2, <3>3
    <2>3. Untouched => Reported \in 0..(Len(list) + 1)
      BY <1>1 DEF ErrorInv, ReportedComeFirst
    <2>4. QED
      BY <1>2, <1>3, <2>1, <2>2, <2>3 DEF ReportedComeFirst
  <1>6. QED
    BY <1>2, <1>5 DEF ErrorInv, ReadsInside

LEMMA ErrorRemoveToken ==
  ASSUME ~RemovesNew, NEW t \in Tokens
  PROVE  CallbacksInv /\ ErrorInv /\ RemoveToken(t) => ErrorInv'
  <1> SUFFICES ASSUME CallbacksInv, ErrorInv, RemoveToken(t) PROVE ErrorInv'
    OBVIOUS
  <1> DEFINE p == Position(t)
  <1>1. /\ list \in Seq(Callback) /\ p \in 1..Len(list) /\ list[p].token = t
        /\ phase # "idle" => t \in packaged
    BY PositionFacts DEF CallbacksInv, Typed, RemoveToken
  <1>2. /\ list' = Without(p) /\ count' = count - 1
        /\ UNCHANGED <<phase, running, size, outside, packaged>>
    BY DEF RemoveToken, CountWithout
  <1>3. gone' = (gone \/ phase = "reading")
    BY DEF RemoveToken
  <1> HIDE DEF p
  <1>4. gone' \in BOOLEAN /\ (gone => gone')
    BY <1>3 DEF ErrorInv
  <1>5. Untouched' => phase = "error" /\ Untouched
    BY <1>2, <1>3 DEF Untouched
  <1>6. ReportedComeFirst'
    <2>1. ASSUME Untouched' PROVE /\ count - 1 \in 0..Len(list')
                                  /\ \A i \in 1..Len(list') : list'[i].token \in packaged <=> i <= count - 1
      <3>1. /\ count \in 0..Len(list) /\ t \in packaged
            /\ \A i \in 1..Len(list) : list[i].token \in packaged <=> i <= count
        BY <1>1, <1>5, <2>1 DEF ErrorInv, ReportedComeFirst, Reported
      <3>2. QED
        BY <1>1, <1>2, <3>1, FirstWithout
    <2>2. Untouched' => Reported' = count - 1
      BY <1>2, <1>5 DEF Reported
    <2>3. QED
      BY <1>2, <2>1, <2>2 DEF ReportedComeFirst
  <1>7. phase' = "error" /\ ~gone' /\ running' # 0 => running' \in packaged'
    BY <1>2, <1>4 DEF ErrorInv
  <1>8. ReadsInside'
    BY <1>2, <1>4 DEF ErrorInv, ReadsInside
  <1>9. QED
    BY <1>4, <1>6, <1>7, <1>8 DEF ErrorInv

(* Steps that leave every entry its token and the count as it was.          *)
LEMMA ErrorKept ==
  ASSUME CallbacksInv, ErrorInv, UNCHANGED <<count, phase, size, outside, gone, packaged>>,
         Len(list') = Len(list), \A i \in 1..Len(list) : list'[i].token = list[i].token,
         phase = "error" /\ ~gone /\ running' # 0 => running' \in packaged
  PROVE  ErrorInv'
  <1>1. ReportedComeFirst'
    BY DEF ErrorInv, ReportedComeFirst, Reported, Untouched
  <1>2. gone' \in BOOLEAN /\ ReadsInside'
    BY DEF ErrorInv, ReadsInside
  <1>3. QED
    BY <1>1, <1>2 DEF ErrorInv

LEMMA ErrorAddChanges == CallbacksInv /\ ErrorInv /\ AddChanges => ErrorInv'
  <1> SUFFICES ASSUME CallbacksInv, ErrorInv, AddChanges PROVE ErrorInv'
    OBVIOUS
  <1>1. list \in Seq(Callback) /\ Len(list) \in Nat
    BY DEF CallbacksInv, Typed
  <1>2. Len(list') = Len(list) /\ \A i \in 1..Len(list) : list'[i].token = list[i].token
    <2>1. list' = [i \in 1..Len(list) |-> [list[i] EXCEPT !.acc = @ \cup {passes + 1}]]
      BY Zenon DEF AddChanges
    <2>2. \A i \in 1..Len(list) : list[i] \in Callback
      BY <1>1
    <2>3. \A i \in 1..Len(list) : [list[i] EXCEPT !.acc = @ \cup {passes + 1}].token = list[i].token
      BY <2>2 DEF Callback
    <2> DEFINE e(i) == [list[i] EXCEPT !.acc = @ \cup {passes + 1}]
    <2>4. list' = [i \in 1..Len(list) |-> e(i)] /\ \A i \in 1..Len(list) : e(i).token = list[i].token
      BY <2>1, <2>3
    <2> HIDE DEF e
    <2>5. QED
      BY <1>1, <2>4
  <1>3. UNCHANGED <<count, phase, running, size, outside, gone, packaged>>
    BY DEF AddChanges
  <1>4. QED
    BY <1>2, <1>3, ErrorKept DEF ErrorInv

LEMMA ErrorCallCallback == CallbacksInv /\ ErrorInv /\ CallCallback => ErrorInv'
  <1> SUFFICES ASSUME CallbacksInv, ErrorInv, CallCallback PROVE ErrorInv'
    OBVIOUS
  <1>1. /\ list \in Seq(Callback) /\ Len(list) \in Nat /\ index \in Int /\ index >= 0 /\ index < Len(list)
        /\ phase \in Loops /\ running = 0 /\ running' = list[index + 1].token
        /\ count \in Int /\ (count < 0 \/ index < count)
    BY DEF CallbacksInv, Typed, IndexIsInside, CallCallback, More
  <1>2. UNCHANGED <<count, phase, size, outside, gone, packaged>>
    BY DEF CallCallback
  <1>3. Len(list') = Len(list) /\ \A i \in 1..Len(list) : list'[i].token = list[i].token
    <2>1. CASE phase = "after"
      <3>1. list' = [list EXCEPT ![index + 1] = TakenOut(list[index + 1])]
        BY <2>1 DEF CallCallback
      <3>2. list[index + 1] \in Callback
        BY <1>1
      <3>3. TakenOut(list[index + 1]).token = list[index + 1].token
        BY <3>2 DEF TakenOut, Callback
      <3>4. QED
        BY <1>1, <3>1, <3>3
    <2>2. CASE phase # "after"
      BY <2>2 DEF CallCallback
    <2>3. QED
      BY <2>1, <2>2
  <1>4. phase = "error" /\ ~gone => running' \in packaged
    <2> SUFFICES ASSUME phase = "error", ~gone PROVE running' \in packaged
      OBVIOUS
    <2>1. count \in 0..Len(list) /\ \A i \in 1..Len(list) : list[i].token \in packaged <=> i <= count
      BY DEF ErrorInv, ReportedComeFirst, Reported, Untouched
    <2>2. index + 1 \in 1..Len(list) /\ index + 1 <= count
      BY <1>1, <2>1
    <2>3. QED
      BY <1>1, <2>1, <2>2
  <1>5. QED
    BY <1>2, <1>3, <1>4, ErrorKept

LEMMA ErrorReturn == CallbacksInv /\ ErrorInv /\ Return => ErrorInv'
  <1> SUFFICES ASSUME CallbacksInv, ErrorInv, Return PROVE ErrorInv'
    OBVIOUS
  <1>1. /\ running' = 0 /\ running # 0 /\ list \in Seq(Callback)
        /\ UNCHANGED <<phase, size, outside, packaged>>
    BY DEF Return, CallbacksInv, Typed
  <1>2. UNCHANGED gone
    BY DEF Return
  <1>3. CASE ~(phase = "error" /\ running \in Present)
    <2>1. UNCHANGED <<list, count>>
      BY <1>3 DEF Return
    <2>2. QED
      BY <1>1, <1>2, <2>1, ErrorKept
  <1>4. CASE phase = "error" /\ running \in Present
    <2> DEFINE p == Position(running)
    <2>1. list' = Without(p) /\ count' = count - 1
      BY <1>4 DEF Return, CountWithout
    <2>2. p \in 1..Len(list) /\ list[p].token = running
      BY <1>1, <1>4, PositionFacts
    <2> HIDE DEF p
    <2>3. Untouched' <=> Untouched
      BY <1>1, <1>2 DEF Untouched
    <2>4. ASSUME Untouched PROVE /\ count - 1 \in 0..Len(list')
                                 /\ \A i \in 1..Len(list') : list'[i].token \in packaged <=> i <= count - 1
      <3>1. /\ count \in 0..Len(list) /\ running \in packaged
            /\ \A i \in 1..Len(list) : list[i].token \in packaged <=> i <= count
        BY <1>1, <1>4, <2>4 DEF ErrorInv, ReportedComeFirst, Reported, Untouched
      <3>2. QED
        BY <1>1, <2>1, <2>2, <3>1, FirstWithout
    <2>5. Reported' = count - 1
      BY <1>1, <1>4, <2>1 DEF Reported
    <2>6. ReportedComeFirst'
      BY <1>1, <2>3, <2>4, <2>5 DEF ReportedComeFirst
    <2>7. gone' \in BOOLEAN /\ ReadsInside'
      BY <1>1, <1>2 DEF ErrorInv, ReadsInside
    <2>8. QED
      BY <1>1, <2>6, <2>7 DEF ErrorInv
  <1>5. QED
    BY <1>3, <1>4

LEMMA ErrorReadSize == CallbacksInv /\ ErrorInv /\ ReadSize => ErrorInv'
  <1> SUFFICES ASSUME CallbacksInv, ErrorInv, ReadSize PROVE ErrorInv'
    OBVIOUS
  <1>1. /\ list \in Seq(Callback) /\ Len(list) \in Nat /\ phase = "idle" /\ phase' = "reading"
        /\ size' = Len(list) /\ packaged' = Present /\ running = 0
        /\ UNCHANGED <<list, running, outside>>
    BY DEF ReadSize, CallbacksInv, Typed, IndexIsInside
  <1>2. UNCHANGED gone
    BY DEF ReadSize
  <1>3. \A i \in 1..Len(list) : list[i].token \in Present
    BY DEF Present
  <1>4. ReportedComeFirst'
    BY <1>1, <1>3 DEF ReportedComeFirst, Reported
  <1>5. ReadsInside'
    BY <1>1, <1>2 DEF ErrorInv, ReadsInside
  <1>6. QED
    BY <1>1, <1>2, <1>4, <1>5 DEF ErrorInv

LEMMA ErrorBegin ==
  ASSUME BeginErrors \/ \E kind \in {"before", "after"} : BeginLoop(kind)
  PROVE  CallbacksInv /\ ErrorInv => ErrorInv'
  <1> SUFFICES ASSUME CallbacksInv, ErrorInv PROVE ErrorInv'
    OBVIOUS
  <1>1. /\ phase' \in Loops /\ phase \notin Loops /\ running = 0
        /\ phase' = "error" => phase = "reading" /\ count' = size
        /\ UNCHANGED <<list, running, outside, packaged>>
    BY DEF BeginErrors, BeginLoop, CallbacksInv, IndexIsInside
  <1>2. UNCHANGED gone
    BY DEF BeginErrors, BeginLoop
  <1>3. ReportedComeFirst'
    BY <1>1, <1>2 DEF ErrorInv, ReportedComeFirst, Reported, Untouched
  <1>4. ~outside
    BY <1>1 DEF ErrorInv, ReadsInside
  <1>5. QED
    BY <1>1, <1>2, <1>3, <1>4 DEF ErrorInv, ReadsInside

LEMMA ErrorSkip == CallbacksInv /\ ErrorInv /\ SkipCallback => ErrorInv'
  BY ErrorKept DEF SkipCallback, ErrorInv

LEMMA ErrorReadOutside == CallbacksInv /\ ErrorInv /\ ReadOutside => ErrorInv'
  <1> SUFFICES ASSUME CallbacksInv, ErrorInv, ReadOutside PROVE ErrorInv'
    OBVIOUS
  <1>1. /\ phase \in Loops /\ index >= Len(list) /\ count \in Int /\ (count < 0 \/ index < count)
        /\ index \in Int /\ Len(list) \in Nat
        /\ UNCHANGED <<list, count, phase, running, size, packaged>>
    BY DEF ReadOutside, More, CallbacksInv, Typed
  <1>2. UNCHANGED gone
    BY DEF ReadOutside
  <1>3. phase = "error"
    BY <1>1 DEF CallbacksInv, PackageComesFirst, InDelivery
  <1>4. gone
    <2> SUFFICES ASSUME ~gone PROVE FALSE
      OBVIOUS
    <2>1. count \in 0..Len(list)
      BY <1>3 DEF ErrorInv, ReportedComeFirst, Reported, Untouched
    <2>2. QED
      BY <1>1, <2>1
  <1>5. ReportedComeFirst'
    BY <1>1, <1>2 DEF ErrorInv, ReportedComeFirst, Reported, Untouched
  <1>6. ReadsInside'
    BY <1>1, <1>2, <1>3, <1>4 DEF ReadsInside
  <1>7. QED
    BY <1>1, <1>2, <1>5, <1>6 DEF ErrorInv

(* A package is no concern of an error loop, and none is left at its end.   *)
LEMMA ErrorPackage == CallbacksInv /\ ErrorInv /\ PackageForDelivery => ErrorInv'
  <1> SUFFICES ASSUME CallbacksInv, ErrorInv, PackageForDelivery PROVE ErrorInv'
    OBVIOUS
  <1>1. phase = "idle" /\ phase' = "packaged" /\ UNCHANGED outside
    BY Zenon DEF PackageForDelivery
  <1>2. UNCHANGED gone
    BY Zenon DEF PackageForDelivery
  <1>3. QED
    BY <1>1, <1>2 DEF ErrorInv, ReadsInside, ReportedComeFirst, Untouched

LEMMA ErrorEndLoop == CallbacksInv /\ ErrorInv /\ EndLoop /\ ~outside => ErrorInv'
  <1> SUFFICES ASSUME ErrorInv, EndLoop, ~outside PROVE ErrorInv'
    OBVIOUS
  <1>1. phase' \in {"advanced", "idle"} /\ gone' = FALSE
    BY DEF EndLoop
  <1>2. ~outside'
    BY DEF EndLoop
  <1>3. QED
    BY <1>1, <1>2 DEF ErrorInv, ReadsInside, ReportedComeFirst, Untouched

LEMMA ErrorNextInv ==
  ASSUME ~RemovesNew
  PROVE  CallbacksInv /\ ErrorInv /\ [CallbacksNext]_callbacksVars => ErrorInv'
  <1>1. CallbacksInv /\ ErrorInv /\ UNCHANGED callbacksVars => ErrorInv'
    BY DEF callbacksVars, ErrorInv, ReportedComeFirst, Reported, Untouched, ReadsInside
  <1>2. QED
    BY <1>1, ErrorAddToken, ErrorRemoveToken, ErrorAddChanges, ErrorPackage, ErrorReadSize, ErrorBegin, ErrorSkip,
       ErrorCallCallback, ErrorReadOutside, ErrorReturn, ErrorEndLoop DEF CallbacksNext

-----------------------------------------------------------------------------
(* Results, for applications in which no callback that was added during a  *)
(* delivery is removed in that delivery: m_callback_count counts the        *)
(* callbacks of the package that are still there (collection_notifier.hpp:  *)
(* 240-243), and remove_callback takes one off for the others too.          *)

(* The list, the index and the counts stay in step, in a delivery and after *)
(* an error.                                                                *)
THEOREM CallbacksInvariance == ~RemovesNew => (CallbacksSpec => [](CallbacksInv /\ ErrorInv))
  <1> SUFFICES ASSUME ~RemovesNew PROVE CallbacksSpec => [](CallbacksInv /\ ErrorInv)
    OBVIOUS
  <1>1. CallbacksInv /\ [CallbacksNext]_callbacksVars => CallbacksInv'
    BY CallbacksNextInv
  <1>2. CallbacksInv /\ ErrorInv /\ [CallbacksNext]_callbacksVars => ErrorInv'
    BY ErrorNextInv
  <1>3. CallbacksInit => ErrorInv
    BY DEF CallbacksInit, ErrorInv, ReportedComeFirst, Untouched, ReadsInside
  <1>4. QED
    BY <1>1, <1>2, <1>3, CallbacksInitInv, PTL DEF CallbacksSpec

(* Every variable keeps its type; the index of for_each_callback never      *)
(* passes the end of the list, and is before it while a callback runs.      *)
THEOREM CallbacksTypeCorrect == ~RemovesNew => (CallbacksSpec => []CallbacksTypeOK)
  <1>1. CallbacksInv /\ ErrorInv => CallbacksTypeOK
    <2>1. CallbacksInv => have \in BOOLEAN
      BY Zenon DEF CallbacksInv, HaveIsRight
    <2>2. CallbacksInv => \A i \in 1..Len(list) : list[i] \in Callback
      BY EntryFacts DEF CallbacksInv, Typed
    <2>3. CallbacksInv => /\ index \in NPos..Len(list) /\ (running # 0 => index < Len(list))
                          /\ (phase \notin Loops => index = NPos /\ running = 0)
      BY DEF CallbacksInv, Typed, IndexIsInside
    <2>4. CallbacksInv /\ ErrorInv => {outside, gone} \subseteq BOOLEAN
      BY DEF CallbacksInv, Typed, ErrorInv
    <2>5. QED
      BY <2>1, <2>2, <2>3, <2>4 DEF CallbacksInv, Typed, CallbacksTypeOK
  <1>2. QED
    BY <1>1, CallbacksInvariance, PTL

(* The worker's flag is right, no change is lost on the way to a callback   *)
(* (remove_callback, package_for_delivery, after_advance), and only the     *)
(* size that deliver_error read too early leads past the end of the list.   *)
THEOREM ListStaysRight == ~RemovesNew => (CallbacksSpec => []ListIsRight)
  <1>1. CallbacksInv /\ ErrorInv => ListIsRight
    BY DEF CallbacksInv, ErrorInv, ListIsRight
  <1>2. QED
    BY <1>1, CallbacksInvariance, PTL

(* No callback is called twice in a loop, nor in a delivery it was not      *)
(* packaged for (for_each_callback against remove_callback).                *)
THEOREM NoneCalledTwice == ~RemovesNew => (CallbacksSpec => CalledOnce)
  <1> SUFFICES ASSUME ~RemovesNew PROVE CallbacksSpec => CalledOnce
    OBVIOUS
  <1>1. ASSUME CallbacksInv, CallCallback, NEW t \in Tokens, running' = t
        PROVE  t \notin called /\ (phase # "error" => t \in packaged)
    <2>1. /\ phase \in Loops /\ running = 0 /\ index < Len(list) /\ t = list[index + 1].token
          /\ count < 0 \/ index < count
      BY <1>1 DEF CallCallback, More
    <2>2. index \in Int /\ index >= 0 /\ count \in Int /\ Len(list) \in Nat
      BY <1>1, <2>1 DEF CallbacksInv, Typed, IndexIsInside
    <2>3. index + 1 \in 1..Len(list) /\ Passed = index
      BY <2>1, <2>2 DEF Passed
    <2>4. t \notin called
      BY <1>1, <2>1, <2>2, <2>3 DEF CallbacksInv, CalledWhenPassed
    <2>5. phase # "error" => InDelivery /\ index + 1 <= count
      BY <1>1, <2>1, <2>2 DEF InDelivery, CallbacksInv, PackageComesFirst
    <2>6. QED
      BY <1>1, <2>1, <2>3, <2>4, <2>5 DEF CallbacksInv, PackageComesFirst
  <1>2. CallbacksInv => [\A t \in Tokens : (CallCallback /\ running' = t)
                                     => t \notin called /\ (phase # "error" => t \in packaged)]_callbacksVars
    BY <1>1
  <1>3. QED
    BY <1>2, CallbacksInvariance, PTL DEF CalledOnce

(* At the end of a delivery everyone who was packaged for it and is still   *)
(* in the list was told everything.                                         *)
THEOREM NobodyLeftOut == ~RemovesNew => (CallbacksSpec => EveryoneCalled)
  <1> SUFFICES ASSUME ~RemovesNew PROVE CallbacksSpec => EveryoneCalled
    OBVIOUS
  <1>1. ASSUME CallbacksInv, EndLoop, phase = "after", NEW i \in 1..Len(list), list[i].token \in packaged
        PROVE  list[i].told /\ list[i].out = {}
    <2>1. running = 0 /\ count >= 0 /\ index >= count /\ index \in Int /\ count \in Int
      BY <1>1 DEF EndLoop, More, CallbacksInv, Typed
    <2>2. i <= count
      BY <1>1 DEF CallbacksInv, PackageComesFirst, InDelivery
    <2>3. i <= Passed
      BY <2>1, <2>2 DEF Passed
    <2>4. list[i].told
      BY <1>1, <2>3 DEF CallbacksInv, ToldWhenPassed
    <2>5. list[i].out = {}
      BY <1>1, <2>1, <2>3 DEF CallbacksInv, OutIsToCome, Passed
    <2>6. QED
      BY <2>4, <2>5
  <1>2. CallbacksInv => [(EndLoop /\ phase = "after") =>
                     \A i \in 1..Len(list) : list[i].token \in packaged => list[i].told /\ list[i].out = {}]_callbacksVars
    BY <1>1
  <1>3. QED
    BY <1>2, CallbacksInvariance, PTL DEF EveryoneCalled

-----------------------------------------------------------------------------
Note == [owner : Realms \cup {"none"}, where : {"none", "new", "main", "gone"}, ver : 0..MaxVersion,
         ran : BOOLEAN, prev : 0..MaxVersion, calc : SUBSET Versions, bg : BOOLEAN, cb : BOOLEAN,
         acc : SUBSET Versions, out : SUBSET Versions, told : BOOLEAN, skip : BOOLEAN,
         last : 0..MaxVersion, plain : BOOLEAN]

Thread == [ver : 0..MaxVersion, phase : {"idle", "wait", "advance", "after"}, forW : BOOLEAN,
           signal : BOOLEAN, target : 0..MaxVersion, list : SUBSET Ids, at : 0..MaxVersion]

\* Versions exist: nothing is held, skipped to, worked towards or delivered that is to come.
VersionsExist ==
    /\ nsg <= latest /\ skipV <= latest /\ worker.to <= latest
    /\ \A n \in Ids : nt[n].ver <= latest /\ (nt[n].where \in {"new", "main"} => nt[n].ver # 0)

InPass == worker.pc \in {"skipRun", "skipHand", "run", "hand"}

\* While the worker runs notifiers they stay in its list, and a version to skip that is
\* recorded meanwhile is none it passed.
PassHolds ==
    InPass => /\ worker.old \cup worker.new # {} /\ worker.old \cup worker.new \subseteq Main(nt)
              /\ worker.to # 0 /\ (skipV # 0 => worker.to <= skipV)
              /\ worker.pc \in {"skipRun", "skipHand"}
                   => worker.skip # 0 /\ worker.skip <= worker.to /\ worker.old # {}

\* Who waits to write has the lock, and waits for the version that stays the latest; a
\* package about to be delivered has the version the Realm will advance to.
RealmFits(r) ==
    /\ realm[r].ver <= latest /\ realm[r].at <= latest
    /\ realm[r].phase = "idle" => ~realm[r].forW
    /\ realm[r].forW /\ realm[r].phase \in {"wait", "advance"} => writer = r
    /\ realm[r].phase = "wait" => realm[r].target # 0 /\ (realm[r].forW => realm[r].target = latest)
    /\ realm[r].phase = "advance" /\ realm[r].list # {}
         => realm[r].at # 0 /\ (realm[r].forW => realm[r].at = latest)

RealmsFit == \A r \in Realms : RealmFits(r)

Held == VersionsExist /\ PassHolds /\ PinHolds /\ SkipIsAhead

IndInv == TypeOK /\ Held /\ RealmsFit

-----------------------------------------------------------------------------
USE NotificationsAssumption

LEMMA Types == TypeOK => nt \in [Ids -> Note] /\ realm \in [Realms -> Thread]
  BY DEF TypeOK, Note, Thread

LEMMA BetweenTyped == ASSUME TypeOK, NEW a, NEW b PROVE Between(a, b) \subseteq Versions
  BY DEF TypeOK, Between

LEMMA NoNotifierGone == NoNotifier \in Note /\ [NoNotifier EXCEPT !.where = "gone"] \in Note
  <1>1. MaxVersion \in Nat
    OBVIOUS
  <1>2. NoNotifier \in Note
    BY <1>1 DEF NoNotifier, Note, Versions
  <1>3. QED
    BY <1>2 DEF Note

LEMMA NoNotifierNew ==
  ASSUME NEW r \in Realms, NEW v \in 0..MaxVersion
  PROVE  [NoNotifier EXCEPT !.owner = r, !.where = "new", !.ver = v] \in Note
  BY NoNotifierGone DEF Note

LEMMA WithoutCallbackTyped ==
  ASSUME NEW x \in Note
  PROVE  WithoutCallback(x) \in Note /\ WithoutCallback(x).where = x.where /\ WithoutCallback(x).ver = x.ver
  <1>1. MaxVersion \in Nat
    OBVIOUS
  <1>2. ASSUME NEW none \in SUBSET Versions, NEW zero \in 0..MaxVersion, NEW no \in BOOLEAN, NEW yes \in BOOLEAN
        PROVE  [x EXCEPT !.cb = no, !.acc = none, !.out = none, !.told = no, !.skip = no,
                         !.last = zero, !.plain = yes] \in Note
    BY DEF Note
  <1>5. {} \in SUBSET Versions /\ 0 \in 0..MaxVersion
    BY <1>1
  <1>6. FALSE \in BOOLEAN /\ TRUE \in BOOLEAN
    OBVIOUS
  <1>3. WithoutCallback(x) \in Note
    BY <1>2, <1>5, <1>6, Zenon DEF WithoutCallback
  <1>4. WithoutCallback(x).where = x.where /\ WithoutCallback(x).ver = x.ver
    BY DEF Note, WithoutCallback
  <1>7. QED
    BY <1>3, <1>4

LEMMA RunFields ==
  ASSUME NEW x \in Note, NEW v \in 0..MaxVersion, NEW c \in SUBSET Versions, NEW d \in SUBSET Versions,
         NEW b \in BOOLEAN, NEW e \in BOOLEAN, NEW w \in 0..MaxVersion
  PROVE  /\ [x EXCEPT !.prev = v, !.calc = c] \in Note
         /\ [x EXCEPT !.ver = v, !.ran = TRUE, !.calc = {}, !.skip = FALSE, !.acc = c] \in Note
         /\ [x EXCEPT !.out = c, !.acc = {}] \in Note
         /\ [x EXCEPT !.bg = b, !.told = e, !.last = w, !.out = c] \in Note
  BY DEF Note

LEMMA InitInv == Init => IndInv
  BY DEF Init, IndInv, Held, TypeOK, VersionsExist, PassHolds, PinHolds, SkipIsAhead, RealmsFit, RealmFits,
         IdleRealm, NoNotifier, IdleWorker, New, Main, InPass, Versions

-----------------------------------------------------------------------------
(* What the helpers keep                                                    *)

LEMMA RunToKeeps ==
  ASSUME TypeOK, NEW n \in Ids, NEW to \in 0..MaxVersion
  PROVE  RunTo(n, to) \in Note /\ RunTo(n, to).where = nt[n].where /\ RunTo(n, to).ver = nt[n].ver
  <1> DEFINE c == IF nt[n].ran /\ nt[n].cb THEN Between(nt[n].prev, to) ELSE nt[n].calc
             x == [nt[n] EXCEPT !.prev = to, !.calc = c]
  <1>1. nt[n] \in Note
    BY Types
  <1>2. c \in SUBSET Versions
    BY <1>1, BetweenTyped DEF Note
  <1>3. RunTo(n, to) = nt[n] \/ RunTo(n, to) = x
    BY DEF RunTo
  <1> HIDE DEF c
  <1>4. x \in Note /\ x.where = nt[n].where /\ x.ver = nt[n].ver
    BY <1>1, <1>2 DEF Note
  <1>5. QED
    BY <1>1, <1>3, <1>4

LEMMA HandedOverKeeps ==
  ASSUME TypeOK, NEW n \in Ids, NEW to \in 0..MaxVersion
  PROVE  HandedOver(n, to) \in Note /\ HandedOver(n, to).where = nt[n].where /\ HandedOver(n, to).ver = to
  <1> DEFINE a == IF nt[n].cb /\ ~nt[n].skip THEN nt[n].acc \cup nt[n].calc ELSE nt[n].acc
             x == [nt[n] EXCEPT !.ver = to, !.ran = TRUE, !.calc = {}, !.skip = FALSE, !.acc = a]
  <1>1. nt[n] \in Note
    BY Types
  <1>2. a \in SUBSET Versions
    BY <1>1 DEF Note
  <1>3. HandedOver(n, to) = x
    BY DEF HandedOver
  <1> HIDE DEF a
  <1>4. x \in Note /\ x.where = nt[n].where /\ x.ver = to
    BY <1>1, <1>2 DEF Note
  <1>5. QED
    BY <1>3, <1>4

LEMMA PackageAllKeeps ==
  ASSUME TypeOK, NEW these
  PROVE  PackageAll(these) \in [Ids -> Note]
         /\ \A n \in Ids : PackageAll(these)[n].where = nt[n].where /\ PackageAll(these)[n].ver = nt[n].ver
  <1>1. ASSUME NEW n \in Ids
        PROVE  PackageAll(these)[n] \in Note
               /\ PackageAll(these)[n].where = nt[n].where /\ PackageAll(these)[n].ver = nt[n].ver
    <2> DEFINE o == IF nt[n].cb THEN nt[n].acc ELSE nt[n].out
               x == [nt[n] EXCEPT !.out = o, !.acc = {}]
    <2>1. nt[n] \in Note
      BY Types
    <2>2. o \in SUBSET Versions
      BY <2>1 DEF Note
    <2>3. PackageAll(these)[n] = nt[n] \/ PackageAll(these)[n] = x
      BY DEF PackageAll
    <2> HIDE DEF o
    <2>4. x \in Note /\ x.where = nt[n].where /\ x.ver = nt[n].ver
      BY <2>1, <2>2 DEF Note
    <2>5. QED
      BY <2>1, <2>3, <2>4
  <1>2. PackageAll(these) = [n \in Ids |-> PackageAll(these)[n]]
    BY DEF PackageAll
  <1>3. QED
    BY <1>1, <1>2

LEMMA CleanedUpKeeps ==
  ASSUME NEW f \in [Ids -> Note]
  PROVE  /\ CleanedUp(f) \in [Ids -> Note]
         /\ \A n \in Ids : \/ CleanedUp(f)[n] = f[n]
                           \/ CleanedUp(f)[n].where = "gone" /\ CleanedUp(f)[n].ver = 0
  <1>1. [NoNotifier EXCEPT !.where = "gone"] \in Note
    BY NoNotifierGone
  <1>2. [NoNotifier EXCEPT !.where = "gone"].where = "gone" /\ [NoNotifier EXCEPT !.where = "gone"].ver = 0
    BY DEF NoNotifier
  <1>3. QED
    BY <1>1, <1>2 DEF CleanedUp

-----------------------------------------------------------------------------
(* Steps that leave the worker and what it holds alone                      *)

LEMMA QuietStep ==
  ASSUME TypeOK, Held, nt' \in [Ids -> Note],
         \A n \in Ids : nt'[n].where = nt[n].where /\ nt'[n].ver = nt[n].ver,
         latest' \in Nat, latest <= latest', UNCHANGED Coordinator
  PROVE  Held'
  <1>1. Main(nt') = Main(nt) /\ New(nt') = New(nt)
    BY DEF Main, New
  <1>2. latest \in Nat /\ nsg \in Nat /\ skipV \in Nat /\ worker.to \in Nat /\ \A n \in Ids : nt[n].ver \in Nat
    BY DEF TypeOK, Versions
  <1>3. VersionsExist'
    BY <1>2 DEF Held, VersionsExist, Coordinator
  <1>4. PassHolds'
    BY <1>1 DEF Held, PassHolds, InPass, Coordinator
  <1>5. PinHolds'
    BY <1>1, <1>2 DEF Held, PinHolds, Coordinator, New
  <1>6. SkipIsAhead'
    BY <1>1 DEF Held, SkipIsAhead, Coordinator
  <1>7. QED
    BY <1>3, <1>4, <1>5, <1>6 DEF Held

LEMMA WaitFields ==
  ASSUME NEW x \in Thread, NEW v \in 0..MaxVersion, NEW w \in 0..MaxVersion, NEW l \in SUBSET Ids
  PROVE  [x EXCEPT !.ver = v, !.phase = "wait", !.forW = TRUE, !.target = w, !.list = l] \in Thread
  BY DEF Thread

LEMMA VersionsOfTyped ==
  ASSUME TypeOK, VersionsExist, NEW these \in SUBSET Ids, NEW v \in VersionsOf(these)
  PROVE  v \in 0..MaxVersion /\ v <= latest /\ ((\E r : these \subseteq Of(r)) => v # 0)
  BY DEF TypeOK, VersionsExist, Of, VersionsOf, Versions

\* One Realm changes, the file does not.
LEMMA OneRealm ==
  ASSUME TypeOK, RealmsFit, NEW r \in Realms, NEW x \in Thread, realm' = [realm EXCEPT ![r] = x],
         latest' = latest, \A s \in Realms \ {r} : writer = s => writer' = s, RealmFits(r)'
  PROVE  realm' \in [Realms -> Thread] /\ RealmsFit'
  <1>1. realm' \in [Realms -> Thread] /\ \A s \in Realms \ {r} : realm'[s] = realm[s]
    BY Types
  <1>2. \A s \in Realms \ {r} : RealmFits(s)'
    BY <1>1 DEF RealmsFit, RealmFits
  <1>3. QED
    BY <1>1, <1>2 DEF RealmsFit

\* Only notifiers change, and not the lists they are in.
LEMMA OneNotifier ==
  ASSUME IndInv, NEW n \in Ids, NEW x \in Note, nt' = [nt EXCEPT ![n] = x],
         x.where = nt[n].where, x.ver = nt[n].ver, UNCHANGED <<File, realm, Coordinator>>
  PROVE  IndInv'
  <1>1. nt' \in [Ids -> Note] /\ \A m \in Ids : nt'[m].where = nt[m].where /\ nt'[m].ver = nt[m].ver
    BY Types DEF IndInv
  <1>2. TypeOK'
    BY <1>1 DEF IndInv, TypeOK, Note, File, Coordinator
  <1>3. Held'
    BY <1>1, QuietStep DEF IndInv, TypeOK, File, Versions
  <1>4. RealmsFit'
    BY DEF IndInv, RealmsFit, RealmFits, File
  <1>5. QED
    BY <1>2, <1>3, <1>4 DEF IndInv

-----------------------------------------------------------------------------
(* Notifiers and callbacks                                                  *)

LEMMA AddCallbackStep == ASSUME NEW r \in Realms, NEW n \in Ids, IndInv, AddCallback(r, n) PROVE IndInv'
  <1> DEFINE b == ~nt[n].ran /\ realm[r].ver # 0
             x == [[nt[n] EXCEPT !.cb = TRUE] EXCEPT !.plain = b]
  <1>1. b \in BOOLEAN
    OBVIOUS
  <1>2. nt[n] \in Note /\ nt \in [Ids -> Note]
    BY Types DEF IndInv
  <1>3. nt' = [nt EXCEPT ![n].cb = TRUE, ![n].plain = b]
    BY DEF AddCallback
  <1> HIDE DEF b
  <1>4. nt' = [nt EXCEPT ![n] = x]
    BY <1>2, <1>3
  <1>5. x \in Note /\ x.where = nt[n].where /\ x.ver = nt[n].ver
    BY <1>1, <1>2 DEF Note
  <1>6. QED
    BY <1>4, <1>5, OneNotifier DEF AddCallback

LEMMA RemoveCallbackStep == ASSUME NEW n \in Ids, IndInv, RemoveCallback(n) PROVE IndInv'
  <1>1. nt[n] \in Note
    BY Types DEF IndInv
  <1>2. QED
    BY <1>1, WithoutCallbackTyped, OneNotifier DEF RemoveCallback

LEMMA UnregisterStep == ASSUME NEW n \in Ids, IndInv, Unregister(n) PROVE IndInv'
  <1> DEFINE x == [nt[n] EXCEPT !.owner = "none"]
  <1>1. nt[n] \in Note
    BY Types DEF IndInv
  <1>2. x \in Note /\ x.where = nt[n].where /\ x.ver = nt[n].ver
    BY <1>1 DEF Note
  <1>3. nt' = [nt EXCEPT ![n] = x]
    BY DEF Unregister
  <1>4. QED
    BY <1>2, <1>3, OneNotifier DEF Unregister

LEMMA SuppressNextStep == ASSUME NEW r \in Realms, NEW n \in Ids, IndInv, SuppressNext(r, n) PROVE IndInv'
  <1> DEFINE x == [[nt[n] EXCEPT !.skip = TRUE] EXCEPT !.plain = FALSE]
  <1>1. nt[n] \in Note /\ nt \in [Ids -> Note]
    BY Types DEF IndInv
  <1>2. x \in Note /\ x.where = nt[n].where /\ x.ver = nt[n].ver
    BY <1>1 DEF Note
  <1>3. nt' = [nt EXCEPT ![n] = x]
    BY <1>1 DEF SuppressNext
  <1>4. QED
    BY <1>2, <1>3, OneNotifier DEF SuppressNext

LEMMA RegisterStep == ASSUME NEW r \in Realms, NEW n \in Ids, IndInv, Register(r, n) PROVE IndInv'
  <1> DEFINE v == realm[r].ver
             x == [NoNotifier EXCEPT !.owner = r, !.where = "new", !.ver = v]
  <1>1. v \in 0..MaxVersion /\ v # 0 /\ v <= latest
    BY Types DEF Register, IndInv, RealmsFit, RealmFits, Thread
  <1>2. x \in Note
    BY <1>1, NoNotifierNew
  <1>3. x.where = "new" /\ x.ver = v
    BY DEF NoNotifier
  <1>4. nt' = [nt EXCEPT ![n] = x] /\ pin' = IF New(nt) = {} \/ v < pin THEN v ELSE pin
    BY DEF Register
  <1>5. nt[n].where = "none"
    BY DEF Register
  <1> HIDE DEF x, v
  <1>6. nt' \in [Ids -> Note] /\ nt'[n] = x /\ \A m \in Ids \ {n} : nt'[m] = nt[m]
    BY <1>2, <1>4, Types DEF IndInv
  <1>7. Main(nt') = Main(nt) /\ New(nt') = New(nt) \cup {n}
    BY <1>3, <1>5, <1>6 DEF Main, New
  <1>8. TypeOK'
    BY <1>1, <1>4, <1>6 DEF Register, IndInv, TypeOK, Note, File
  <1>9. VersionsExist' /\ PassHolds'
    BY <1>1, <1>3, <1>6, <1>7 DEF Register, File, IndInv, Held, VersionsExist, PassHolds, InPass
  <1>10. PinHolds' /\ SkipIsAhead'
    <2>1. pin' # 0
      BY <1>1, <1>4 DEF IndInv, Held, PinHolds
    <2>2. \A m \in New(nt) : m \in Ids /\ nt[m].ver \in Nat /\ pin <= nt[m].ver /\ m # n
      BY <1>5, Types DEF New, IndInv, Held, PinHolds, Note
    <2>3. pin \in Nat /\ v \in Nat
      BY <1>1 DEF IndInv, TypeOK
    <2>4. \A m \in New(nt) : pin' <= nt[m].ver
      BY <1>4, <2>2, <2>3
    <2>5. pin' <= v
      BY <1>4, <2>3
    <2>6. \A m \in New(nt') : pin' <= nt'[m].ver
      BY <1>3, <1>6, <1>7, <2>2, <2>4, <2>5
    <2>7. QED
      BY <1>7, <2>1, <2>6 DEF Register, IndInv, Held, PinHolds, SkipIsAhead
  <1>11. RealmsFit'
    BY DEF Register, File, IndInv, RealmsFit, RealmFits
  <1>12. QED
    BY <1>8, <1>9, <1>10, <1>11 DEF IndInv, Held

-----------------------------------------------------------------------------
(* Write transactions                                                       *)

LEMMA CancelWriteStep == ASSUME NEW r \in Realms, IndInv, CancelWrite(r) PROVE IndInv'
  <1>1. TypeOK'
    BY DEF CancelWrite, Coordinator, IndInv, TypeOK
  <1>2. Held'
    BY DEF CancelWrite, Coordinator, IndInv, Held, VersionsExist, PassHolds, InPass, PinHolds, SkipIsAhead
  <1>3. RealmsFit'
    BY DEF CancelWrite, Writing, Idle, IndInv, RealmsFit, RealmFits
  <1>4. QED
    BY <1>1, <1>2, <1>3 DEF IndInv

LEMMA ExternalCommitStep == ASSUME NEW touch \in BOOLEAN, IndInv, ExternalCommit(touch) PROVE IndInv'
  <1>1. latest \in Nat /\ latest' = latest + 1 /\ latest' \in Versions
    BY DEF ExternalCommit, IndInv, TypeOK, Versions
  <1>2. dirty' \subseteq Versions
    BY <1>1 DEF ExternalCommit, IndInv, TypeOK
  <1>3. TypeOK'
    BY <1>1, <1>2 DEF ExternalCommit, Coordinator, IndInv, TypeOK
  <1>4. Held'
    BY <1>1, QuietStep, Types DEF ExternalCommit, IndInv
  <1>5. RealmsFit'
    <2>1. \A r \in Realms : realm[r].ver \in Nat /\ realm[r].at \in Nat /\ writer # r
      BY Types DEF ExternalCommit, IndInv, Thread, TypeOK
    <2>2. QED
      BY <1>1, <2>1 DEF ExternalCommit, IndInv, RealmsFit, RealmFits
  <1>6. QED
    BY <1>3, <1>4, <1>5 DEF IndInv

LEMMA BeginWriteStep == ASSUME NEW r \in Realms, IndInv, BeginWrite(r) PROVE IndInv'
  <1> DEFINE x == IF Of(r) = {} THEN [realm[r] EXCEPT !.ver = latest]
                  ELSE [realm[r] EXCEPT !.ver = IF realm[r].ver = 0 THEN latest ELSE realm[r].ver, !.phase = "wait",
                                        !.forW = TRUE, !.target = latest, !.list = Of(r)]
  <1>1. realm[r] \in Thread /\ latest \in 1..MaxVersion /\ Of(r) \in SUBSET Ids
    BY Types DEF IndInv, TypeOK, Versions, Of
  <1>2. (IF realm[r].ver = 0 THEN latest ELSE realm[r].ver) \in 0..MaxVersion
    BY <1>1 DEF Thread
  <1>3. x \in Thread
    <2>1. [realm[r] EXCEPT !.ver = latest] \in Thread
      BY <1>1 DEF Thread
    <2>2. ASSUME NEW v \in 0..MaxVersion, NEW l \in SUBSET Ids
          PROVE  [realm[r] EXCEPT !.ver = v, !.phase = "wait", !.forW = TRUE, !.target = latest,
                                  !.list = l] \in Thread
      <3>1. latest \in 0..MaxVersion /\ realm[r] \in Thread
        BY <1>1
      <3>2. QED
        BY <3>1, WaitFields, Zenon
    <2>3. TRUE \in BOOLEAN
      OBVIOUS
    <2>4. CASE Of(r) = {}
      BY <2>1, <2>4
    <2>5. CASE Of(r) # {}
      BY <1>1, <1>2, <2>2, <2>3, <2>5, Zenon
    <2>6. QED
      BY <2>4, <2>5
  <1>4. realm' = [realm EXCEPT ![r] = x] /\ writer' = r /\ latest' = latest
    <2>1. CASE Of(r) = {}
      BY <2>1 DEF BeginWrite, File
    <2>2. CASE Of(r) # {}
      <3>1. realm' = [realm EXCEPT ![r] =
                        [realm[r] EXCEPT !.ver = IF realm[r].ver = 0 THEN latest ELSE realm[r].ver, !.phase = "wait",
                                         !.forW = TRUE, !.target = latest, !.list = Of(r)]]
        BY <2>2 DEF BeginWrite
      <3>2. writer' = r /\ latest' = latest
        BY DEF BeginWrite
      <3>3. QED
        BY <2>2, <3>1, <3>2, Zenon
    <2>3. QED
      BY <2>1, <2>2
  <1>5. realm'[r] = x
    BY <1>4, Types DEF IndInv
  <1>6. RealmFits(r)'
    BY <1>1, <1>4, <1>5 DEF BeginWrite, Idle, IndInv, RealmsFit, RealmFits, Thread
  <1>7. realm' \in [Realms -> Thread] /\ RealmsFit'
    <2>1. writer = "none" /\ "none" \notin Realms
      BY DEF BeginWrite
    <2>2. QED
      BY <1>3, <1>4, <1>6, <2>1, OneRealm DEF IndInv
  <1>8. TypeOK'
    BY <1>4, <1>7 DEF BeginWrite, Coordinator, IndInv, TypeOK, Thread
  <1>9. Held'
    BY <1>1, QuietStep, Types DEF BeginWrite, IndInv
  <1>10. QED
    BY <1>7, <1>8, <1>9 DEF IndInv

\* CommitVersion, in a write transaction or in a callback
LEMMA CommitStep ==
  ASSUME NEW r \in Realms, NEW touch \in BOOLEAN, IndInv, CommitVersion(r, touch),
         realm[r].phase \in {"idle", "after"}, writer \in {r, "none"}, writer' = "none",
         realm' = [realm EXCEPT ![r].ver = latest + 1], UNCHANGED <<pin, nsg, worker, Counters>>
  PROVE  IndInv'
  <1>1. latest \in Nat /\ latest' = latest + 1 /\ latest' \in Versions /\ latest' # 0
    BY DEF CommitVersion, IndInv, TypeOK, Versions
  <1>2. dirty' \subseteq Versions
    BY <1>1 DEF CommitVersion, IndInv, TypeOK
  <1>3. nt' \in [Ids -> Note] /\ \A n \in Ids : nt'[n].where = nt[n].where /\ nt'[n].ver = nt[n].ver
    <2> DEFINE b(n) == nt[n].plain /\ Idle(r)
               x(n) == [nt[n] EXCEPT !.plain = b(n)]
    <2>1. nt' = [n \in Ids |-> IF nt[n].owner = r THEN x(n) ELSE nt[n]]
      BY DEF CommitVersion
    <2>2. \A n \in Ids : b(n) \in BOOLEAN
      OBVIOUS
    <2> HIDE DEF b
    <2>3. \A n \in Ids : x(n) \in Note /\ x(n).where = nt[n].where /\ x(n).ver = nt[n].ver
      BY <2>2, Types DEF IndInv, Note
    <2> HIDE DEF x
    <2>4. QED
      BY <2>1, <2>3, Types DEF IndInv
  <1>4. Main(nt') = Main(nt) /\ New(nt') = New(nt)
    BY <1>3 DEF Main, New
  <1>5. skipV' = skipV \/ (skipV' = latest' /\ Main(nt) # {})
    BY <1>1 DEF CommitVersion, SkipAfter
  <1>6. realm' \in [Realms -> Thread] /\ realm'[r] = [realm[r] EXCEPT !.ver = latest']
        /\ \A s \in Realms \ {r} : realm'[s] = realm[s]
    <2>1. realm[r] \in Thread /\ latest' \in 0..MaxVersion
      BY <1>1, Types DEF IndInv, Versions
    <2>2. [realm[r] EXCEPT !.ver = latest'] \in Thread
      BY <2>1 DEF Thread
    <2>3. realm' = [realm EXCEPT ![r] = [realm[r] EXCEPT !.ver = latest']]
      BY <1>1
    <2>4. QED
      BY <2>2, <2>3, Types DEF IndInv
  <1>7. TypeOK'
    <2>1. TypeOK /\ latest' \in Versions /\ dirty' \subseteq Versions /\ writer' \in Realms \cup {"none"}
          /\ realm' \in [Realms -> Thread] /\ nt' \in [Ids -> Note] /\ UNCHANGED <<pin, nsg, worker>>
      BY <1>1, <1>2, <1>3, <1>6 DEF IndInv
    <2>2. skipV' \in 0..MaxVersion
      BY <1>1, <1>5 DEF IndInv, TypeOK, Versions
    <2>3. {skipV, pin, nsg}' \subseteq 0..MaxVersion
      BY <2>1, <2>2 DEF TypeOK
    <2>4. QED
      BY <2>1, <2>3 DEF TypeOK, Note, Thread
  <1>8. nsg \in Nat /\ skipV \in Nat /\ worker.to \in Nat /\ \A n \in Ids : nt[n].ver \in Nat
    BY DEF IndInv, TypeOK, Versions
  <1>9. VersionsExist' /\ PassHolds'
    BY <1>1, <1>3, <1>4, <1>5, <1>8 DEF IndInv, Held, VersionsExist, PassHolds, InPass
  <1>10. PinHolds' /\ SkipIsAhead'
    BY <1>1, <1>3, <1>4, <1>5, <1>8 DEF IndInv, Held, VersionsExist, PinHolds, SkipIsAhead, New
  <1>11. RealmsFit'
    <2>1. \A s \in Realms : realm[s].ver \in Nat /\ realm[s].at \in Nat
      BY Types DEF IndInv, Thread
    <2>2. \A s \in Realms \ {r} : writer # s
      OBVIOUS
    <2>3. ASSUME NEW s \in Realms \ {r} PROVE RealmFits(s)'
      BY <1>1, <1>6, <2>1, <2>2 DEF IndInv, RealmsFit, RealmFits
    <2>4. RealmFits(r)'
      BY <1>1, <1>6, Types DEF IndInv, RealmsFit, RealmFits, Thread
    <2>5. QED
      BY <2>3, <2>4 DEF RealmsFit
  <1>12. QED
    BY <1>7, <1>9, <1>10, <1>11 DEF IndInv, Held

LEMMA CommitWriteStep ==
  ASSUME NEW r \in Realms, NEW touch \in BOOLEAN, IndInv, CommitWrite(r, touch) \/ WriteWhileSending(r, touch)
  PROVE  IndInv'
  BY CommitStep DEF CommitWrite, WriteWhileSending, Writing, Idle

-----------------------------------------------------------------------------
(* The worker                                                               *)

LEMMA WorkerBeginStep == ASSUME IndInv, WorkerBegin PROVE IndInv'
  <1> DEFINE f == CleanedUp(nt)
             skip == IF MainEnds(nt) THEN 0 ELSE skipV
             held == IF MainEnds(nt) THEN 0 ELSE nsg
  <1>1. f \in [Ids -> Note] /\ \A n \in Ids : f[n] = nt[n] \/ (f[n].where = "gone" /\ f[n].ver = 0)
    BY CleanedUpKeeps, Types DEF IndInv
  <1>2. Main(f) \subseteq Main(nt) /\ New(f) \subseteq New(nt) /\ Main(f) \subseteq Ids /\ New(f) \subseteq Ids
    BY <1>1 DEF Main, New
  <1>3. MainEnds(nt) <=> Main(nt) # {} /\ Main(f) = {}
    BY DEF MainEnds
  <1>4. NewEnds(nt) <=> New(nt) # {} /\ New(f) = {}
    BY DEF NewEnds
  <1>5. latest \in Nat /\ latest # 0 /\ nsg \in Nat /\ skipV \in Nat /\ pin \in Nat /\ latest \in 0..MaxVersion
    BY DEF IndInv, TypeOK, Versions
  <1>6. latest' = latest /\ realm' = realm /\ writer' = writer /\ dirty' = dirty
    BY DEF WorkerBegin, File
  <1>7. RealmsFit'
    BY <1>6 DEF IndInv, RealmsFit, RealmFits
  <1>8. CASE Main(f) \cup New(f) = {}
    <2>1. nt' = f /\ skipV' = skip /\ nsg' = held /\ pin' = (IF NewEnds(nt) THEN 0 ELSE pin)
          /\ worker' = [worker EXCEPT !.pc = "signal"]
      BY <1>8 DEF WorkerBegin
    <2>2. worker' \in [pc : {"idle", "skipRun", "skipHand", "run", "hand", "signal"}, to : 0..MaxVersion,
                       skip : 0..MaxVersion, old : SUBSET Ids, new : SUBSET Ids] /\ worker'.pc = "signal" /\ worker'.to = worker.to
      BY <2>1 DEF IndInv, TypeOK
    <2>3. Main(nt') = {} /\ New(nt') = {}
      BY <1>8, <2>1
    <2>4. nsg' = 0 /\ skipV' = 0 /\ pin' = 0
      BY <1>3, <1>4, <1>8, <2>1 DEF IndInv, Held, PinHolds, SkipIsAhead
    <2> HIDE DEF f, skip, held
    <2>5. TypeOK'
      BY <1>1, <1>6, <2>1, <2>2, <2>4 DEF IndInv, TypeOK, Note
    <2>6. VersionsExist'
      BY <1>1, <1>5, <1>6, <2>1, <2>2, <2>4 DEF IndInv, Held, VersionsExist
    <2>7. PassHolds' /\ PinHolds' /\ SkipIsAhead'
      BY <2>2, <2>3, <2>4 DEF PassHolds, InPass, PinHolds, SkipIsAhead
    <2>8. QED
      BY <1>7, <2>5, <2>6, <2>7 DEF IndInv, Held
  <1>9. CASE Main(f) \cup New(f) # {}
    <2> DEFINE w == [pc |-> IF skip # 0 THEN "skipRun" ELSE "run", to |-> latest, skip |-> skip,
                     old |-> Main(f), new |-> New(f)]
               x(n) == [f[n] EXCEPT !.where = "main"]
    <2>1. nt' = [n \in Ids |-> IF f[n].where = "new" THEN x(n) ELSE f[n]]
          /\ skipV' = 0 /\ pin' = 0 /\ nsg' = (IF Main(f) = {} THEN latest ELSE held) /\ worker' = w
      BY <1>9 DEF WorkerBegin
    <2>2. skip # 0 => Main(f) # {} /\ nsg <= skip /\ skip <= latest /\ held = nsg
      BY <1>2, <1>3, <1>5 DEF IndInv, Held, SkipIsAhead, VersionsExist
    <2>3. nsg' # 0 /\ nsg' <= latest /\ nsg' \in 0..MaxVersion /\ (skip # 0 => nsg' <= skip)
      <3>1. Main(f) # {} => nsg' = nsg /\ nsg # 0
        BY <1>2, <1>3, <2>1 DEF IndInv, Held, PinHolds
      <3>2. Main(f) = {} => nsg' = latest
        BY <2>1
      <3>3. nsg <= latest /\ nsg \in 0..MaxVersion
        BY DEF IndInv, Held, VersionsExist, TypeOK
      <3> HIDE DEF f, skip, held
      <3>4. QED
        BY <1>5, <2>2, <3>1, <3>2, <3>3
    <2>4. skip \in 0..MaxVersion
      BY <1>5 DEF IndInv, TypeOK
    <2> HIDE DEF f, skip, held
    <2>5. \A n \in Ids : x(n) \in Note /\ x(n).where = "main" /\ x(n).ver = f[n].ver
      BY <1>1 DEF Note
    <2> HIDE DEF x
    <2>6. nt' \in [Ids -> Note] /\ \A n \in Ids : nt'[n].ver = f[n].ver
            /\ nt'[n].where = IF f[n].where = "new" THEN "main" ELSE f[n].where
      BY <1>1, <2>1, <2>5
    <2>7. New(nt') = {} /\ Main(nt') = Main(f) \cup New(f)
      BY <2>6 DEF New, Main
    <2>8. TypeOK'
      BY <1>2, <1>5, <1>6, <2>1, <2>3, <2>4, <2>6 DEF IndInv, TypeOK, Note
    <2>9. VersionsExist'
      <3>1. \A n \in Ids : f[n].ver <= latest /\ (f[n].where \in {"new", "main"} => f[n].ver # 0)
        BY <1>1, <1>5 DEF IndInv, Held, VersionsExist
      <3>2. QED
        BY <1>5, <1>6, <2>1, <2>3, <2>6, <3>1 DEF VersionsExist
    <2>10. PassHolds'
      BY <1>5, <1>9, <2>1, <2>2, <2>7 DEF PassHolds, InPass
    <2>11. PinHolds'
      BY <1>9, <2>1, <2>3, <2>7 DEF PinHolds
    <2>12. SkipIsAhead'
      BY <2>1, <2>2, <2>3 DEF SkipIsAhead
    <2>13. QED
      BY <1>7, <2>8, <2>9, <2>10, <2>11, <2>12 DEF IndInv, Held
  <1>10. QED
    BY <1>8, <1>9

\* What a pass computes or hands over changes versions of notifiers in the list, and the
\* version the worker holds.
LEMMA PassStep ==
  ASSUME IndInv, InPass, NEW S \in SUBSET Main(nt), NEW to \in 1..MaxVersion, to <= latest,
         nt' \in [Ids -> Note], \A n \in Ids : nt'[n].where = nt[n].where,
         \A n \in Ids : nt'[n].ver = nt[n].ver \/ (n \in S /\ nt'[n].ver = to),
         nsg' = nsg \/ nsg' = to, skipV # 0 => to <= skipV,
         worker'.pc = "skipHand" => worker.pc = "skipRun",
         worker' \in [pc : {"skipHand", "run", "hand"}, to : {worker.to}, skip : {worker.skip},
                      old : {worker.old}, new : {worker.new}],
         UNCHANGED <<File, realm, skipV, pin>>
  PROVE  IndInv'
  <1>1. Main(nt') = Main(nt) /\ New(nt') = New(nt)
    BY DEF Main, New
  <1>2. worker'.to = worker.to /\ worker'.old = worker.old /\ worker'.new = worker.new /\ worker'.pc # "skipRun"
        /\ worker'.skip = worker.skip
    OBVIOUS
  <1>3. TypeOK'
    BY DEF IndInv, TypeOK, File, Note
  <1>4. latest \in Nat /\ nsg \in Nat /\ skipV \in Nat
    BY DEF IndInv, TypeOK, Versions
  <1>5. VersionsExist'
    BY <1>2 DEF IndInv, Held, VersionsExist, File
  <1>6. PassHolds'
    BY <1>1, <1>2 DEF IndInv, Held, PassHolds, InPass
  <1>7. PinHolds'
    <2>1. \A n \in New(nt) : n \notin S
      BY DEF New, Main
    <2>2. \A n \in New(nt) : nt'[n].ver = nt[n].ver
      BY <2>1 DEF New
    <2>3. Main(nt) # {} /\ nsg' # 0
      BY DEF IndInv, Held, PassHolds, PinHolds
    <2>4. QED
      BY <1>1, <2>2, <2>3 DEF IndInv, Held, PinHolds
  <1>8. SkipIsAhead'
    BY <1>1, <1>2, <1>4 DEF IndInv, Held, SkipIsAhead
  <1>9. RealmsFit'
    BY DEF IndInv, RealmsFit, RealmFits, File
  <1>10. QED
    BY <1>3, <1>5, <1>6, <1>7, <1>8, <1>9 DEF IndInv, Held

\* The lists of a pass
LEMMA PassLists ==
  ASSUME IndInv, InPass
  PROVE  /\ worker.old \in SUBSET Main(nt) /\ worker.old \cup worker.new \in SUBSET Main(nt)
         /\ worker.to \in 1..MaxVersion /\ worker.to <= latest /\ (skipV # 0 => worker.to <= skipV)
  BY DEF IndInv, Held, PassHolds, VersionsExist, TypeOK

LEMMA WorkerSkipRunStep == ASSUME IndInv, WorkerSkipRun PROVE IndInv'
  <1>1. InPass /\ worker.pc = "skipRun"
    BY DEF WorkerSkipRun, InPass
  <1>2. worker.skip \in 1..MaxVersion /\ worker.skip <= latest /\ (skipV # 0 => worker.skip <= skipV)
    BY <1>1, PassLists DEF IndInv, Held, PassHolds, SkipIsAhead, TypeOK, Versions
  <1>3. nt' \in [Ids -> Note] /\ \A n \in Ids : nt'[n].where = nt[n].where /\ nt'[n].ver = nt[n].ver
    BY <1>2, RunToKeeps, Types DEF WorkerSkipRun, IndInv
  <1>4. QED
    BY <1>1, <1>2, <1>3, PassLists, PassStep DEF WorkerSkipRun, IndInv, TypeOK

LEMMA WorkerSkipHandStep == ASSUME IndInv, WorkerSkipHand PROVE IndInv'
  <1>1. InPass /\ worker.pc = "skipHand"
    BY DEF WorkerSkipHand, InPass
  <1>2. worker.skip \in 1..MaxVersion /\ worker.skip <= latest /\ (skipV # 0 => worker.skip <= skipV)
    BY <1>1, PassLists DEF IndInv, Held, PassHolds, TypeOK, Versions
  <1>3. /\ nt' \in [Ids -> Note] /\ \A n \in Ids : nt'[n].where = nt[n].where
        /\ \A n \in Ids : nt'[n].ver = nt[n].ver \/ (n \in worker.old /\ nt'[n].ver = worker.skip)
    BY <1>2, HandedOverKeeps, Types DEF WorkerSkipHand, IndInv
  <1>4. QED
    <2>1. worker' \in [pc : {"skipHand", "run", "hand"}, to : {worker.to}, skip : {worker.skip},
                       old : {worker.old}, new : {worker.new}] /\ worker'.pc = "run"
      BY DEF WorkerSkipHand, IndInv, TypeOK
    <2>2. worker.old \in SUBSET Main(nt)
      BY <1>1, PassLists
    <2>3. UNCHANGED <<File, realm, skipV, pin>> /\ nsg' = nsg
      BY DEF WorkerSkipHand
    <2>4. QED
      BY <1>1, <1>2, <1>3, <2>1, <2>2, <2>3, PassStep

LEMMA WorkerRunStep == ASSUME IndInv, WorkerRun PROVE IndInv'
  <1>1. InPass
    BY DEF WorkerRun, InPass
  <1>3. nt' \in [Ids -> Note] /\ \A n \in Ids : nt'[n].where = nt[n].where /\ nt'[n].ver = nt[n].ver
    BY <1>1, PassLists, RunToKeeps, Types DEF WorkerRun, IndInv
  <1>4. QED
    BY <1>1, <1>3, PassLists, PassStep DEF WorkerRun, IndInv, TypeOK

LEMMA WorkerHandStep == ASSUME IndInv, WorkerHand PROVE IndInv'
  <1> DEFINE S == worker.old \cup worker.new
             f == [n \in Ids |-> IF n \in S THEN HandedOver(n, worker.to) ELSE nt[n]]
  <1>1. InPass /\ worker.to \in 1..MaxVersion /\ worker.to <= latest /\ S \in SUBSET Main(nt) /\ S # {}
    BY PassLists DEF WorkerHand, InPass, IndInv, Held, PassHolds
  <1>2. /\ f \in [Ids -> Note] /\ \A n \in Ids : f[n].where = nt[n].where
        /\ \A n \in Ids : f[n].ver = nt[n].ver \/ (n \in S /\ f[n].ver = worker.to)
    BY <1>1, HandedOverKeeps, Types DEF IndInv
  <1>3. nt' = CleanedUp(f) /\ skipV' = (IF MainEnds(f) THEN 0 ELSE skipV)
        /\ nsg' = (IF MainEnds(f) THEN 0 ELSE nsg) /\ pin' = (IF NewEnds(f) THEN 0 ELSE pin)
    BY DEF WorkerHand
  <1> HIDE DEF f, S
  <1>4. nt' \in [Ids -> Note] /\ \A n \in Ids : nt'[n] = f[n] \/ (nt'[n].where = "gone" /\ nt'[n].ver = 0)
    BY <1>2, <1>3, CleanedUpKeeps
  <1>5. Main(f) = Main(nt) /\ New(f) = New(nt)
    BY <1>2 DEF Main, New
  <1>6. MainEnds(f) <=> Main(f) # {} /\ Main(nt') = {}
    BY <1>3 DEF MainEnds
  <1>7. NewEnds(f) <=> New(f) # {} /\ New(nt') = {}
    BY <1>3 DEF NewEnds
  <1>8. Main(nt) # {} /\ nsg # 0 /\ (pin = 0 <=> New(nt) = {})
    BY <1>1 DEF IndInv, Held, PinHolds
  <1>9. worker' = [IdleWorker EXCEPT !.pc = "signal"]
    BY DEF WorkerHand
  <1>10. worker'.pc = "signal" /\ worker'.to = 0
         /\ worker' \in [pc : {"idle", "skipRun", "skipHand", "run", "hand", "signal"}, to : 0..MaxVersion,
                         skip : 0..MaxVersion, old : SUBSET Ids, new : SUBSET Ids]
    <2>1. MaxVersion \in Nat
      OBVIOUS
    <2>2. QED
      BY <1>9, <2>1 DEF IdleWorker
  <1>11. latest \in Nat /\ nsg \in Nat /\ skipV \in Nat /\ pin \in Nat /\ {nsg, skipV, pin, 0} \subseteq 0..MaxVersion
    BY DEF IndInv, TypeOK, Versions
  <1>12. TypeOK'
    <2>1. {skipV', pin', nsg'} \subseteq 0..MaxVersion
      BY <1>3, <1>11
    <2>2. latest' = latest /\ dirty' = dirty /\ writer' = writer /\ realm' = realm
      BY DEF WorkerHand, File
    <2>3. nt' \in [Ids -> Note]
      BY <1>4
    <2>4. QED
      BY <1>10, <2>1, <2>2, <2>3 DEF IndInv, TypeOK, Note
  <1>13. VersionsExist'
    <2>1. \A n \in Ids : f[n].ver <= latest /\ (f[n].where \in {"new", "main"} => f[n].ver # 0)
      BY <1>1, <1>2 DEF IndInv, Held, VersionsExist
    <2>2. latest' = latest
      BY DEF WorkerHand, File
    <2>3. QED
      BY <1>3, <1>4, <1>10, <1>11, <2>1, <2>2 DEF IndInv, Held, VersionsExist
  <1>14. PassHolds'
    BY <1>10 DEF PassHolds, InPass
  <1>15. PinHolds'
    <2>1. \A n \in New(nt') : n \in New(nt) /\ nt'[n].ver = nt[n].ver
      <3>1. \A n \in New(nt) : n \notin S
        BY <1>1 DEF New, Main
      <3>2. \A n \in New(nt') : n \in Ids /\ nt'[n] = f[n] /\ n \in New(nt)
        BY <1>2, <1>4 DEF New
      <3>3. QED
        BY <1>2, <3>1, <3>2
    <2>2. \A n \in New(nt) : pin <= nt[n].ver
      BY DEF IndInv, Held, PinHolds
    <2>3. \A n \in New(nt') : pin' <= nt'[n].ver
      BY <1>3, <1>7, <2>1, <2>2
    <2>4. (pin' = 0) = (New(nt') = {})
      BY <1>3, <1>5, <1>7, <1>8, <2>1
    <2>5. (nsg' = 0) = (Main(nt') = {})
      BY <1>3, <1>5, <1>6, <1>8
    <2>6. QED
      BY <2>3, <2>4, <2>5 DEF PinHolds
  <1>16. SkipIsAhead'
    BY <1>3, <1>5, <1>6, <1>8, <1>10 DEF IndInv, Held, SkipIsAhead
  <1>17. RealmsFit'
    BY DEF WorkerHand, File, IndInv, RealmsFit, RealmFits
  <1>18. QED
    BY <1>12, <1>13, <1>14, <1>15, <1>16, <1>17 DEF IndInv, Held

LEMMA WorkerSignalStep == ASSUME IndInv, WorkerSignal PROVE IndInv'
  <1> DEFINE x(r) == [realm[r] EXCEPT !.signal = TRUE]
  <1>1. \A r \in Realms : /\ x(r) \in Thread /\ x(r).ver = realm[r].ver /\ x(r).phase = realm[r].phase
                          /\ x(r).forW = realm[r].forW /\ x(r).target = realm[r].target
                          /\ x(r).list = realm[r].list /\ x(r).at = realm[r].at
    BY Types DEF IndInv, Thread
  <1>2. realm' = [r \in Realms |-> x(r)]
    BY DEF WorkerSignal
  <1> HIDE DEF x
  <1>3. realm' \in [Realms -> Thread] /\ RealmsFit'
    <2>1. realm' \in [Realms -> Thread]
      BY <1>1, <1>2
    <2>2. ASSUME NEW r \in Realms PROVE RealmFits(r)'
      <3>1. realm'[r] = x(r) /\ RealmFits(r) /\ latest' = latest /\ writer' = writer
        BY <1>2 DEF WorkerSignal, File, IndInv, RealmsFit
      <3>2. /\ realm'[r].ver = realm[r].ver /\ realm'[r].phase = realm[r].phase
            /\ realm'[r].forW = realm[r].forW /\ realm'[r].target = realm[r].target
            /\ realm'[r].list = realm[r].list /\ realm'[r].at = realm[r].at
        BY <1>1, <3>1
      <3>3. QED
        BY <3>1, <3>2 DEF RealmFits
    <2>3. QED
      BY <2>1, <2>2 DEF RealmsFit
  <1>4. worker'.pc = "idle" /\ worker'.to = 0
        /\ worker' \in [pc : {"idle", "skipRun", "skipHand", "run", "hand", "signal"}, to : 0..MaxVersion,
                        skip : 0..MaxVersion, old : SUBSET Ids, new : SUBSET Ids]
    <2>1. MaxVersion \in Nat
      OBVIOUS
    <2>2. QED
      BY <2>1 DEF WorkerSignal, IdleWorker
  <1>5. TypeOK'
    BY <1>3, <1>4 DEF WorkerSignal, File, IndInv, TypeOK, Thread
  <1>6. latest \in Nat
    BY DEF IndInv, TypeOK, Versions
  <1>7. Held'
    BY <1>4, <1>6 DEF WorkerSignal, File, IndInv, Held, VersionsExist, PassHolds, InPass, PinHolds, SkipIsAhead
  <1>8. QED
    BY <1>3, <1>5, <1>7 DEF IndInv

-----------------------------------------------------------------------------
(* Delivery                                                                 *)

\* A Realm changes, and notifiers are packaged or not.
LEMMA DeliveryStep ==
  ASSUME IndInv, NEW r \in Realms, NEW x \in Thread, realm' = [realm EXCEPT ![r] = x],
         nt' \in [Ids -> Note], \A n \in Ids : nt'[n].where = nt[n].where /\ nt'[n].ver = nt[n].ver,
         UNCHANGED <<File, Coordinator>>, RealmFits(r)'
  PROVE  IndInv'
  <1>1. latest' = latest /\ writer' = writer /\ latest \in Nat
    BY DEF File, IndInv, TypeOK, Versions
  <1>2. realm' \in [Realms -> Thread] /\ RealmsFit'
    BY <1>1, OneRealm DEF IndInv
  <1>3. TypeOK'
    BY <1>2 DEF File, Coordinator, IndInv, TypeOK, Note, Thread
  <1>4. Held'
    BY <1>1, QuietStep DEF IndInv
  <1>5. QED
    BY <1>2, <1>3, <1>4 DEF IndInv

\* The fields of a Realm after the steps of a delivery
LEMMA StepFields ==
  ASSUME NEW x \in Thread, NEW l \in SUBSET Ids, NEW v \in 0..MaxVersion, NEW w \in 0..MaxVersion,
         NEW ph \in {"wait", "advance", "after"}
  PROVE  /\ [x EXCEPT !.phase = ph, !.ver = v] \in Thread
         /\ [x EXCEPT !.phase = ph, !.target = v, !.list = l] \in Thread
         /\ [x EXCEPT !.phase = ph, !.list = l, !.at = v] \in Thread
         /\ [x EXCEPT !.list = l] \in Thread /\ [x EXCEPT !.ver = v] \in Thread
  <1>1. [x EXCEPT !.phase = ph, !.ver = v] \in Thread
    BY DEF Thread
  <1>2. [x EXCEPT !.phase = ph, !.target = v, !.list = l] \in Thread
    BY DEF Thread
  <1>3. [x EXCEPT !.phase = ph, !.list = l, !.at = v] \in Thread
    BY DEF Thread
  <1>4. [x EXCEPT !.list = l] \in Thread /\ [x EXCEPT !.ver = v] \in Thread
    BY DEF Thread
  <1>5. QED
    BY <1>1, <1>2, <1>3, <1>4

LEMMA LongFields ==
  ASSUME NEW x \in Thread, NEW l \in SUBSET Ids, NEW v \in 0..MaxVersion, NEW w \in 0..MaxVersion
  PROVE  /\ [x EXCEPT !.ver = v, !.phase = "after", !.list = l, !.at = v] \in Thread
         /\ [x EXCEPT !.phase = "advance", !.target = w, !.list = l, !.at = v] \in Thread
  <1>1. [x EXCEPT !.ver = v, !.phase = "after", !.list = l, !.at = v] \in Thread
    BY DEF Thread
  <1>2. [x EXCEPT !.phase = "advance", !.target = w, !.list = l, !.at = v] \in Thread
    BY DEF Thread
  <1>3. QED
    BY <1>1, <1>2

LEMMA RefreshStep == ASSUME NEW r \in Realms, IndInv, Refresh(r) PROVE IndInv'
  <1>1. realm[r] \in Thread /\ latest \in 0..MaxVersion /\ latest # 0 /\ latest' = latest /\ writer' = writer
        /\ Of(r) \in SUBSET Ids /\ nt \in [Ids -> Note] /\ ~realm[r].forW /\ realm[r].ver <= latest /\ realm[r].at <= latest
    BY Types DEF Refresh, Idle, File, IndInv, TypeOK, Versions, Of, RealmsFit, RealmFits
  <1>2. CASE realm[r].ver # 0
    <2> DEFINE x == [realm[r] EXCEPT !.phase = "wait", !.target = latest, !.list = Of(r)]
    <2>1. x \in Thread
      BY <1>1, StepFields
    <2>2. realm' = [realm EXCEPT ![r] = x] /\ nt' = nt
      BY <1>2 DEF Refresh
    <2>3. x.phase = "wait" /\ x.target = latest /\ x.forW = realm[r].forW /\ x.ver = realm[r].ver /\ x.at = realm[r].at
      BY <1>1 DEF Thread
    <2> HIDE DEF x
    <2>4. realm'[r] = x
      BY <2>2, Types DEF IndInv
    <2>5. RealmFits(r)'
      BY <1>1, <2>3, <2>4 DEF RealmFits
    <2>6. QED
      BY <1>1, <2>1, <2>2, <2>5, DeliveryStep DEF Refresh
  <1>3. CASE realm[r].ver = 0
    <2> DEFINE these == {n \in Packaged(Of(r)) : nt[n].ver = latest}
               x == [realm[r] EXCEPT !.ver = latest, !.phase = "after", !.list = these, !.at = latest]
    <2>1. these \in SUBSET Ids
      BY <1>1 DEF Packaged
    <2>2. realm' = [realm EXCEPT ![r] = x] /\ nt' = PackageAll(these)
      BY <1>3 DEF Refresh
    <2> HIDE DEF these
    <2>3. x \in Thread
      BY <1>1, <2>1, LongFields
    <2>4. x.phase = "after" /\ x.ver = latest /\ x.at = latest
      BY <1>1 DEF Thread
    <2> HIDE DEF x
    <2>5. realm'[r] = x
      BY <2>2, Types DEF IndInv
    <2>6. RealmFits(r)'
      BY <1>1, <2>4, <2>5 DEF RealmFits
    <2>7. nt' \in [Ids -> Note] /\ \A n \in Ids : nt'[n].where = nt[n].where /\ nt'[n].ver = nt[n].ver
      BY <2>2, PackageAllKeeps DEF IndInv
    <2>8. UNCHANGED <<File, Coordinator>>
      BY DEF Refresh
    <2>9. QED
      BY <2>2, <2>3, <2>6, <2>7, <2>8, DeliveryStep
  <1>4. QED
    BY <1>2, <1>3

LEMMA PackageAndWaitStep == ASSUME NEW r \in Realms, IndInv, PackageAndWait(r) PROVE IndInv'
  <1> DEFINE all == Packaged(realm[r].list)
  <1>1. realm[r] \in Thread /\ latest \in 0..MaxVersion /\ latest' = latest /\ writer' = writer
        /\ realm[r].phase = "wait" /\ RealmFits(r) /\ UNCHANGED <<File, Coordinator>>
    BY Types DEF PackageAndWait, File, IndInv, TypeOK, Versions, RealmsFit
  <1>2. all \in SUBSET Ids
    BY <1>1 DEF Packaged, Thread
  <1> PICK at \in IF all = {} THEN {0} ELSE VersionsOf(all) :
         realm' = [realm EXCEPT ![r] = [realm[r] EXCEPT !.phase = "advance", !.target = 0,
                                          !.list = IF at < realm[r].target THEN {} ELSE all,
                                          !.at = IF at < realm[r].target THEN 0 ELSE at]]
    BY DEF PackageAndWait
  <1> DEFINE late == IF at < realm[r].target THEN {} ELSE all
             to == IF at < realm[r].target THEN 0 ELSE at
             x == [realm[r] EXCEPT !.phase = "advance", !.target = 0, !.list = late, !.at = to]
  <1>3. nt' = PackageAll(all) /\ realm' = [realm EXCEPT ![r] = x]
    BY DEF PackageAndWait
  <1>4. at \in 0..MaxVersion /\ at <= latest /\ MaxVersion \in Nat /\ 0 \in 0..MaxVersion
    BY <1>1, <1>2, VersionsOfTyped DEF IndInv, Held
  <1> HIDE DEF all
  <1>5. late \in SUBSET Ids /\ to \in 0..MaxVersion
    BY <1>2, <1>4
  <1>6. late # {} => to = at /\ at >= realm[r].target /\ realm[r].target \in Nat /\ at \in Nat /\ latest \in Nat
    BY <1>1, <1>4 DEF Thread
  <1> HIDE DEF late, to
  <1>7. x \in Thread
    BY <1>1, <1>4, <1>5, LongFields
  <1>8. x.phase = "advance" /\ x.ver = realm[r].ver /\ x.forW = realm[r].forW /\ x.list = late /\ x.at = to
    BY <1>1 DEF Thread
  <1> HIDE DEF x
  <1>9. realm'[r] = x
    BY <1>3, Types DEF IndInv
  <1>14. to <= latest
    BY <1>1, <1>4 DEF to
  <1>10. late # {} => to # 0 /\ (realm[r].forW => to = latest)
    BY <1>1, <1>4, <1>6 DEF RealmFits
  <1>11. RealmFits(r)'
    BY <1>1, <1>8, <1>9, <1>10, <1>14 DEF RealmFits
  <1>12. nt' \in [Ids -> Note] /\ \A n \in Ids : nt'[n].where = nt[n].where /\ nt'[n].ver = nt[n].ver
    BY <1>3, PackageAllKeeps DEF IndInv
  <1>13. QED
    BY <1>1, <1>3, <1>7, <1>11, <1>12, DeliveryStep

LEMMA AdvanceStep == ASSUME NEW r \in Realms, IndInv, Advance(r) PROVE IndInv'
  <1> DEFINE v == IF realm[r].at # 0 /\ ~realm[r].forW THEN realm[r].at ELSE latest
             x == [realm[r] EXCEPT !.phase = "after", !.ver = v]
  <1>1. realm[r] \in Thread /\ latest \in 0..MaxVersion /\ latest' = latest /\ writer' = writer
        /\ UNCHANGED <<File, Coordinator>> /\ nt' = nt /\ nt \in [Ids -> Note]
    BY Types DEF Advance, File, IndInv, TypeOK, Versions
  <1>2. v \in 0..MaxVersion /\ v <= latest
    BY <1>1 DEF Thread, IndInv, RealmsFit, RealmFits, Advance
  <1>3. realm' = [realm EXCEPT ![r] = x]
    BY DEF Advance
  <1> HIDE DEF v
  <1>4. x \in Thread
    BY <1>1, <1>2, StepFields
  <1>5. x.phase = "after" /\ x.ver = v /\ x.at = realm[r].at
    BY <1>1 DEF Thread
  <1> HIDE DEF x
  <1>6. realm'[r] = x
    BY <1>3, Types DEF IndInv
  <1>7. RealmFits(r)'
    BY <1>1, <1>2, <1>5, <1>6 DEF IndInv, RealmsFit, RealmFits
  <1>8. QED
    BY <1>1, <1>3, <1>4, <1>7, DeliveryStep

LEMMA NotifyStep == ASSUME NEW r \in Realms, IndInv, Notify(r) PROVE IndInv'
  <1> DEFINE quiet == [realm[r] EXCEPT !.signal = FALSE]
             ver == realm[r].ver
             same == {n \in Packaged(Of(r)) : ver = 0 \/ nt[n].ver = ver}
             these == Packaged(Of(r))
  <1>1. realm[r] \in Thread /\ latest \in 0..MaxVersion /\ latest' = latest /\ writer' = writer
        /\ UNCHANGED <<File, Coordinator>> /\ nt \in [Ids -> Note] /\ realm[r].phase = "idle"
        /\ RealmFits(r) /\ 0 \in 0..MaxVersion
    <2>1. MaxVersion \in Nat
      OBVIOUS
    <2>2. UNCHANGED <<File, Coordinator>> /\ realm[r].phase = "idle"
      BY DEF Notify, Idle
    <2>3. QED
      BY <2>1, <2>2, Types DEF File, IndInv, TypeOK, Versions, RealmsFit
  <1>2. quiet \in Thread /\ quiet.phase = "idle" /\ quiet.ver = ver /\ quiet.at = realm[r].at
        /\ quiet.forW = realm[r].forW /\ ~quiet.forW
    BY <1>1 DEF Thread, RealmFits
  <1>3. these \in SUBSET Of(r) /\ same \in SUBSET Of(r) /\ Of(r) \in SUBSET Ids
    BY DEF Packaged, Of
  <1>4. \A l \in SUBSET Of(r) : \A at \in VersionsOf(l) : at \in 0..MaxVersion /\ at <= latest /\ at # 0
    BY <1>3, VersionsOfTyped DEF IndInv, Held
  <1>5. CASE writer = r
    <2>1. realm' = [realm EXCEPT ![r] = quiet] /\ nt' = nt
      BY <1>5 DEF Notify
    <2> HIDE DEF quiet
    <2>2. realm'[r] = quiet
      BY <2>1, Types DEF IndInv
    <2>3. RealmFits(r)'
      BY <1>1, <1>2, <2>2 DEF RealmFits
    <2>4. QED
      BY <1>1, <1>2, <2>1, <2>3, DeliveryStep
  <1>6. ASSUME NEW l \in SUBSET Of(r), nt' = PackageAll(l)
        PROVE  nt' \in [Ids -> Note] /\ \A n \in Ids : nt'[n].where = nt[n].where /\ nt'[n].ver = nt[n].ver
    BY <1>6, PackageAllKeeps DEF IndInv
  <1>7. CASE writer # r /\ (ver = 0 \/ ver = latest)
    <2> PICK at \in IF same = {} THEN {ver} ELSE VersionsOf(same) :
               realm' = [realm EXCEPT ![r] = [quiet EXCEPT !.phase = "after", !.list = same, !.at = at]]
      BY <1>7 DEF Notify
    <2> DEFINE x == [quiet EXCEPT !.phase = "after", !.list = same, !.at = at]
    <2>1. nt' = PackageAll(same) /\ realm' = [realm EXCEPT ![r] = x]
      BY <1>7 DEF Notify
    <2>2. at \in 0..MaxVersion /\ at <= latest
      <3>1. CASE same = {}
        BY <1>1, <3>1 DEF Thread, RealmFits
      <3>2. CASE same # {}
        BY <1>3, <1>4, <3>2
      <3>3. QED
        BY <3>1, <3>2
    <2> HIDE DEF quiet, same, ver
    <2>3. x \in Thread
      BY <1>2, <1>3, <2>2, StepFields
    <2>4. x.phase = "after" /\ x.ver = ver /\ x.at = at
      BY <1>2 DEF Thread
    <2> HIDE DEF x
    <2>5. realm'[r] = x
      BY <2>1, Types DEF IndInv
    <2>6. RealmFits(r)'
      BY <1>1, <2>2, <2>4, <2>5 DEF RealmFits, ver
    <2>7. QED
      BY <1>1, <1>3, <1>6, <2>1, <2>3, <2>6, DeliveryStep, ZenonT(30)
  <1>8. CASE writer # r /\ ver # 0 /\ ver # latest
    <2> DEFINE x(at) == CASE at # 0 /\ at < ver -> quiet
                          [] at = ver -> [quiet EXCEPT !.phase = "after", !.list = these, !.at = at]
                          [] OTHER -> [quiet EXCEPT !.phase = "advance", !.list = these, !.at = at]
    <2> PICK at \in IF these = {} THEN {0} ELSE VersionsOf(these) : realm' = [realm EXCEPT ![r] = x(at)]
      BY <1>8 DEF Notify
    <2>1. nt' = PackageAll(these)
      BY <1>8 DEF Notify
    <2>2. at \in 0..MaxVersion /\ at <= latest /\ (these # {} => at # 0) /\ ver \in 0..MaxVersion
      <3>1. CASE these = {}
        BY <1>1, <3>1 DEF Thread, RealmFits
      <3>2. CASE these # {}
        BY <1>1, <1>3, <1>4, <3>2 DEF Thread
      <3>3. QED
        BY <3>1, <3>2
    <2> HIDE DEF quiet, these, ver
    <2>3. /\ [quiet EXCEPT !.phase = "after", !.list = these, !.at = at] \in Thread
          /\ [quiet EXCEPT !.phase = "advance", !.list = these, !.at = at] \in Thread
      BY <1>2, <1>3, <2>2, StepFields
    <2> DEFINE a == [quiet EXCEPT !.phase = "after", !.list = these, !.at = at]
               b == [quiet EXCEPT !.phase = "advance", !.list = these, !.at = at]
    <2>4. a.phase = "after" /\ a.ver = ver /\ a.at = at /\ b.phase = "advance" /\ b.ver = ver /\ b.at = at
          /\ b.list = these /\ b.forW = quiet.forW
      BY <1>2 DEF Thread
    <2>5. x(at) = quiet \/ x(at) = a \/ x(at) = b
      BY <2>2
    <2> HIDE DEF a, b, x
    <2>6. x(at) \in Thread
      BY <1>2, <2>3, <2>5 DEF a, b
    <2>7. realm'[r] = x(at)
      BY Types DEF IndInv
    <2>8. RealmFits(r)'
      <3>1. CASE x(at) = quiet
        BY <1>1, <1>2, <2>7, <3>1 DEF RealmFits, ver
      <3>2. CASE x(at) = a
        BY <1>1, <2>2, <2>4, <2>7, <3>2 DEF RealmFits, ver
      <3>3. CASE x(at) = b
        BY <1>1, <1>2, <2>2, <2>4, <2>7, <3>3 DEF RealmFits, ver
      <3>4. QED
        BY <2>5, <3>1, <3>2, <3>3
    <2>9. QED
      BY <1>1, <1>3, <1>6, <2>1, <2>6, <2>8, DeliveryStep
  <1>9. QED
    BY <1>5, <1>7, <1>8

LEMMA AfterAdvanceStep ==
  ASSUME NEW r \in Realms, NEW n \in Ids, NEW unused \in BOOLEAN, IndInv, AfterAdvance(r, n, unused)
  PROVE  IndInv'
  <1> DEFINE x == [realm[r] EXCEPT !.list = realm[r].list \ {n}]
             bg == nt[n].bg /\ ~(unused /\ ~realm[r].forW /\ Alive(n))
             told == nt[n].told \/ Called(n)
             last == IF Called(n) THEN realm[r].at ELSE nt[n].last
             o == IF Called(n) THEN {} ELSE nt[n].out
             y == [nt[n] EXCEPT !.bg = bg, !.told = told, !.last = last, !.out = o]
  <1>1. realm[r] \in Thread /\ nt[n] \in Note /\ nt \in [Ids -> Note] /\ realm[r].phase = "after"
        /\ UNCHANGED <<File, Coordinator>> /\ latest' = latest /\ writer' = writer
    BY Types DEF AfterAdvance, File, IndInv
  <1>2. bg \in BOOLEAN /\ told \in BOOLEAN
    OBVIOUS
  <1>3. last \in 0..MaxVersion /\ o \in SUBSET Versions
    BY <1>1 DEF Note, Thread
  <1>4. realm' = [realm EXCEPT ![r] = x] /\ nt' = [nt EXCEPT ![n] = y]
    BY Zenon DEF AfterAdvance
  <1>5. x \in Thread /\ x.phase = "after" /\ x.ver = realm[r].ver /\ x.at = realm[r].at
    BY <1>1 DEF Thread
  <1> HIDE DEF bg, told, last, o
  <1>6. y \in Note
    BY <1>1, <1>2, <1>3, RunFields
  <1>7. y.where = nt[n].where /\ y.ver = nt[n].ver
    BY <1>1 DEF Note
  <1> HIDE DEF x, y
  <1>8. realm'[r] = x
    BY <1>4, Types DEF IndInv
  <1>9. RealmFits(r)'
    BY <1>1, <1>5, <1>8 DEF IndInv, RealmsFit, RealmFits
  <1>10. nt' \in [Ids -> Note] /\ \A m \in Ids : nt'[m].where = nt[m].where /\ nt'[m].ver = nt[m].ver
    BY <1>1, <1>4, <1>6, <1>7
  <1>11. QED
    BY <1>1, <1>4, <1>5, <1>9, <1>10, DeliveryStep

LEMMA DeliveryEndsStep == ASSUME NEW r \in Realms, IndInv, DeliveryEnds(r) PROVE IndInv'
  <1> DEFINE x == [realm[r] EXCEPT !.phase = "idle", !.forW = FALSE, !.at = 0]
  <1>1. realm[r] \in Thread /\ UNCHANGED <<File, Coordinator>> /\ latest' = latest /\ writer' = writer
        /\ nt' = nt /\ nt \in [Ids -> Note] /\ latest \in Nat /\ MaxVersion \in Nat
    BY Types DEF DeliveryEnds, File, IndInv, TypeOK, Versions
  <1>2. x \in Thread
    <2>1. ASSUME NEW v \in 0..MaxVersion PROVE [realm[r] EXCEPT !.phase = "idle", !.forW = FALSE, !.at = v] \in Thread
      BY <1>1 DEF Thread
    <2>2. 0 \in 0..MaxVersion
      BY <1>1
    <2>3. QED
      BY <2>1, <2>2
  <1>3. x.phase = "idle" /\ ~x.forW /\ x.ver = realm[r].ver /\ x.at = 0
    BY <1>1 DEF Thread
  <1>4. realm' = [realm EXCEPT ![r] = x]
    BY DEF DeliveryEnds
  <1> HIDE DEF x
  <1>5. realm'[r] = x
    BY <1>4, Types DEF IndInv
  <1>6. RealmFits(r)'
    BY <1>1, <1>3, <1>5 DEF IndInv, RealmsFit, RealmFits
  <1>7. QED
    BY <1>1, <1>2, <1>4, <1>6, DeliveryStep

LEMMA ReadStep ==
  ASSUME NEW r \in Realms, IndInv, NEW v \in 0..MaxVersion, v <= latest, realm' = [realm EXCEPT ![r].ver = v],
         realm[r].phase = "idle", UNCHANGED <<File, Coordinator>>,
         nt' \in [Ids -> Note], \A n \in Ids : nt'[n].where = nt[n].where /\ nt'[n].ver = nt[n].ver
  PROVE  IndInv'
  <1> DEFINE x == [realm[r] EXCEPT !.ver = v]
  <1>1. realm[r] \in Thread /\ latest' = latest /\ writer' = writer
    BY Types DEF IndInv, File
  <1>2. x \in Thread /\ x.phase = "idle" /\ x.ver = v /\ x.at = realm[r].at /\ x.forW = realm[r].forW
    BY <1>1 DEF Thread
  <1>3. realm' = [realm EXCEPT ![r] = x]
    OBVIOUS
  <1> HIDE DEF x
  <1>4. realm'[r] = x
    BY <1>3, Types DEF IndInv
  <1>5. RealmFits(r)'
    BY <1>1, <1>2, <1>4 DEF IndInv, RealmsFit, RealmFits
  <1>6. QED
    BY <1>2, <1>3, <1>5, DeliveryStep

LEMMA InvalidateStep == ASSUME NEW r \in Realms, IndInv, Invalidate(r) PROVE IndInv'
  <1> DEFINE x(n) == [nt[n] EXCEPT !.plain = FALSE]
  <1>1. \A n \in Ids : x(n) \in Note /\ x(n).where = nt[n].where /\ x(n).ver = nt[n].ver
    <2>1. ASSUME NEW b \in BOOLEAN, NEW n \in Ids
          PROVE  LET z == [nt[n] EXCEPT !.plain = b] IN z \in Note /\ z.where = nt[n].where /\ z.ver = nt[n].ver
      BY Types DEF IndInv, Note
    <2>2. FALSE \in BOOLEAN
      OBVIOUS
    <2>3. QED
      BY <2>1, <2>2
  <1>2. nt' = [n \in Ids |-> IF nt[n].owner = r THEN x(n) ELSE nt[n]]
    BY DEF Invalidate
  <1> HIDE DEF x
  <1>3. nt' \in [Ids -> Note] /\ \A n \in Ids : nt'[n].where = nt[n].where /\ nt'[n].ver = nt[n].ver
    BY <1>1, <1>2, Types DEF IndInv
  <1>4. 0 \in 0..MaxVersion /\ 0 <= latest
    BY DEF IndInv, TypeOK, Versions
  <1>5. realm' = [realm EXCEPT ![r].ver = 0] /\ realm[r].phase = "idle" /\ UNCHANGED <<File, Coordinator>>
    BY DEF Invalidate, Idle
  <1>6. QED
    BY <1>3, <1>4, <1>5, ReadStep

LEMMA ReadGroupStep == ASSUME NEW r \in Realms, IndInv, ReadGroup(r) PROVE IndInv'
  <1>1. latest \in 0..MaxVersion /\ latest <= latest /\ nt \in [Ids -> Note]
    BY Types DEF IndInv, TypeOK, Versions
  <1>2. QED
    BY <1>1, ReadStep DEF ReadGroup, Idle

LEMMA StutterStep == ASSUME IndInv, UNCHANGED vars PROVE IndInv'
  BY DEF vars, IndInv, TypeOK, Held, VersionsExist, PassHolds, InPass, PinHolds, SkipIsAhead, RealmsFit, RealmFits

LEMMA NextInv == IndInv /\ [Next]_vars => IndInv'
  BY AddCallbackStep, RemoveCallbackStep, UnregisterStep, SuppressNextStep, RegisterStep, CancelWriteStep,
     ExternalCommitStep, BeginWriteStep, CommitWriteStep, WorkerBeginStep, WorkerSkipRunStep,
     WorkerSkipHandStep, WorkerRunStep, WorkerHandStep, WorkerSignalStep, RefreshStep, PackageAndWaitStep,
     NotifyStep, AdvanceStep, AfterAdvanceStep, DeliveryEndsStep, InvalidateStep, ReadGroupStep, StutterStep
     DEF Next, Work, Deliver

-----------------------------------------------------------------------------
(* Told exactly: the invariant                                              *)

\* Of the versions D, those after a and up to b.
Since(D, a, b) == {v \in D : a < v /\ v <= b}

\* A package is being delivered: its notifiers and its version are fixed.
Delivers(r, n) == n \in realm[r].list /\ realm[r].phase \in {"advance", "after"}

\* Lists hold notifiers of their Realm only, all of them while it waits, and one that
\* is delivered has run, unless it was forgotten.
ListFits(r) ==
    /\ realm[r].phase = "idle" => realm[r].list = {}
    /\ \A n \in realm[r].list : nt[n].owner \in {r, "none"} /\ nt[n].where # "none"
    /\ \A n \in Ids : /\ realm[r].phase = "wait" /\ nt[n].owner = r => n \in realm[r].list
                      /\ Delivers(r, n) /\ (Alive(n) \/ nt[n].cb) => nt[n].ran
    /\ \A s \in Realms \ {r} : realm[r].list \cap realm[s].list = {}

\* A notifier that has not run knows nothing, and only callbacks that are no longer
\* plain skip.
NoteFits(x) ==
    /\ x.owner # "none" => x.where \in {"new", "main"}
    /\ x.where = "new" => ~x.ran
    /\ ~x.ran => x.bg /\ x.calc = {} /\ ~x.told
    /\ x.skip => x.cb /\ ~x.plain

\* All notifiers that have run are at one version, none ahead of the worker.
WorkerFits ==
    /\ \A n \in Main(nt) : nt[n].ran => nt[n].ver <= nsg
    /\ \A n, m \in Main(nt) : nt[n].ran /\ nt[m].ran => nt[n].ver = nt[m].ver
    /\ InPass => /\ Main(nt) = worker.old \cup worker.new /\ worker.old \cap worker.new = {}
                 /\ \A n \in worker.new : ~nt[n].ran
                 /\ nsg <= worker.to
                 /\ worker.pc = "skipHand" => nsg = worker.skip
                 /\ worker.pc = "hand" => nsg = worker.to

\* n has run in this pass, and was not handed over yet.
HasRun(n) == \/ worker.pc = "skipHand" /\ n \in worker.old
             \/ worker.pc = "hand" /\ n \in worker.old \cup worker.new

\* The rows a notifier remembers are those of the version v it ran at last, and what it
\* computed is what happened since the version it was handed over at.
RunFits(x, has, v, D) ==
    x.owner # "none" =>
      /\ ~x.ran /\ has => x.prev = v
      /\ x.ran /\ x.cb /\ x.plain =>
           LET u == IF has THEN v ELSE x.ver IN
           x.prev <= u /\ Since(D, x.prev, u) = {} /\ x.calc = Since(D, x.ver, u)

\* In a package of Realm q: what is to be told is what happened since the last call,
\* and what was added meanwhile is what happened since the package.
FlightFits(x, q, D) ==
    x.cb /\ x.plain =>
      /\ x.told => x.last <= q.at /\ x.out = Since(D, x.last, q.at)
      /\ x.owner # "none" => /\ q.at <= x.ver /\ x.acc = Since(D, q.at, x.ver)
                             /\ q.phase = "after" => q.ver = q.at

\* In no package: what was accumulated is what happened since the last call.  A Realm
\* is ahead of its notifiers by a write of its own at most, begun with nothing left
\* to tell, and does not move without them.
SettledFits(x, q, D, writing) ==
    x.cb /\ x.plain /\ x.told =>
      /\ x.last <= x.ver /\ x.acc = Since(D, x.last, x.ver)
      /\ x.ver < q.ver => x.ver = q.ver - 1 /\ x.acc = {}
      /\ q.phase # "advance"
      /\ writing /\ q.phase # "wait" => x.acc = {}

\* A write transaction begins with everything told that was committed.
WriteFits(r) ==
    /\ writer = r /\ realm[r].phase # "idle" => realm[r].forW
    /\ realm[r].forW /\ realm[r].phase = "after"
         => writer = r /\ (realm[r].list # {} => realm[r].at = latest)
    /\ \A n \in Ids : nt[n].owner = r /\ nt[n].cb =>
          /\ writer = r /\ realm[r].phase # "wait" => nt[n].ran /\ nt[n].ver = latest
          /\ realm[r].ver = 0 => ~nt[n].plain

RealmExact(r) ==
    /\ ListFits(r) /\ WriteFits(r)
    /\ \A n \in Ids :
         IF Delivers(r, n) THEN FlightFits(nt[n], realm[r], dirty)
         ELSE nt[n].owner = r => SettledFits(nt[n], realm[r], dirty, writer = r)

NoteExact(n) == NoteFits(nt[n]) /\ RunFits(nt[n], HasRun(n), nsg, dirty)

Exact == WorkerFits /\ (\A n \in Ids : NoteExact(n)) /\ (\A r \in Realms : RealmExact(r))

\* Versions of a stretch
LEMMA SinceSame == \A D \in SUBSET Nat, a \in Nat : Since(D, a, a) = {}
  <1>1. ASSUME NEW D \in SUBSET Nat, NEW a \in Nat, NEW v \in Since(D, a, a) PROVE FALSE
    <2>1. v \in Nat /\ a < v /\ v <= a
      BY <1>1 DEF Since
    <2>2. QED
      BY <1>1, <2>1
  <1>2. QED
    BY <1>1

LEMMA SinceJoins ==
  ASSUME NEW D \in SUBSET Nat, NEW a \in Nat, NEW b \in Nat, NEW c \in Nat, a <= b, b <= c
  PROVE  /\ Since(D, a, b) \cup Since(D, b, c) = Since(D, a, c)
         /\ Since(D, a, b) = {} => Since(D, b, c) = Since(D, a, c)
  <1>1. Since(D, a, b) \cup Since(D, b, c) = Since(D, a, c)
    <2>1. \A v \in Nat : (a < v /\ v <= b) \/ (b < v /\ v <= c) <=> a < v /\ v <= c
      OBVIOUS
    <2>2. QED
      BY <2>1 DEF Since
  <1>2. QED
    BY <1>1

LEMMA SinceKept ==
  ASSUME NEW D \in SUBSET Nat, NEW last \in Nat, NEW E, E = D \/ E = D \cup {last + 1}
  PROVE  \A a, b \in Nat : b <= last => Since(E, a, b) = Since(D, a, b)
  BY DEF Since

LEMMA BetweenIs == \A a, b : Between(a, b) = Since(dirty, a, b)
  BY DEF Between, Since

\* What the invariant and the types say of one notifier and one Realm
LEMMA Values ==
  ASSUME TypeOK
  PROVE  /\ latest \in Nat /\ nsg \in Nat /\ dirty \in SUBSET Nat /\ MaxVersion \in Nat
         /\ \A n \in Ids : /\ nt[n] \in Note /\ nt[n].ver \in Nat /\ nt[n].prev \in Nat /\ nt[n].last \in Nat
                           /\ nt[n].cb \in BOOLEAN /\ nt[n].told \in BOOLEAN /\ nt[n].ran \in BOOLEAN
                           /\ nt[n].plain \in BOOLEAN
         /\ \A r \in Realms : /\ realm[r] \in Thread /\ realm[r].ver \in Nat /\ realm[r].at \in Nat
                              /\ realm[r].list \subseteq Ids
  BY Types DEF TypeOK, Versions, Note, Thread

\* One notifier changes.
LEMMA OneNote ==
  ASSUME IndInv, Exact, NEW n \in Ids, nt' \in [Ids -> Note], \A m \in Ids \ {n} : nt'[m] = nt[m],
         UNCHANGED <<File, realm, nsg, worker>>,
         nt'[n].where = nt[n].where, nt'[n].ver = nt[n].ver, nt'[n].ran = nt[n].ran,
         NoteFits(nt'[n]), RunFits(nt'[n], HasRun(n), nsg, dirty),
         nt'[n].owner \in {nt[n].owner, "none"},
         nt'[n].cb => \/ nt[n].cb /\ (nt'[n].plain => nt[n].plain)
                      \/ \A r \in Realms : /\ nt[n].owner = r => writer # r /\ (realm[r].ver = 0 => ~nt'[n].plain)
                                           /\ n \notin realm[r].list,
         \A r \in Realms : IF Delivers(r, n) THEN FlightFits(nt'[n], realm[r], dirty)
                           ELSE nt'[n].owner = r => SettledFits(nt'[n], realm[r], dirty, writer = r)
  PROVE  Exact'
  <1>1. Main(nt') = Main(nt) /\ Main(nt) \subseteq Ids /\ \A m \in Ids : nt'[m].ver = nt[m].ver /\ nt'[m].ran = nt[m].ran
    BY DEF Main
  <1>2. WorkerFits'
    BY <1>1 DEF Exact, WorkerFits, InPass
  <1>3. \A m \in Ids : NoteExact(m)'
    BY DEF Exact, NoteExact, HasRun, File
  <1>4. ASSUME NEW r \in Realms PROVE RealmExact(r)'
    <2>1. ListFits(r) /\ WriteFits(r) /\ RealmExact(r)
      BY DEF Exact, RealmExact
    <2>2. ListFits(r)'
      <3>1. \A m \in realm[r].list : m \in Ids
        BY Values DEF IndInv
      <3>2. /\ realm[r].phase = "idle" => realm[r].list = {}
            /\ \A s \in Realms \ {r} : realm[r].list \cap realm[s].list = {}
        BY <2>1 DEF ListFits
      <3>3. \A m \in realm[r].list : nt'[m].owner \in {r, "none"} /\ nt'[m].where # "none"
        BY <2>1, <3>1 DEF ListFits
      <3>4. ASSUME NEW m \in Ids
            PROVE  /\ realm[r].phase = "wait" /\ nt'[m].owner = r => m \in realm[r].list
                   /\ Delivers(r, m) /\ (nt'[m].owner # "none" \/ nt'[m].cb) => nt'[m].ran
        BY <2>1 DEF ListFits, Delivers, Alive
      <3>5. QED
        BY <3>2, <3>3, <3>4 DEF ListFits, Delivers, Alive
    <2>3. WriteFits(r)'
      BY <2>1, <1>1 DEF WriteFits, File
    <2>4. ASSUME NEW m \in Ids
          PROVE  (IF Delivers(r, m) THEN FlightFits(nt[m], realm[r], dirty)
                  ELSE nt[m].owner = r => SettledFits(nt[m], realm[r], dirty, writer = r))'
      BY <2>1 DEF RealmExact, Delivers, File
    <2>5. QED
      BY <2>2, <2>3, <2>4 DEF RealmExact
  <1>5. QED
    BY <1>2, <1>3, <1>4 DEF Exact

LEMMA AddCallbackExact == ASSUME NEW r \in Realms, NEW n \in Ids, IndInv, Exact, AddCallback(r, n) PROVE Exact'
  <1> DEFINE b == ~nt[n].ran /\ realm[r].ver # 0
             y == [[nt[n] EXCEPT !.cb = TRUE] EXCEPT !.plain = b]
  <1>1. nt[n] \in Note /\ nt \in [Ids -> Note] /\ b \in BOOLEAN
    BY Types DEF IndInv
  <1>2. nt' = [nt EXCEPT ![n].cb = TRUE, ![n].plain = b] /\ ~nt[n].cb /\ nt[n].owner = r
        /\ realm[r].phase = "idle" /\ writer # r /\ UNCHANGED <<File, realm, nsg, worker>>
    BY DEF AddCallback, Idle, Coordinator
  <1>3. nt' = [nt EXCEPT ![n] = y]
    BY <1>1, <1>2
  <1>4. /\ y \in Note /\ y.cb /\ y.plain = b
        /\ y.owner = nt[n].owner /\ y.where = nt[n].where /\ y.ver = nt[n].ver /\ y.ran = nt[n].ran
        /\ y.prev = nt[n].prev /\ y.calc = nt[n].calc /\ y.bg = nt[n].bg /\ y.told = nt[n].told /\ y.skip = nt[n].skip
    BY <1>1 DEF Note
  <1> HIDE DEF y
  <1>5. nt' \in [Ids -> Note] /\ nt'[n] = y /\ \A m \in Ids \ {n} : nt'[m] = nt[m]
    BY <1>1, <1>3, <1>4
  <1>6. NoteFits(nt[n]) /\ RunFits(nt[n], HasRun(n), nsg, dirty) /\ \A s \in Realms : ListFits(s)
    BY DEF Exact, NoteExact, RealmExact
  <1>7. ~nt[n].ran => ~nt[n].told
    BY <1>6 DEF NoteFits
  <1>8. NoteFits(y) /\ RunFits(y, HasRun(n), nsg, dirty)
    BY <1>1, <1>2, <1>4, <1>6 DEF NoteFits, RunFits
  <1>9. \A s \in Realms : n \notin realm[s].list
    BY <1>2, <1>6 DEF ListFits
  <1>10. \A s \in Realms : ~Delivers(s, n) /\ SettledFits(y, realm[s], dirty, writer = s)
    BY <1>4, <1>7, <1>9 DEF Delivers, SettledFits
  <1>11. UNCHANGED <<File, realm, nsg, worker>>
    BY <1>2
  <1>12. /\ nt'[n].where = nt[n].where /\ nt'[n].ver = nt[n].ver /\ nt'[n].ran = nt[n].ran
         /\ NoteFits(nt'[n]) /\ RunFits(nt'[n], HasRun(n), nsg, dirty) /\ nt'[n].owner = nt[n].owner
    BY <1>4, <1>5, <1>8
  <1>13. \A s \in Realms : nt[n].owner = s => writer # s /\ (realm[s].ver = 0 => ~nt'[n].plain)
    BY <1>2, <1>4, <1>5
  <1>14. \A s \in Realms : ~Delivers(s, n) /\ SettledFits(nt'[n], realm[s], dirty, writer = s)
    BY <1>5, <1>10
  <1>15. QED
    BY <1>5, <1>9, <1>11, <1>12, <1>13, <1>14, OneNote

\* What everybody keeps of one notifier
LEMMA OfNote ==
  ASSUME IndInv, Exact, NEW n \in Ids
  PROVE  /\ nt[n] \in Note /\ nt \in [Ids -> Note] /\ realm \in [Realms -> Thread]
         /\ NoteFits(nt[n]) /\ RunFits(nt[n], HasRun(n), nsg, dirty)
         /\ \A r \in Realms : /\ ListFits(r) /\ WriteFits(r)
                              /\ Delivers(r, n) => FlightFits(nt[n], realm[r], dirty)
                              /\ ~Delivers(r, n) /\ nt[n].owner = r
                                   => SettledFits(nt[n], realm[r], dirty, writer = r)
  BY Types DEF IndInv, Exact, NoteExact, RealmExact

LEMMA RemoveCallbackExact == ASSUME NEW n \in Ids, IndInv, Exact, RemoveCallback(n) PROVE Exact'
  <1> DEFINE y == WithoutCallback(nt[n])
  <1>1. nt[n] \in Note /\ nt \in [Ids -> Note] /\ NoteFits(nt[n]) /\ RunFits(nt[n], HasRun(n), nsg, dirty)
    BY OfNote
  <1>2. nt' = [nt EXCEPT ![n] = y] /\ nt[n].cb /\ UNCHANGED <<File, realm, nsg, worker>>
    BY DEF RemoveCallback, Coordinator
  <1>3. /\ y \in Note /\ ~y.cb /\ ~y.skip /\ ~y.told
        /\ y.owner = nt[n].owner /\ y.where = nt[n].where /\ y.ver = nt[n].ver /\ y.ran = nt[n].ran
        /\ y.prev = nt[n].prev /\ y.calc = nt[n].calc /\ y.bg = nt[n].bg
    <2>1. y \in Note
      BY <1>1, WithoutCallbackTyped
    <2>2. ~y.cb /\ ~y.skip /\ ~y.told
      BY <1>1 DEF Note, WithoutCallback
    <2>3. /\ y.owner = nt[n].owner /\ y.where = nt[n].where /\ y.ver = nt[n].ver /\ y.ran = nt[n].ran
          /\ y.prev = nt[n].prev /\ y.calc = nt[n].calc /\ y.bg = nt[n].bg
      BY <1>1 DEF Note, WithoutCallback
    <2>4. QED
      BY <2>1, <2>2, <2>3
  <1> HIDE DEF y
  <1>4. nt' \in [Ids -> Note] /\ nt'[n] = y /\ \A m \in Ids \ {n} : nt'[m] = nt[m]
    BY <1>1, <1>2, <1>3
  <1>5. NoteFits(y) /\ RunFits(y, HasRun(n), nsg, dirty)
    BY <1>1, <1>3 DEF NoteFits, RunFits
  <1>6. \A s \in Realms : FlightFits(y, realm[s], dirty) /\ SettledFits(y, realm[s], dirty, writer = s)
    BY <1>3 DEF FlightFits, SettledFits
  <1>7. QED
    BY <1>2, <1>3, <1>4, <1>5, <1>6, OneNote

LEMMA UnregisterExact == ASSUME NEW n \in Ids, IndInv, Exact, Unregister(n) PROVE Exact'
  <1> DEFINE y == [nt[n] EXCEPT !.owner = "none"]
  <1>1. nt[n] \in Note /\ nt \in [Ids -> Note] /\ NoteFits(nt[n])
        /\ \A r \in Realms : Delivers(r, n) => FlightFits(nt[n], realm[r], dirty)
    BY OfNote
  <1>2. nt' = [nt EXCEPT ![n] = y] /\ UNCHANGED <<File, realm, nsg, worker>> /\ "none" \notin Realms
    BY DEF Unregister, Coordinator
  <1>3. /\ y \in Note /\ y.owner = "none"
        /\ y.cb = nt[n].cb /\ y.skip = nt[n].skip /\ y.told = nt[n].told /\ y.plain = nt[n].plain
        /\ y.where = nt[n].where /\ y.ver = nt[n].ver /\ y.ran = nt[n].ran /\ y.last = nt[n].last
        /\ y.out = nt[n].out /\ y.calc = nt[n].calc /\ y.bg = nt[n].bg
    BY <1>1 DEF Note
  <1> HIDE DEF y
  <1>4. nt' \in [Ids -> Note] /\ nt'[n] = y /\ \A m \in Ids \ {n} : nt'[m] = nt[m]
    BY <1>1, <1>2, <1>3
  <1>5. NoteFits(y) /\ RunFits(y, HasRun(n), nsg, dirty)
    BY <1>1, <1>3 DEF NoteFits, RunFits
  <1>6. \A s \in Realms : y.owner # s /\ (Delivers(s, n) => FlightFits(y, realm[s], dirty))
    BY <1>1, <1>2, <1>3 DEF FlightFits
  <1>7. QED
    BY <1>2, <1>3, <1>4, <1>5, <1>6, OneNote

LEMMA SuppressNextExact == ASSUME NEW r \in Realms, NEW n \in Ids, IndInv, Exact, SuppressNext(r, n) PROVE Exact'
  <1> DEFINE y == [[nt[n] EXCEPT !.skip = TRUE] EXCEPT !.plain = FALSE]
  <1>1. nt[n] \in Note /\ nt \in [Ids -> Note] /\ NoteFits(nt[n]) /\ RunFits(nt[n], HasRun(n), nsg, dirty)
    BY OfNote
  <1>2. nt' = [nt EXCEPT ![n].skip = TRUE, ![n].plain = FALSE] /\ nt[n].cb /\ UNCHANGED <<File, realm, nsg, worker>>
    BY DEF SuppressNext, Coordinator
  <1>3. nt' = [nt EXCEPT ![n] = y]
    BY <1>1, <1>2
  <1>4. /\ y \in Note /\ y.cb = nt[n].cb /\ ~y.plain /\ y.told = nt[n].told
        /\ y.owner = nt[n].owner /\ y.where = nt[n].where /\ y.ver = nt[n].ver /\ y.ran = nt[n].ran
        /\ y.prev = nt[n].prev /\ y.calc = nt[n].calc /\ y.bg = nt[n].bg
    BY <1>1 DEF Note
  <1> HIDE DEF y
  <1>5. nt' \in [Ids -> Note] /\ nt'[n] = y /\ \A m \in Ids \ {n} : nt'[m] = nt[m]
    BY <1>1, <1>3, <1>4
  <1>6. NoteFits(y) /\ RunFits(y, HasRun(n), nsg, dirty)
    BY <1>1, <1>2, <1>4 DEF NoteFits, RunFits
  <1>7. \A s \in Realms : FlightFits(y, realm[s], dirty) /\ SettledFits(y, realm[s], dirty, writer = s)
    BY <1>4 DEF FlightFits, SettledFits
  <1>8. QED
    BY <1>2, <1>4, <1>5, <1>6, <1>7, OneNote

LEMMA RegisterExact == ASSUME NEW r \in Realms, NEW n \in Ids, IndInv, Exact, Register(r, n) PROVE Exact'
  <1> DEFINE v == realm[r].ver
             y == [NoNotifier EXCEPT !.owner = r, !.where = "new", !.ver = v]
  <1>1. /\ nt' = [nt EXCEPT ![n] = y] /\ nt[n].where = "none" /\ realm[r].phase = "idle" /\ writer # r
        /\ UNCHANGED <<File, realm, nsg, worker>> /\ nt \in [Ids -> Note]
    BY OfNote DEF Register, Idle
  <1>2. /\ y.owner = r /\ y.where = "new" /\ ~y.cb /\ ~y.skip /\ ~y.told /\ ~y.ran /\ y.bg /\ y.calc = {}
    BY DEF NoNotifier
  <1> HIDE DEF y
  <1>3. nt'[n] = y /\ \A m \in Ids \ {n} : nt'[m] = nt[m]
    BY <1>1
  <1>4. Main(nt') = Main(nt) /\ n \notin Main(nt) /\ Main(nt) \subseteq Ids
    BY <1>1, <1>2, <1>3 DEF Main
  <1>5. WorkerFits'
    <2>1. WorkerFits /\ \A m \in Main(nt) : m \in Ids /\ nt'[m] = nt[m]
      BY <1>3, <1>4 DEF Exact
    <2>2. InPass => worker.new \subseteq Main(nt)
      BY <2>1 DEF WorkerFits
    <2>3. /\ \A m \in Main(nt) : nt'[m].ran => nt'[m].ver <= nsg
          /\ \A m, q \in Main(nt) : nt'[m].ran /\ nt'[q].ran => nt'[m].ver = nt'[q].ver
      BY <2>1 DEF WorkerFits
    <2>4. InPass => \A m \in worker.new : ~nt'[m].ran
      BY <2>1, <2>2 DEF WorkerFits
    <2>5. QED
      <3>1. nsg' = nsg /\ worker' = worker
        BY <1>1
      <3>2. QED
        BY <1>4, <2>1, <2>3, <2>4, <3>1 DEF WorkerFits, InPass
  <1>6. ~HasRun(n)
    BY <1>4 DEF Exact, WorkerFits, InPass, HasRun
  <1>7. \A m \in Ids : NoteExact(m)'
    <2>1. NoteFits(y) /\ RunFits(y, HasRun(n), nsg, dirty)
      BY <1>2, <1>6 DEF NoteFits, RunFits
    <2>2. QED
      BY <1>1, <1>3, <2>1 DEF Exact, NoteExact, HasRun, File
  <1>8. nt[n].owner = "none"
    BY <1>1, OfNote DEF NoteFits
  <1>9. \A s \in Realms : n \notin realm[s].list
    BY <1>1, OfNote DEF ListFits
  <1>10. ASSUME NEW s \in Realms PROVE RealmExact(s)'
    <2>1. ListFits(s) /\ WriteFits(s) /\ RealmExact(s) /\ realm[s].list \subseteq Ids
      BY Values DEF IndInv, Exact, RealmExact
    <2>2. ListFits(s)'
      <3>1. /\ realm[s].phase = "idle" => realm[s].list = {}
            /\ \A q \in Realms \ {s} : realm[s].list \cap realm[q].list = {}
        BY <2>1 DEF ListFits
      <3>2. \A m \in realm[s].list : nt'[m].owner \in {s, "none"} /\ nt'[m].where # "none"
        BY <2>1, <1>3, <1>9 DEF ListFits
      <3>3. ASSUME NEW m \in Ids
            PROVE  /\ realm[s].phase = "wait" /\ nt'[m].owner = s => m \in realm[s].list
                   /\ Delivers(s, m) /\ (nt'[m].owner # "none" \/ nt'[m].cb) => nt'[m].ran
        BY <2>1, <1>1, <1>2, <1>3, <1>9 DEF ListFits, Delivers, Alive
      <3>4. QED
        BY <1>1, <3>1, <3>2, <3>3 DEF ListFits, Delivers, Alive
    <2>3. WriteFits(s)'
      BY <2>1, <1>1, <1>2, <1>3 DEF WriteFits, File
    <2>4. SettledFits(y, realm[s], dirty, writer = s) /\ ~Delivers(s, n)
      BY <1>2, <1>9 DEF SettledFits, Delivers
    <2>5. ASSUME NEW m \in Ids
          PROVE  (IF Delivers(s, m) THEN FlightFits(nt[m], realm[s], dirty)
                  ELSE nt[m].owner = s => SettledFits(nt[m], realm[s], dirty, writer = s))'
      BY <2>1, <2>4, <1>1, <1>3 DEF RealmExact, Delivers, File
    <2>6. QED
      BY <2>2, <2>3, <2>5 DEF RealmExact
  <1>11. QED
    BY <1>5, <1>7, <1>10 DEF Exact

-----------------------------------------------------------------------------
(* Told exactly: steps of a Realm                                           *)

\* A commit adds a version behind all there are.
DirtyKept == \A a, b \in Nat : b <= latest => Since(dirty', a, b) = Since(dirty, a, b)

LEMMA DirtySame == dirty' = dirty => DirtyKept
  BY DEF DirtyKept

\* What the worker knows of a notifier that is only packaged, told or no longer plain
LEMMA NotesKept ==
  ASSUME IndInv, Exact, DirtyKept, UNCHANGED <<nsg, worker>>,
         \A n \in Ids : /\ nt'[n].where = nt[n].where /\ nt'[n].owner = nt[n].owner /\ nt'[n].ran = nt[n].ran
                        /\ nt'[n].ver = nt[n].ver /\ nt'[n].prev = nt[n].prev /\ nt'[n].calc = nt[n].calc
                        /\ nt'[n].cb = nt[n].cb /\ (nt'[n].plain => nt[n].plain) /\ NoteFits(nt'[n])
  PROVE  WorkerFits' /\ \A n \in Ids : NoteExact(n)'
  <1>1. Main(nt') = Main(nt) /\ Main(nt) \subseteq Ids
    BY DEF Main
  <1>2. WorkerFits'
    <2>1. WorkerFits /\ \A m \in Main(nt) : nt'[m].ver = nt[m].ver /\ nt'[m].ran = nt[m].ran
      BY <1>1 DEF Exact
    <2>2. InPass => worker.new \subseteq Main(nt)
      BY <2>1 DEF WorkerFits
    <2>3. /\ \A m \in Main(nt) : nt'[m].ran => nt'[m].ver <= nsg
          /\ \A m, q \in Main(nt) : nt'[m].ran /\ nt'[q].ran => nt'[m].ver = nt'[q].ver
      BY <2>1 DEF WorkerFits
    <2>4. InPass => \A m \in worker.new : ~nt'[m].ran
      BY <2>1, <2>2 DEF WorkerFits
    <2>5. QED
      BY <1>1, <2>1, <2>3, <2>4 DEF WorkerFits, InPass
  <1>3. ASSUME NEW n \in Ids PROVE NoteExact(n)'
    <2>1. RunFits(nt[n], HasRun(n), nsg, dirty)
      BY OfNote
    <2>2. nsg \in Nat /\ nt[n].ver \in Nat /\ nt[n].prev \in Nat /\ nsg <= latest /\ nt[n].ver <= latest
      BY Values DEF IndInv, Held, VersionsExist
    <2>3. /\ Since(dirty', nt[n].prev, nsg) = Since(dirty, nt[n].prev, nsg)
          /\ Since(dirty', nt[n].ver, nsg) = Since(dirty, nt[n].ver, nsg)
          /\ Since(dirty', nt[n].prev, nt[n].ver) = Since(dirty, nt[n].prev, nt[n].ver)
          /\ Since(dirty', nt[n].ver, nt[n].ver) = Since(dirty, nt[n].ver, nt[n].ver)
      BY <2>2 DEF DirtyKept
    <2>4. RunFits(nt'[n], HasRun(n), nsg, dirty')
      BY <2>1, <2>3 DEF RunFits
    <2>5. QED
      BY <2>4 DEF NoteExact, HasRun
  <1>4. QED
    BY <1>2, <1>3

\* What a step of another Realm, of its notifiers or of another process leaves
LEMMA OtherRealm ==
  ASSUME IndInv, Exact, DirtyKept, NEW s \in Realms, realm'[s] = realm[s],
         latest' = latest \/ writer # s, writer' = s <=> writer = s,
         \A q \in Realms \ {s} : realm[s].list \cap realm'[q].list = {},
         \A n \in Ids : nt'[n] = nt[n] \/ (nt[n].owner # s /\ nt'[n].owner # s /\ n \notin realm[s].list)
  PROVE  RealmExact(s)'
  <1>1. ListFits(s) /\ WriteFits(s) /\ RealmExact(s) /\ realm[s].list \subseteq Ids
    BY Values DEF IndInv, Exact, RealmExact
  <1>2. ListFits(s)'
    <2>1. realm[s].phase = "idle" => realm[s].list = {}
      BY <1>1 DEF ListFits
    <2>2. \A m \in realm[s].list : nt'[m].owner \in {s, "none"} /\ nt'[m].where # "none"
      BY <1>1 DEF ListFits
    <2>3. ASSUME NEW m \in Ids
          PROVE  /\ realm[s].phase = "wait" /\ nt'[m].owner = s => m \in realm[s].list
                 /\ Delivers(s, m) /\ (nt'[m].owner # "none" \/ nt'[m].cb) => nt'[m].ran
      BY <1>1 DEF ListFits, Delivers, Alive
    <2>4. QED
      BY <2>1, <2>2, <2>3 DEF ListFits, Delivers, Alive
  <1>3. WriteFits(s)'
    BY <1>1 DEF WriteFits
  <1>4. ASSUME NEW m \in Ids
        PROVE  (IF Delivers(s, m) THEN FlightFits(nt[m], realm[s], dirty)
                ELSE nt[m].owner = s => SettledFits(nt[m], realm[s], dirty, writer = s))'
    <2>1. /\ realm[s].at \in Nat /\ nt[m].ver \in Nat /\ nt[m].last \in Nat
          /\ realm[s].at <= latest /\ nt[m].ver <= latest
      BY Values DEF IndInv, Held, VersionsExist, RealmsFit, RealmFits
    <2>2. /\ Since(dirty', nt[m].last, realm[s].at) = Since(dirty, nt[m].last, realm[s].at)
          /\ Since(dirty', realm[s].at, nt[m].ver) = Since(dirty, realm[s].at, nt[m].ver)
          /\ Since(dirty', nt[m].last, nt[m].ver) = Since(dirty, nt[m].last, nt[m].ver)
      BY <2>1 DEF DirtyKept
    <2>3. CASE Delivers(s, m)
      <3>1. nt'[m] = nt[m] /\ FlightFits(nt[m], realm[s], dirty)
        BY <1>1, <2>3 DEF RealmExact, Delivers
      <3>2. FlightFits(nt'[m], realm'[s], dirty')
        BY <2>2, <3>1 DEF FlightFits
      <3>3. QED
        BY <2>3, <3>2 DEF Delivers
    <2>4. CASE ~Delivers(s, m) /\ nt'[m].owner = s
      <3>1. nt'[m] = nt[m] /\ SettledFits(nt[m], realm[s], dirty, writer = s)
        BY <1>1, <2>4 DEF RealmExact
      <3>2. SettledFits(nt'[m], realm'[s], dirty', writer' = s)
        BY <2>2, <3>1 DEF SettledFits
      <3>3. QED
        BY <2>4, <3>2 DEF Delivers
    <2>5. QED
      BY <2>3, <2>4 DEF Delivers
  <1>5. QED
    BY <1>2, <1>3, <1>4 DEF RealmExact

LEMMA ExternalCommitExact == ASSUME NEW touch \in BOOLEAN, IndInv, Exact, ExternalCommit(touch) PROVE Exact'
  <1>1. UNCHANGED <<nt, realm, nsg, worker, writer>> /\ writer \notin Realms /\ (dirty' = dirty \/ dirty' = dirty \cup {latest + 1})
    BY DEF ExternalCommit, Coordinator
  <1>2. DirtyKept
    BY <1>1, SinceKept, Values DEF IndInv, DirtyKept
  <1>3. WorkerFits' /\ \A n \in Ids : NoteExact(n)'
    BY <1>1, <1>2, NotesKept, OfNote
  <1>4. ASSUME NEW s \in Realms PROVE RealmExact(s)'
    <2>1. \A q \in Realms \ {s} : realm[s].list \cap realm[q].list = {}
      BY DEF Exact, RealmExact, ListFits
    <2>2. QED
      BY <1>1, <1>2, <2>1, OtherRealm
  <1>5. QED
    BY <1>3, <1>4 DEF Exact

\* A step of Realm r: what is left to show is what it leaves of r.
LEMMA RealmStep ==
  ASSUME IndInv, Exact, NEW r \in Realms, DirtyKept, UNCHANGED <<nsg, worker>>,
         \A s \in Realms \ {r} : /\ realm'[s] = realm[s] /\ (writer' = s <=> writer = s)
                                 /\ latest' = latest \/ writer # s,
         \A n \in Ids : /\ nt'[n].where = nt[n].where /\ nt'[n].owner = nt[n].owner /\ nt'[n].ran = nt[n].ran
                        /\ nt'[n].ver = nt[n].ver /\ nt'[n].prev = nt[n].prev /\ nt'[n].calc = nt[n].calc
                        /\ nt'[n].cb = nt[n].cb /\ (nt'[n].plain => nt[n].plain) /\ NoteFits(nt'[n]),
         \A n \in Ids : nt'[n] = nt[n] \/ nt[n].owner = r \/ n \in realm[r].list,
         RealmExact(r)'
  PROVE  Exact'
  <1>1. WorkerFits' /\ \A n \in Ids : NoteExact(n)'
    BY NotesKept
  <1>2. \A q \in Realms \ {r} : realm'[r].list \cap realm'[q].list = {}
    BY DEF RealmExact, ListFits
  <1>3. ASSUME NEW s \in Realms \ {r} PROVE RealmExact(s)'
    <2>1. \A q \in Realms \ {s} : realm[s].list \cap realm'[q].list = {}
      <3>1. realm[s].list \cap realm'[r].list = {}
        BY <1>2
      <3>2. ListFits(s)
        BY DEF Exact, RealmExact
      <3>3. QED
        BY <3>1, <3>2 DEF ListFits
    <2>2. \A n \in Ids : nt'[n] = nt[n] \/ (nt[n].owner # s /\ nt'[n].owner # s /\ n \notin realm[s].list)
      <3>1. \A q \in Realms : ListFits(q)
        BY DEF Exact, RealmExact
      <3>2. \A n \in realm[s].list : nt[n].owner \in {s, "none"} /\ n \notin realm[r].list
        BY <3>1 DEF ListFits
      <3>3. \A n \in realm[r].list : nt[n].owner \in {r, "none"}
        BY <3>1 DEF ListFits
      <3>4. QED
        BY <3>2, <3>3
    <2>3. QED
      BY <2>1, <2>2, OtherRealm
  <1>4. QED
    BY <1>1, <1>3 DEF Exact

\* The fields of Realm r after a step; the other Realms stay.
Becomes(r, v, ph, w, l, a) ==
    /\ realm' \in [Realms -> Thread] /\ \A s \in Realms \ {r} : realm'[s] = realm[s]
    /\ realm'[r].ver = v /\ realm'[r].phase = ph /\ realm'[r].forW = w /\ realm'[r].list = l /\ realm'[r].at = a

LEMMA BecomesField ==
  ASSUME TypeOK, NEW r \in Realms, NEW x \in Thread, realm' = [realm EXCEPT ![r] = x]
  PROVE  Becomes(r, x.ver, x.phase, x.forW, x.list, x.at)
  <1>1. realm \in [Realms -> Thread]
    BY Types
  <1>2. realm' \in [Realms -> Thread] /\ realm'[r] = x /\ \A s \in Realms \ {r} : realm'[s] = realm[s]
    BY <1>1
  <1>3. QED
    BY <1>2 DEF Becomes

LEMMA NtStays ==
  ASSUME IndInv, Exact, nt' = nt
  PROVE  \A n \in Ids : /\ nt'[n].where = nt[n].where /\ nt'[n].owner = nt[n].owner /\ nt'[n].ran = nt[n].ran
                        /\ nt'[n].ver = nt[n].ver /\ nt'[n].prev = nt[n].prev /\ nt'[n].calc = nt[n].calc
                        /\ nt'[n].cb = nt[n].cb /\ (nt'[n].plain => nt[n].plain) /\ NoteFits(nt'[n])
                        /\ nt'[n] = nt[n]
  BY OfNote

LEMMA CancelWriteExact == ASSUME NEW r \in Realms, IndInv, Exact, CancelWrite(r) PROVE Exact'
  <1>1. /\ UNCHANGED <<latest, dirty, realm, nt, nsg, worker>> /\ writer = r /\ writer' = "none"
        /\ realm[r].phase = "idle" /\ "none" \notin Realms
    BY DEF CancelWrite, Writing, Idle, Coordinator
  <1>2. ListFits(r) /\ WriteFits(r) /\ RealmExact(r) /\ ~realm[r].forW
    BY <1>1 DEF Exact, RealmExact, IndInv, RealmsFit, RealmFits
  <1>3. RealmExact(r)'
    <2>1. ListFits(r)'
      BY <1>1, <1>2 DEF ListFits, Delivers, Alive
    <2>2. WriteFits(r)'
      BY <1>1, <1>2 DEF WriteFits
    <2>3. \A n \in Ids : /\ ~Delivers(r, n)
                         /\ nt[n].owner = r => SettledFits(nt[n], realm[r], dirty, writer' = r)
      BY <1>1, <1>2 DEF RealmExact, Delivers, SettledFits
    <2>4. QED
      BY <1>1, <2>1, <2>2, <2>3 DEF RealmExact, Delivers
  <1>4. QED
    BY <1>1, <1>3, DirtySame, NtStays, RealmStep

LEMMA BeginWriteExact == ASSUME NEW r \in Realms, IndInv, Exact, BeginWrite(r) PROVE Exact'
  <1>1. /\ UNCHANGED <<latest, dirty, nt, nsg, worker>> /\ writer = "none" /\ writer' = r
        /\ realm[r].phase = "idle" /\ "none" \notin Realms /\ realm[r] \in Thread /\ ~realm[r].forW
        /\ latest \in 0..MaxVersion /\ latest # 0 /\ Of(r) \in SUBSET Ids
    BY Types DEF BeginWrite, Idle, Coordinator, IndInv, RealmsFit, RealmFits, TypeOK, Versions, Of
  <1>2. ListFits(r) /\ WriteFits(r) /\ RealmExact(r) /\ \A s \in Realms : ListFits(s)
    BY DEF Exact, RealmExact
  <1>3. \A n \in Ids : nt[n].owner = r <=> n \in Of(r)
    BY <1>1, OfNote DEF NoteFits, Of
  <1>4. CASE Of(r) = {}
    <2> DEFINE x == [realm[r] EXCEPT !.ver = latest]
    <2>1. realm' = [realm EXCEPT ![r] = x]
      BY <1>4 DEF BeginWrite
    <2>2. x \in Thread /\ x.ver = latest /\ x.phase = "idle" /\ ~x.forW /\ x.list = {} /\ x.at = realm[r].at
      <3>1. realm[r].list = {}
        BY <1>1, <1>2 DEF ListFits
      <3>2. x \in Thread
        BY <1>1 DEF Thread
      <3>3. x.ver = latest /\ x.phase = "idle" /\ ~x.forW /\ x.list = {} /\ x.at = realm[r].at
        BY <1>1, <3>1 DEF Thread
      <3>4. QED
        BY <3>2, <3>3
    <2> HIDE DEF x
    <2>3. Becomes(r, x.ver, x.phase, x.forW, x.list, x.at)
      BY <2>1, <2>2, BecomesField DEF IndInv
    <2>4. RealmExact(r)'
      BY <1>1, <1>3, <1>4, <2>2, <2>3 DEF RealmExact, ListFits, WriteFits, Delivers, Becomes
    <2>5. QED
      BY <1>1, <2>3, <2>4, DirtySame, NtStays, RealmStep DEF Becomes
  <1>5. CASE Of(r) # {}
    <2> DEFINE v == IF realm[r].ver = 0 THEN latest ELSE realm[r].ver
               x == [realm[r] EXCEPT !.ver = v, !.phase = "wait", !.forW = TRUE, !.target = latest, !.list = Of(r)]
    <2>1. realm' = [realm EXCEPT ![r] = x]
      BY <1>5, Zenon DEF BeginWrite
    <2>2. v \in 0..MaxVersion /\ v # 0 /\ (realm[r].ver # 0 => v = realm[r].ver)
      BY <1>1 DEF Thread
    <2> HIDE DEF v
    <2>3. x \in Thread /\ x.ver = v /\ x.phase = "wait" /\ x.forW /\ x.list = Of(r) /\ x.at = realm[r].at
      <3>1. x \in Thread
        BY <1>1, <2>2, WaitFields, Zenon
      <3>2. QED
        BY <1>1, <3>1 DEF Thread
    <2> HIDE DEF x
    <2>4. Becomes(r, x.ver, x.phase, x.forW, x.list, x.at)
      BY <2>1, <2>3, BecomesField DEF IndInv
    <2>5. ListFits(r)'
      <3>1. \A n \in Of(r) : n \in Ids /\ nt[n].owner = r /\ nt[n].where # "none"
        BY DEF Of
      <3>2. \A s \in Realms \ {r} : Of(r) \cap realm[s].list = {}
        BY <1>1, <1>2, <3>1 DEF ListFits
      <3>3. QED
        BY <1>1, <1>3, <2>3, <2>4, <3>1, <3>2 DEF ListFits, Delivers, Becomes
    <2>6. WriteFits(r)'
      BY <1>1, <1>2, <2>2, <2>3, <2>4 DEF WriteFits, Becomes
    <2>7. ASSUME NEW n \in Ids, nt[n].owner = r PROVE SettledFits(nt[n], realm'[r], dirty, writer' = r)
      <3>1. SettledFits(nt[n], realm[r], dirty, writer = r) /\ (realm[r].ver = 0 => ~(nt[n].cb /\ nt[n].plain))
        BY <1>1, <1>2, <2>7 DEF RealmExact, Delivers, WriteFits
      <3>2. QED
        BY <2>2, <2>3, <2>4, <3>1 DEF SettledFits, Becomes
    <2>8. RealmExact(r)'
      BY <1>1, <2>3, <2>4, <2>5, <2>6, <2>7 DEF RealmExact, Delivers, Becomes
    <2>9. QED
      BY <1>1, <2>4, <2>8, DirtySame, NtStays, RealmStep DEF Becomes
  <1>6. QED
    BY <1>4, <1>5

\* CommitVersion, in a write transaction or in a callback
LEMMA CommitExact ==
  ASSUME NEW r \in Realms, NEW touch \in BOOLEAN, IndInv, Exact, CommitVersion(r, touch),
         \/ realm[r].phase = "idle" /\ writer = r
         \/ realm[r].phase = "after" /\ writer = "none",
         writer' = "none",
         realm' = [realm EXCEPT ![r].ver = latest + 1], UNCHANGED <<nsg, worker>>
  PROVE  Exact'
  <1> DEFINE b(n) == nt[n].plain /\ Idle(r)
             y(n) == [nt[n] EXCEPT !.plain = b(n)]
             x == [realm[r] EXCEPT !.ver = latest + 1]
  <1>1. /\ latest' = latest + 1 /\ latest \in Nat /\ latest + 1 \in 0..MaxVersion /\ "none" \notin Realms
        /\ (dirty' = dirty \/ dirty' = dirty \cup {latest + 1}) /\ realm[r] \in Thread
    BY Types DEF CommitVersion, IndInv, TypeOK, Versions
  <1>2. DirtyKept
    BY <1>1, SinceKept, Values DEF IndInv, DirtyKept
  <1>3. Becomes(r, latest + 1, realm[r].phase, realm[r].forW, realm[r].list, realm[r].at)
    <2>1. realm' = [realm EXCEPT ![r] = x]
      OBVIOUS
    <2>2. /\ x \in Thread /\ x.ver = latest + 1 /\ x.phase = realm[r].phase /\ x.forW = realm[r].forW
          /\ x.list = realm[r].list /\ x.at = realm[r].at
      BY <1>1 DEF Thread
    <2> HIDE DEF x
    <2>3. QED
      BY <2>1, <2>2, BecomesField DEF IndInv
  <1>4. nt' = [n \in Ids |-> IF nt[n].owner = r THEN y(n) ELSE nt[n]]
    BY DEF CommitVersion
  <1>5. \A n \in Ids : b(n) \in BOOLEAN /\ (b(n) => nt[n].plain) /\ (realm[r].phase = "idle" => b(n) = nt[n].plain)
                       /\ (realm[r].phase # "idle" => ~b(n))
    BY Values DEF IndInv, Idle
  <1> HIDE DEF b
  <1>6. ASSUME NEW n \in Ids
        PROVE  /\ y(n).where = nt[n].where /\ y(n).owner = nt[n].owner /\ y(n).ran = nt[n].ran
               /\ y(n).ver = nt[n].ver /\ y(n).prev = nt[n].prev /\ y(n).calc = nt[n].calc
               /\ y(n).cb = nt[n].cb /\ y(n).plain = b(n) /\ y(n).bg = nt[n].bg /\ y(n).skip = nt[n].skip
               /\ y(n).told = nt[n].told /\ y(n).last = nt[n].last /\ y(n).acc = nt[n].acc /\ y(n).out = nt[n].out
    <2>1. nt[n] \in Note
      BY OfNote
    <2>2. QED
      BY <2>1 DEF Note
  <1> HIDE DEF y
  <1>7. \A n \in Ids : nt'[n] = IF nt[n].owner = r THEN y(n) ELSE nt[n]
    BY <1>4
  <1>8. \A n \in Ids : /\ nt'[n].where = nt[n].where /\ nt'[n].owner = nt[n].owner /\ nt'[n].ran = nt[n].ran
                       /\ nt'[n].ver = nt[n].ver /\ nt'[n].prev = nt[n].prev /\ nt'[n].calc = nt[n].calc
                       /\ nt'[n].cb = nt[n].cb /\ nt'[n].bg = nt[n].bg /\ nt'[n].skip = nt[n].skip
                       /\ nt'[n].told = nt[n].told /\ nt'[n].last = nt[n].last /\ nt'[n].acc = nt[n].acc
                       /\ nt'[n].out = nt[n].out /\ (nt'[n].plain => nt[n].plain)
                       /\ nt'[n].plain = IF nt[n].owner = r THEN b(n) ELSE nt[n].plain
    BY <1>5, <1>6, <1>7
  <1>9. \A n \in Ids : NoteFits(nt'[n])
    BY <1>8, OfNote DEF NoteFits
  <1>10. RealmExact(r) /\ ListFits(r) /\ WriteFits(r) /\ RealmFits(r) /\ realm[r].list \subseteq Ids
    BY Values DEF Exact, RealmExact, IndInv, RealmsFit
  <1>11. ListFits(r)'
    <2>1. \A n \in realm[r].list : nt'[n].owner \in {r, "none"} /\ nt'[n].where # "none"
      BY <1>8, <1>10 DEF ListFits
    <2>2. \A s \in Realms \ {r} : realm[r].list \cap realm[s].list = {}
      BY <1>10 DEF ListFits
    <2>3. \A n \in Ids : /\ realm[r].phase = "wait" /\ nt'[n].owner = r => n \in realm[r].list
                         /\ Delivers(r, n) /\ (nt'[n].owner # "none" \/ nt'[n].cb) => nt'[n].ran
      BY <1>8, <1>10 DEF ListFits, Alive
    <2>4. realm[r].phase = "idle" => realm[r].list = {}
      BY <1>10 DEF ListFits
    <2>5. QED
      BY <1>3, <2>1, <2>2, <2>3, <2>4 DEF ListFits, Delivers, Alive, Becomes
  <1>12. WriteFits(r)'
    BY <1>1, <1>3, <1>8, <1>10 DEF WriteFits, Becomes, RealmFits
  <1>13. ASSUME NEW n \in Ids, Delivers(r, n) PROVE FlightFits(nt'[n], realm'[r], dirty')
    <2>1. realm[r].phase = "after"
      BY <1>13 DEF Delivers
    <2>2. n \in realm[r].list /\ nt[n].owner \in {r, "none"} /\ FlightFits(nt[n], realm[r], dirty)
      BY <1>10, <1>13, OfNote DEF ListFits, Delivers
    <2>3. realm[r].at \in Nat /\ nt[n].last \in Nat /\ realm[r].at <= latest
      BY <1>10, Values DEF IndInv, RealmFits
    <2>4. Since(dirty', nt[n].last, realm[r].at) = Since(dirty, nt[n].last, realm[r].at)
      BY <1>2, <2>3 DEF DirtyKept
    <2>5. CASE nt[n].owner = r
      BY <1>5, <1>8, <2>1, <2>5 DEF FlightFits
    <2>6. CASE nt[n].owner = "none"
      BY <1>3, <1>8, <2>2, <2>4, <2>6 DEF FlightFits, Becomes
    <2>7. QED
      BY <2>2, <2>5, <2>6
  <1>14. ASSUME NEW n \in Ids, ~Delivers(r, n), nt[n].owner = r PROVE SettledFits(nt'[n], realm'[r], dirty', writer' = r)
    <2>1. CASE realm[r].phase = "idle" /\ writer = r
      <3>1. SettledFits(nt[n], realm[r], dirty, writer = r) /\ (nt[n].cb => nt[n].ver = latest)
        BY <1>10, <1>14, <2>1 DEF RealmExact, WriteFits
      <3>2. nt[n].ver \in Nat /\ nt[n].last \in Nat
        BY Values DEF IndInv
      <3>3. nt[n].ver <= latest => Since(dirty', nt[n].last, nt[n].ver) = Since(dirty, nt[n].last, nt[n].ver)
        BY <1>2, <3>2 DEF DirtyKept
      <3>4. nt'[n].cb /\ nt'[n].plain /\ nt'[n].told => nt[n].cb /\ nt[n].plain /\ nt[n].told
        BY <1>8
      <3>5. nt[n].cb /\ nt[n].plain /\ nt[n].told => /\ nt[n].last <= nt[n].ver /\ nt[n].acc = {}
                                                     /\ nt[n].acc = Since(dirty', nt[n].last, nt[n].ver)
                                                     /\ nt[n].ver = realm'[r].ver - 1 /\ realm'[r].phase = "idle"
        BY <1>1, <1>3, <2>1, <3>1, <3>2, <3>3 DEF SettledFits, Becomes
      <3>6. QED
        BY <1>8, <3>4, <3>5 DEF SettledFits
    <2>2. CASE realm[r].phase = "after"
      BY <1>5, <1>8, <1>14, <2>2 DEF SettledFits
    <2>3. QED
      BY <2>1, <2>2
  <1>15. RealmExact(r)'
    <2>1. \A n \in Ids : Delivers(r, n)' <=> Delivers(r, n)
      BY <1>3 DEF Delivers, Becomes
    <2>2. \A n \in Ids : nt'[n].owner = nt[n].owner
      BY <1>8
    <2>3. QED
      BY <1>11, <1>12, <1>13, <1>14, <2>1, <2>2 DEF RealmExact
  <1>16. \A s \in Realms \ {r} : realm'[s] = realm[s] /\ writer # s /\ writer' # s
    BY <1>1, <1>3 DEF Becomes
  <1>17. \A n \in Ids : nt'[n] = nt[n] \/ nt[n].owner = r
    BY <1>7
  <1>18. QED
    BY <1>2, <1>8, <1>9, <1>15, <1>16, <1>17, RealmStep

LEMMA CommitWriteExact ==
  ASSUME NEW r \in Realms, NEW touch \in BOOLEAN, IndInv, Exact, CommitWrite(r, touch) \/ WriteWhileSending(r, touch)
  PROVE  Exact'
  <1>1. CASE CommitWrite(r, touch)
    BY <1>1, CommitExact DEF CommitWrite, Writing, Idle
  <1>2. CASE WriteWhileSending(r, touch)
    BY <1>2, CommitExact DEF WriteWhileSending
  <1>3. QED
    BY <1>1, <1>2

LEMMA AdvanceExact == ASSUME NEW r \in Realms, IndInv, Exact, Advance(r) PROVE Exact'
  <1> DEFINE v == IF realm[r].at # 0 /\ ~realm[r].forW THEN realm[r].at ELSE latest
             x == [realm[r] EXCEPT !.phase = "after", !.ver = v]
  <1>1. /\ realm[r] \in Thread /\ realm[r].phase = "advance" /\ latest \in 0..MaxVersion /\ latest # 0
        /\ UNCHANGED <<latest, dirty, writer, nt, nsg, worker>> /\ realm' = [realm EXCEPT ![r] = x]
    BY Types DEF Advance, IndInv, TypeOK, Versions, File, Coordinator
  <1>2. RealmExact(r) /\ ListFits(r) /\ WriteFits(r) /\ RealmFits(r)
    BY DEF Exact, RealmExact, IndInv, RealmsFit
  <1>3. v \in 0..MaxVersion /\ v # 0 /\ (realm[r].list # {} => v = realm[r].at)
    BY <1>1, <1>2 DEF Thread, RealmFits
  <1> HIDE DEF v
  <1>4. /\ x \in Thread /\ x.ver = v /\ x.phase = "after" /\ x.forW = realm[r].forW
        /\ x.list = realm[r].list /\ x.at = realm[r].at
    <2>1. x \in Thread
      BY <1>1, <1>3 DEF Thread
    <2>2. /\ x.ver = v /\ x.phase = "after" /\ x.forW = realm[r].forW
          /\ x.list = realm[r].list /\ x.at = realm[r].at
      BY <1>1 DEF Thread
    <2>3. QED
      BY <2>1, <2>2
  <1> HIDE DEF x
  <1>5. Becomes(r, v, "after", realm[r].forW, realm[r].list, realm[r].at)
    BY <1>1, <1>4, BecomesField DEF IndInv
  <1>6. ListFits(r)'
    BY <1>1, <1>2, <1>5 DEF ListFits, Delivers, Alive, Becomes
  <1>7. WriteFits(r)'
    BY <1>1, <1>2, <1>3, <1>5 DEF WriteFits, RealmFits, Becomes
  <1>8. ASSUME NEW n \in Ids
        PROVE  IF Delivers(r, n) THEN FlightFits(nt[n], realm'[r], dirty)
               ELSE nt[n].owner = r => SettledFits(nt[n], realm'[r], dirty, writer = r)
    <2>1. CASE Delivers(r, n)
      <3>1. FlightFits(nt[n], realm[r], dirty) /\ v = realm[r].at
        BY <1>2, <1>3, <2>1 DEF RealmExact, Delivers
      <3>2. QED
        BY <1>5, <2>1, <3>1 DEF FlightFits, Becomes
    <2>2. CASE ~Delivers(r, n) /\ nt[n].owner = r
      <3>1. SettledFits(nt[n], realm[r], dirty, writer = r)
        BY <1>2, <2>2 DEF RealmExact
      <3>2. QED
        BY <1>1, <2>2, <3>1 DEF SettledFits
    <2>3. QED
      BY <2>1, <2>2
  <1>9. RealmExact(r)'
    BY <1>1, <1>5, <1>6, <1>7, <1>8 DEF RealmExact, Delivers, Becomes
  <1>10. QED
    BY <1>1, <1>5, <1>9, DirtySame, NtStays, RealmStep DEF Becomes

LEMMA DeliveryEndsExact == ASSUME NEW r \in Realms, IndInv, Exact, DeliveryEnds(r) PROVE Exact'
  <1> DEFINE x == [realm[r] EXCEPT !.phase = "idle", !.forW = FALSE, !.at = 0]
  <1>1. /\ realm[r] \in Thread /\ realm[r].phase = "after" /\ realm[r].list = {} /\ 0 \in 0..MaxVersion
        /\ UNCHANGED <<latest, dirty, writer, nt, nsg, worker>> /\ realm' = [realm EXCEPT ![r] = x]
    BY Types DEF DeliveryEnds, IndInv, TypeOK, File, Coordinator
  <1>2. RealmExact(r) /\ ListFits(r) /\ WriteFits(r)
    BY DEF Exact, RealmExact
  <1>3. /\ x \in Thread /\ x.ver = realm[r].ver /\ x.phase = "idle" /\ ~x.forW /\ x.list = {} /\ x.at = 0
    <2>1. ASSUME NEW z \in 0..MaxVersion
          PROVE  LET q == [realm[r] EXCEPT !.phase = "idle", !.forW = FALSE, !.at = z]
                 IN  q \in Thread /\ q.ver = realm[r].ver /\ q.phase = "idle" /\ ~q.forW /\ q.list = {} /\ q.at = z
      BY <1>1 DEF Thread
    <2>2. QED
      BY <1>1, <2>1
  <1> HIDE DEF x
  <1>4. Becomes(r, realm[r].ver, "idle", FALSE, {}, 0)
    <2>1. Becomes(r, x.ver, x.phase, x.forW, x.list, x.at)
      BY <1>1, <1>3, BecomesField DEF IndInv
    <2>2. QED
      BY <1>3, <2>1 DEF Becomes
  <1>5. ListFits(r)'
    BY <1>1, <1>2, <1>4 DEF ListFits, Delivers, Alive, Becomes
  <1>6. WriteFits(r)'
    BY <1>1, <1>2, <1>4 DEF WriteFits, Becomes
  <1>7. ASSUME NEW n \in Ids, nt[n].owner = r PROVE SettledFits(nt[n], realm'[r], dirty, writer = r)
    <2>1. SettledFits(nt[n], realm[r], dirty, writer = r)
      BY <1>1, <1>2, <1>7 DEF RealmExact, Delivers
    <2>2. QED
      BY <1>1, <1>4, <2>1 DEF SettledFits, Becomes
  <1>8. RealmExact(r)'
    BY <1>1, <1>4, <1>5, <1>6, <1>7 DEF RealmExact, Delivers, Becomes
  <1>9. QED
    BY <1>1, <1>4, <1>8, DirtySame, NtStays, RealmStep DEF Becomes

\* The Realm moves without a delivery: nobody is plain there any more.
LEMMA ReadExact ==
  ASSUME NEW r \in Realms, IndInv, Exact, NEW v \in 0..MaxVersion, realm' = [realm EXCEPT ![r].ver = v],
         realm[r].phase = "idle", v = 0 => writer # r, UNCHANGED <<latest, dirty, writer, nsg, worker>>,
         nt' \in [Ids -> Note], \A n \in Ids : nt'[n] = nt[n] \/ nt[n].owner = r,
         \A n \in Ids : /\ nt'[n].where = nt[n].where /\ nt'[n].owner = nt[n].owner /\ nt'[n].ran = nt[n].ran
                        /\ nt'[n].ver = nt[n].ver /\ nt'[n].prev = nt[n].prev /\ nt'[n].calc = nt[n].calc
                        /\ nt'[n].cb = nt[n].cb /\ nt'[n].bg = nt[n].bg /\ nt'[n].skip = nt[n].skip
                        /\ nt'[n].told = nt[n].told /\ (nt'[n].plain => nt[n].plain),
         \A n \in Ids : nt'[n].owner = r /\ nt'[n].cb => ~nt'[n].plain
  PROVE  Exact'
  <1> DEFINE x == [realm[r] EXCEPT !.ver = v]
  <1>1. realm[r] \in Thread /\ realm' = [realm EXCEPT ![r] = x]
    BY Types DEF IndInv
  <1>2. RealmExact(r) /\ ListFits(r) /\ WriteFits(r)
    BY DEF Exact, RealmExact
  <1>3. /\ x \in Thread /\ x.ver = v /\ x.phase = "idle" /\ x.forW = realm[r].forW /\ x.list = {} /\ x.at = realm[r].at
    BY <1>1, <1>2 DEF Thread, ListFits
  <1> HIDE DEF x
  <1>4. Becomes(r, v, "idle", realm[r].forW, {}, realm[r].at)
    <2>1. Becomes(r, x.ver, x.phase, x.forW, x.list, x.at)
      BY <1>1, <1>3, BecomesField DEF IndInv
    <2>2. QED
      BY <1>3, <2>1 DEF Becomes
  <1>5. ListFits(r)'
    BY <1>2, <1>4 DEF ListFits, Delivers, Becomes
  <1>6. WriteFits(r)'
    BY <1>2, <1>4 DEF WriteFits, Becomes
  <1>7. \A n \in Ids : nt'[n].owner = r => SettledFits(nt'[n], realm'[r], dirty', writer' = r)
    BY DEF SettledFits
  <1>8. RealmExact(r)'
    BY <1>4, <1>5, <1>6, <1>7 DEF RealmExact, Delivers, Becomes
  <1>9. \A n \in Ids : NoteFits(nt'[n])
    BY OfNote DEF NoteFits
  <1>10. QED
    BY <1>4, <1>8, <1>9, DirtySame, RealmStep DEF Becomes

LEMMA InvalidateExact == ASSUME NEW r \in Realms, IndInv, Exact, Invalidate(r) PROVE Exact'
  <1> DEFINE y(n) == [nt[n] EXCEPT !.plain = FALSE]
  <1>1. nt \in [Ids -> Note] /\ 0 \in 0..MaxVersion
    BY Types DEF IndInv, TypeOK
  <1>2. /\ realm' = [realm EXCEPT ![r].ver = 0] /\ realm[r].phase = "idle" /\ writer # r
        /\ UNCHANGED <<latest, dirty, writer, nsg, worker>>
        /\ nt' = [n \in Ids |-> IF nt[n].owner = r THEN y(n) ELSE nt[n]]
    BY DEF Invalidate, Idle, File, Coordinator
  <1>3. \A n \in Ids : /\ y(n) \in Note
                       /\ y(n).where = nt[n].where /\ y(n).owner = nt[n].owner /\ y(n).ran = nt[n].ran
                       /\ y(n).ver = nt[n].ver /\ y(n).prev = nt[n].prev /\ y(n).calc = nt[n].calc
                       /\ y(n).cb = nt[n].cb /\ y(n).bg = nt[n].bg /\ y(n).skip = nt[n].skip
                       /\ y(n).told = nt[n].told /\ y(n).plain = FALSE
    <2>1. \A n \in Ids : y(n) \in Note /\ y(n).plain = FALSE
      BY <1>1, ZenonT(30) DEF Note
    <2>2. \A n \in Ids : /\ y(n).where = nt[n].where /\ y(n).owner = nt[n].owner /\ y(n).ran = nt[n].ran
                         /\ y(n).ver = nt[n].ver /\ y(n).prev = nt[n].prev /\ y(n).calc = nt[n].calc
                         /\ y(n).cb = nt[n].cb /\ y(n).bg = nt[n].bg /\ y(n).skip = nt[n].skip
                         /\ y(n).told = nt[n].told
      BY <1>1 DEF Note
    <2>3. QED
      BY <2>1, <2>2
  <1> HIDE DEF y
  <1>4. nt' \in [Ids -> Note] /\ \A n \in Ids : nt'[n] = IF nt[n].owner = r THEN y(n) ELSE nt[n]
    BY <1>1, <1>2, <1>3
  <1>5. \A n \in Ids : /\ nt'[n].where = nt[n].where /\ nt'[n].owner = nt[n].owner /\ nt'[n].ran = nt[n].ran
                       /\ nt'[n].ver = nt[n].ver /\ nt'[n].prev = nt[n].prev /\ nt'[n].calc = nt[n].calc
                       /\ nt'[n].cb = nt[n].cb /\ nt'[n].bg = nt[n].bg /\ nt'[n].skip = nt[n].skip
                       /\ nt'[n].told = nt[n].told /\ (nt'[n].plain => nt[n].plain)
    BY <1>3, <1>4
  <1>6. \A n \in Ids : /\ nt'[n] = nt[n] \/ nt[n].owner = r
                       /\ nt'[n].owner = r /\ nt'[n].cb => ~nt'[n].plain
    BY <1>3, <1>4
  <1>7. QED
    BY <1>1, <1>2, <1>4, <1>5, <1>6, ReadExact

LEMMA ReadGroupExact == ASSUME NEW r \in Realms, IndInv, Exact, ReadGroup(r) PROVE Exact'
  <1>1. /\ realm' = [realm EXCEPT ![r].ver = latest] /\ realm[r].phase = "idle" /\ realm[r].ver = 0
        /\ UNCHANGED <<latest, dirty, writer, nsg, worker, nt>> /\ latest \in 0..MaxVersion /\ latest # 0
    BY DEF ReadGroup, Idle, File, Coordinator, IndInv, TypeOK, Versions
  <1>2. WriteFits(r) /\ nt \in [Ids -> Note]
    BY OfNote, Types DEF Exact, RealmExact, IndInv
  <1>3. \A n \in Ids : nt'[n].owner = r /\ nt'[n].cb => ~nt'[n].plain
    BY <1>1, <1>2 DEF WriteFits
  <1>4. QED
    BY <1>1, <1>2, <1>3, ReadExact

LEMMA WorkerSignalExact == ASSUME IndInv, Exact, WorkerSignal PROVE Exact'
  <1> DEFINE x(r) == [realm[r] EXCEPT !.signal = TRUE]
  <1>1. \A r \in Realms : /\ x(r).ver = realm[r].ver /\ x(r).phase = realm[r].phase /\ x(r).forW = realm[r].forW
                          /\ x(r).list = realm[r].list /\ x(r).at = realm[r].at
    BY Types DEF IndInv, Thread
  <1>2. /\ realm' = [r \in Realms |-> x(r)] /\ UNCHANGED <<File, nt, nsg>> /\ worker.pc = "signal" /\ worker'.pc = "idle"
    BY DEF WorkerSignal, IdleWorker
  <1> HIDE DEF x
  <1>3. \A r \in Realms : /\ realm'[r].ver = realm[r].ver /\ realm'[r].phase = realm[r].phase
                          /\ realm'[r].forW = realm[r].forW /\ realm'[r].list = realm[r].list
                          /\ realm'[r].at = realm[r].at
    BY <1>1, <1>2
  <1>4. WorkerFits'
    BY <1>2 DEF Exact, WorkerFits, InPass
  <1>5. \A n \in Ids : NoteExact(n)'
    BY <1>2 DEF Exact, NoteExact, HasRun, File
  <1>6. ASSUME NEW r \in Realms PROVE RealmExact(r)'
    <2>1. RealmExact(r) /\ ListFits(r) /\ WriteFits(r)
      BY DEF Exact, RealmExact
    <2>2. ListFits(r)'
      BY <1>2, <1>3, <2>1 DEF ListFits, Delivers, Alive
    <2>3. WriteFits(r)'
      BY <1>2, <1>3, <2>1 DEF WriteFits, File
    <2>4. ASSUME NEW n \in Ids
          PROVE  (IF Delivers(r, n) THEN FlightFits(nt[n], realm[r], dirty)
                  ELSE nt[n].owner = r => SettledFits(nt[n], realm[r], dirty, writer = r))'
      BY <1>2, <1>3, <2>1 DEF RealmExact, Delivers, FlightFits, SettledFits, File
    <2>5. QED
      BY <2>2, <2>3, <2>4 DEF RealmExact
  <1>7. QED
    BY <1>4, <1>5, <1>6 DEF Exact

-----------------------------------------------------------------------------
(* Told exactly: deliveries                                                 *)

LEMMA PackageFields ==
  ASSUME IndInv, NEW L, nt' = PackageAll(L)
  PROVE  \A n \in Ids :
           /\ nt'[n].where = nt[n].where /\ nt'[n].owner = nt[n].owner /\ nt'[n].ran = nt[n].ran
           /\ nt'[n].ver = nt[n].ver /\ nt'[n].prev = nt[n].prev /\ nt'[n].calc = nt[n].calc
           /\ nt'[n].cb = nt[n].cb /\ nt'[n].bg = nt[n].bg /\ nt'[n].skip = nt[n].skip
           /\ nt'[n].told = nt[n].told /\ nt'[n].last = nt[n].last /\ nt'[n].plain = nt[n].plain
           /\ n \notin L => nt'[n] = nt[n]
           /\ n \in L => nt'[n].acc = {} /\ nt'[n].out = (IF nt[n].cb THEN nt[n].acc ELSE nt[n].out)
  <1> SUFFICES ASSUME NEW n \in Ids
               PROVE  /\ nt'[n].where = nt[n].where /\ nt'[n].owner = nt[n].owner /\ nt'[n].ran = nt[n].ran
                      /\ nt'[n].ver = nt[n].ver /\ nt'[n].prev = nt[n].prev /\ nt'[n].calc = nt[n].calc
                      /\ nt'[n].cb = nt[n].cb /\ nt'[n].bg = nt[n].bg /\ nt'[n].skip = nt[n].skip
                      /\ nt'[n].told = nt[n].told /\ nt'[n].last = nt[n].last /\ nt'[n].plain = nt[n].plain
                      /\ n \notin L => nt'[n] = nt[n]
                      /\ n \in L => nt'[n].acc = {} /\ nt'[n].out = (IF nt[n].cb THEN nt[n].acc ELSE nt[n].out)
    OBVIOUS
  <1> DEFINE o == IF nt[n].cb THEN nt[n].acc ELSE nt[n].out
             y == [nt[n] EXCEPT !.out = o, !.acc = {}]
  <1>1. nt'[n] = IF n \in L THEN y ELSE nt[n]
    BY DEF PackageAll
  <1>2. nt[n] \in Note
    BY Types DEF IndInv
  <1> HIDE DEF o
  <1>3. /\ y.where = nt[n].where /\ y.owner = nt[n].owner /\ y.ran = nt[n].ran /\ y.ver = nt[n].ver
        /\ y.prev = nt[n].prev /\ y.calc = nt[n].calc /\ y.cb = nt[n].cb /\ y.bg = nt[n].bg
        /\ y.skip = nt[n].skip /\ y.told = nt[n].told /\ y.last = nt[n].last /\ y.plain = nt[n].plain
        /\ y.acc = {} /\ y.out = o
    BY <1>2 DEF Note
  <1> HIDE DEF y
  <1>4. QED
    BY <1>1, <1>3 DEF o

\* Notifiers of an idle or a waiting Realm are packaged; what is left to show is what
\* becomes of the others, and of the versions.
PackagesWell(r, L, v, ph, w, a) ==
  /\ realm[r].phase \in {"idle", "wait"} /\ L \in SUBSET Ids /\ ph \in {"advance", "after"}
  /\ \A n \in L : nt[n].owner = r /\ nt[n].ran
  /\ nt' = PackageAll(L) /\ UNCHANGED <<latest, dirty, writer, nsg, worker>>
  /\ Becomes(r, v, ph, w, L, a)
  /\ \A n \in L : nt[n].cb /\ nt[n].plain => nt[n].ver = a /\ (ph = "after" => v = a)
  /\ \A n \in Ids \ L : nt[n].owner = r => SettledFits(nt[n], realm'[r], dirty, writer = r)
  /\ WriteFits(r)'

LEMMA PackagedExact ==
  ASSUME IndInv, Exact, NEW r \in Realms, NEW L, NEW v, NEW ph, NEW w, NEW a,
         PackagesWell(r, L, v, ph, w, a)
  PROVE  Exact'
  <1> SUFFICES
        ASSUME realm[r].phase \in {"idle", "wait"}, L \in SUBSET Ids, ph \in {"advance", "after"},
               \A n \in L : nt[n].owner = r /\ nt[n].ran,
               nt' = PackageAll(L), UNCHANGED <<latest, dirty, writer, nsg, worker>>,
               Becomes(r, v, ph, w, L, a),
               \A n \in L : nt[n].cb /\ nt[n].plain => nt[n].ver = a /\ (ph = "after" => v = a),
               \A n \in Ids \ L : nt[n].owner = r => SettledFits(nt[n], realm'[r], dirty, writer = r),
               WriteFits(r)'
        PROVE  Exact'
    BY DEF PackagesWell
  <1>1. RealmExact(r) /\ \A s \in Realms : ListFits(s)
    BY DEF Exact, RealmExact
  <1>2. \A n \in Ids : ~Delivers(r, n) /\ (nt[n].owner = r => SettledFits(nt[n], realm[r], dirty, writer = r))
    BY <1>1 DEF RealmExact, Delivers
  <1>3. \A n \in Ids :
           /\ nt'[n].where = nt[n].where /\ nt'[n].owner = nt[n].owner /\ nt'[n].ran = nt[n].ran
           /\ nt'[n].ver = nt[n].ver /\ nt'[n].prev = nt[n].prev /\ nt'[n].calc = nt[n].calc
           /\ nt'[n].cb = nt[n].cb /\ nt'[n].bg = nt[n].bg /\ nt'[n].skip = nt[n].skip
           /\ nt'[n].told = nt[n].told /\ nt'[n].last = nt[n].last /\ nt'[n].plain = nt[n].plain
           /\ n \notin L => nt'[n] = nt[n]
           /\ n \in L => nt'[n].acc = {} /\ nt'[n].out = (IF nt[n].cb THEN nt[n].acc ELSE nt[n].out)
    BY PackageFields
  <1>4. \A n \in Ids : NoteFits(nt'[n])
    BY <1>3, OfNote DEF NoteFits
  <1>5. ListFits(r)'
    <2>1. \A n \in L : nt'[n].owner = r /\ nt'[n].where # "none" /\ nt'[n].ran
      BY <1>3, OfNote DEF NoteFits
    <2>2. \A s \in Realms \ {r} : L \cap realm[s].list = {}
      BY <1>1 DEF ListFits
    <2>3. QED
      BY <2>1, <2>2 DEF ListFits, Delivers, Becomes
  <1>6. ASSUME NEW n \in L PROVE FlightFits(nt'[n], realm'[r], dirty)
    <2>1. SettledFits(nt[n], realm[r], dirty, writer = r)
      BY <1>2, <1>6
    <2>2. dirty \in SUBSET Nat /\ nt[n].ver \in Nat
      BY <1>6, Values DEF IndInv
    <2>3. Since(dirty, nt[n].ver, nt[n].ver) = {}
      BY <2>2, SinceSame
    <2>4. realm'[r].at = a /\ realm'[r].ver = v /\ realm'[r].phase = ph
      BY DEF Becomes
    <2>5. nt[n].cb /\ nt[n].plain /\ nt[n].told => nt[n].last <= nt[n].ver /\ nt[n].acc = Since(dirty, nt[n].last, nt[n].ver)
      BY <2>1 DEF SettledFits
    <2>6. /\ nt'[n].owner = r /\ nt'[n].ver = nt[n].ver /\ nt'[n].cb = nt[n].cb /\ nt'[n].plain = nt[n].plain
          /\ nt'[n].told = nt[n].told /\ nt'[n].last = nt[n].last /\ nt'[n].acc = {}
          /\ nt[n].cb => nt'[n].out = nt[n].acc
      BY <1>3, <1>6
    <2>7. nt[n].cb /\ nt[n].plain => nt[n].ver = a /\ (ph = "after" => v = a)
      BY <1>6
    <2>8. QED
      BY <2>2, <2>3, <2>4, <2>5, <2>6, <2>7 DEF FlightFits
  <1>7. \A n \in Ids : Delivers(r, n)' <=> n \in L
    BY DEF Delivers, Becomes
  <1>8. RealmExact(r)'
    BY <1>3, <1>5, <1>6, <1>7 DEF RealmExact
  <1>9. \A s \in Realms \ {r} : realm'[s] = realm[s]
    BY DEF Becomes
  <1>10. DirtyKept
    BY DirtySame
  <1>11. \A n \in Ids : nt'[n] = nt[n] \/ nt[n].owner = r
    BY <1>3
  <1>12. QED
    BY <1>3, <1>4, <1>8, <1>9, <1>10, <1>11, RealmStep

\* Notifiers are packaged, and the package is dropped, or it was empty.
LEMMA DroppedExact ==
  ASSUME IndInv, Exact, NEW r \in Realms, realm[r].phase \in {"idle", "wait"},
         NEW L \in SUBSET Ids, \A n \in L : nt[n].owner = r,
         nt' = PackageAll(L), UNCHANGED <<latest, dirty, writer, nsg, worker>>,
         NEW v, NEW ph \in {"idle", "advance", "after"}, NEW w, NEW a, Becomes(r, v, ph, w, {}, a),
         \A n \in L : nt[n].cb /\ nt[n].plain /\ nt[n].told => nt[n].acc = {},
         \A n \in Ids : nt[n].owner = r => SettledFits(nt[n], realm'[r], dirty, writer = r),
         WriteFits(r)'
  PROVE  Exact'
  <1>1. \A n \in Ids :
           /\ nt'[n].where = nt[n].where /\ nt'[n].owner = nt[n].owner /\ nt'[n].ran = nt[n].ran
           /\ nt'[n].ver = nt[n].ver /\ nt'[n].prev = nt[n].prev /\ nt'[n].calc = nt[n].calc
           /\ nt'[n].cb = nt[n].cb /\ nt'[n].bg = nt[n].bg /\ nt'[n].skip = nt[n].skip
           /\ nt'[n].told = nt[n].told /\ nt'[n].last = nt[n].last /\ nt'[n].plain = nt[n].plain
           /\ n \notin L => nt'[n] = nt[n]
           /\ n \in L => nt'[n].acc = {}
    BY PackageFields
  <1>2. \A n \in Ids : NoteFits(nt'[n])
    BY <1>1, OfNote DEF NoteFits
  <1>3. ListFits(r)'
    BY DEF ListFits, Delivers, Becomes
  <1>4. ASSUME NEW n \in Ids, nt[n].owner = r PROVE SettledFits(nt'[n], realm'[r], dirty, writer = r)
    <2>1. SettledFits(nt[n], realm'[r], dirty, writer = r)
      BY <1>4
    <2>2. CASE n \notin L
      BY <1>1, <2>1, <2>2
    <2>3. CASE n \in L
      <3>1. /\ nt'[n].ver = nt[n].ver /\ nt'[n].cb = nt[n].cb /\ nt'[n].plain = nt[n].plain
            /\ nt'[n].told = nt[n].told /\ nt'[n].last = nt[n].last /\ nt'[n].acc = {}
        BY <1>1, <2>3
      <3>2. nt[n].cb /\ nt[n].plain /\ nt[n].told => nt[n].acc = {}
        BY <2>3
      <3>3. QED
        BY <2>1, <3>1, <3>2 DEF SettledFits
    <2>4. QED
      BY <2>2, <2>3
  <1>5. RealmExact(r)'
    <2>1. \A n \in Ids : ~Delivers(r, n)'
      BY DEF Delivers, Becomes
    <2>2. QED
      BY <1>1, <1>3, <1>4, <2>1 DEF RealmExact
  <1>6. \A s \in Realms \ {r} : realm'[s] = realm[s]
    BY DEF Becomes
  <1>7. DirtyKept
    BY DirtySame
  <1>8. \A n \in Ids : nt'[n] = nt[n] \/ nt[n].owner = r
    BY <1>1
  <1>9. QED
    BY <1>1, <1>2, <1>5, <1>6, <1>7, <1>8, RealmStep

\* The notifiers that are packaged were alive and ran, all of them at one version.
LEMMA PackagedFacts ==
  ASSUME IndInv, Exact, NEW S \in SUBSET Ids, NEW r \in Realms, \A n \in S : nt[n].owner \in {r, "none"}
  PROVE  /\ Packaged(S) \in SUBSET Ids
         /\ \A n \in Packaged(S) : nt[n].owner = r /\ nt[n].ran /\ n \in Main(nt)
         /\ \A n, m \in Packaged(S) : nt[n].ver = nt[m].ver
         /\ \A n \in S : nt[n].owner = r /\ nt[n].ran => n \in Packaged(S)
  <1>1. /\ Packaged(S) \in SUBSET Ids
        /\ \A n \in Packaged(S) : nt[n].owner = r /\ nt[n].ran
        /\ \A n \in S : nt[n].owner = r /\ nt[n].ran => n \in Packaged(S)
    BY DEF Packaged, Alive
  <1>2. \A n \in Packaged(S) : n \in Main(nt)
    BY <1>1, OfNote DEF NoteFits, Main
  <1>3. QED
    BY <1>1, <1>2 DEF Exact, WorkerFits

LEMMA RefreshExact == ASSUME NEW r \in Realms, IndInv, Exact, Refresh(r) PROVE Exact'
  <1>1. /\ realm[r] \in Thread /\ latest \in 0..MaxVersion /\ latest # 0 /\ realm[r].phase = "idle" /\ writer # r
        /\ UNCHANGED <<latest, dirty, writer, nsg, worker>> /\ Of(r) \in SUBSET Ids /\ ~realm[r].forW
    BY Types DEF Refresh, Idle, File, Coordinator, IndInv, TypeOK, Versions, Of, RealmsFit, RealmFits
  <1>2. RealmExact(r) /\ WriteFits(r) /\ \A s \in Realms : ListFits(s)
    BY DEF Exact, RealmExact
  <1>3. \A n \in Ids : nt[n].owner = r <=> n \in Of(r)
    BY <1>1, OfNote DEF NoteFits, Of
  <1>4. CASE realm[r].ver # 0
    <2> DEFINE x == [realm[r] EXCEPT !.phase = "wait", !.target = latest, !.list = Of(r)]
    <2>1. realm' = [realm EXCEPT ![r] = x] /\ nt' = nt
      BY <1>4 DEF Refresh
    <2>2. /\ x \in Thread /\ x.ver = realm[r].ver /\ x.phase = "wait" /\ ~x.forW
          /\ x.list = Of(r) /\ x.at = realm[r].at
      <3>1. x \in Thread
        BY <1>1, StepFields
      <3>2. QED
        BY <1>1, <3>1 DEF Thread
    <2> HIDE DEF x
    <2>3. Becomes(r, x.ver, x.phase, x.forW, x.list, x.at)
      BY <2>1, <2>2, BecomesField DEF IndInv
    <2>4. ListFits(r)'
      <3>1. \A n \in Of(r) : n \in Ids /\ nt[n].owner = r /\ nt[n].where # "none"
        BY DEF Of
      <3>2. \A s \in Realms \ {r} : Of(r) \cap realm[s].list = {}
        BY <1>1, <1>2, <3>1 DEF ListFits
      <3>3. QED
        BY <1>3, <2>1, <2>2, <2>3, <3>1, <3>2 DEF ListFits, Delivers, Becomes
    <2>5. WriteFits(r)'
      BY <1>1, <1>2, <1>4, <2>1, <2>2, <2>3 DEF WriteFits, Becomes
    <2>6. ASSUME NEW n \in Ids, nt[n].owner = r PROVE SettledFits(nt[n], realm'[r], dirty, writer = r)
      <3>1. SettledFits(nt[n], realm[r], dirty, writer = r)
        BY <1>1, <1>2, <2>6 DEF RealmExact, Delivers
      <3>2. QED
        BY <2>2, <2>3, <3>1 DEF SettledFits, Becomes
    <2>7. RealmExact(r)'
      BY <1>1, <2>1, <2>2, <2>3, <2>4, <2>5, <2>6 DEF RealmExact, Delivers, Becomes
    <2>8. QED
      BY <1>1, <2>1, <2>3, <2>7, DirtySame, NtStays, RealmStep DEF Becomes
  <1>5. CASE realm[r].ver = 0
    <2> DEFINE these == {n \in Packaged(Of(r)) : nt[n].ver = latest}
               x == [realm[r] EXCEPT !.ver = latest, !.phase = "after", !.list = these, !.at = latest]
    <2>1. these \in SUBSET Ids /\ \A n \in these : nt[n].owner = r /\ nt[n].ran
      BY <1>1 DEF Packaged, Of
    <2>2. realm' = [realm EXCEPT ![r] = x] /\ nt' = PackageAll(these)
      BY <1>5 DEF Refresh
    <2> HIDE DEF these
    <2>3. /\ x \in Thread /\ x.ver = latest /\ x.phase = "after" /\ ~x.forW /\ x.list = these /\ x.at = latest
      BY <1>1, <2>1, LongFields DEF Thread
    <2> HIDE DEF x
    <2>4. Becomes(r, latest, "after", FALSE, these, latest)
      <3>1. Becomes(r, x.ver, x.phase, x.forW, x.list, x.at)
        BY <2>2, <2>3, BecomesField DEF IndInv
      <3>2. QED
        BY <2>3, <3>1 DEF Becomes
    <2>5. \A n \in Ids : nt[n].owner = r => ~(nt[n].cb /\ nt[n].plain)
      BY <1>2, <1>5 DEF WriteFits
    <2>6. \A n \in Ids : nt[n].owner = r => SettledFits(nt[n], realm'[r], dirty, writer = r)
      BY <2>5 DEF SettledFits
    <2>7. WriteFits(r)'
      BY <1>1, <2>4 DEF WriteFits, Becomes
    <2>8. PackagesWell(r, these, latest, "after", FALSE, latest)
      BY <1>1, <2>1, <2>2, <2>4, <2>5, <2>6, <2>7 DEF PackagesWell
    <2>9. QED
      BY <2>8, PackagedExact
  <1>6. QED
    BY <1>4, <1>5

LEMMA PackageAndWaitExact == ASSUME NEW r \in Realms, IndInv, Exact, PackageAndWait(r) PROVE Exact'
  <1> DEFINE all == Packaged(realm[r].list)
  <1>1. /\ realm[r] \in Thread /\ realm[r].phase = "wait" /\ UNCHANGED <<latest, dirty, writer, nsg, worker>>
        /\ Ready(realm[r].list, realm[r].target) /\ nt' = PackageAll(all)
        /\ RealmFits(r) /\ latest \in Nat /\ realm[r].target \in Nat /\ 0 \in 0..MaxVersion
    BY Types DEF PackageAndWait, File, Coordinator, IndInv, TypeOK, Versions, RealmsFit, Thread
  <1>2. RealmExact(r) /\ WriteFits(r) /\ ListFits(r) /\ realm[r].list \in SUBSET Ids
    BY Values DEF Exact, RealmExact, IndInv
  <1>3. /\ all \in SUBSET Ids /\ \A n \in all : nt[n].owner = r /\ nt[n].ran
        /\ \A n, m \in all : nt[n].ver = nt[m].ver
        /\ \A n \in realm[r].list : nt[n].owner = r /\ nt[n].ran => n \in all
    BY <1>2, PackagedFacts DEF ListFits
  <1>4. PICK at \in IF all = {} THEN {0} ELSE VersionsOf(all) :
         realm' = [realm EXCEPT ![r] = [realm[r] EXCEPT !.phase = "advance", !.target = 0,
                                          !.list = IF at < realm[r].target THEN {} ELSE all,
                                          !.at = IF at < realm[r].target THEN 0 ELSE at]]
    BY DEF PackageAndWait
  <1> DEFINE l == IF at < realm[r].target THEN {} ELSE all
             to == IF at < realm[r].target THEN 0 ELSE at
             x == [realm[r] EXCEPT !.phase = "advance", !.target = 0, !.list = l, !.at = to]
  <1>5. realm' = [realm EXCEPT ![r] = x]
    BY <1>4
  <1> HIDE DEF all
  <1>6. at \in 0..MaxVersion /\ \A n \in all : nt[n].ver = at
    BY <1>1, <1>3, <1>4, Values DEF VersionsOf, IndInv, Note
  <1>7. l \in SUBSET Ids /\ to \in 0..MaxVersion
    BY <1>1, <1>3, <1>6
  <1> HIDE DEF l, to
  <1>8. /\ x \in Thread /\ x.ver = realm[r].ver /\ x.phase = "advance" /\ x.forW = realm[r].forW
        /\ x.list = l /\ x.at = to
    BY <1>1, <1>7, LongFields DEF Thread
  <1> HIDE DEF x
  <1>9. Becomes(r, realm[r].ver, "advance", realm[r].forW, l, to)
    <2>1. Becomes(r, x.ver, x.phase, x.forW, x.list, x.at)
      BY <1>5, <1>8, BecomesField DEF IndInv
    <2>2. QED
      BY <1>8, <2>1 DEF Becomes
  <1>10. \A n \in Ids : nt[n].owner = r /\ nt[n].cb => n \in all /\ at >= realm[r].target
    <2>1. \A n \in Ids : nt[n].owner = r => n \in realm[r].list
      BY <1>1, <1>2 DEF ListFits
    <2>2. \A n \in Ids : nt[n].owner = r /\ nt[n].cb => nt[n].ran /\ nt[n].ver >= realm[r].target
      BY <1>1, <2>1 DEF Ready
    <2>3. QED
      BY <1>3, <1>6, <2>1, <2>2
  <1>11. WriteFits(r)'
    <2>1. writer = r => realm[r].forW /\ realm[r].target = latest
      BY <1>1, <1>2 DEF WriteFits, RealmFits
    <2>2. ASSUME NEW n \in Ids, nt[n].owner = r, nt[n].cb, writer = r PROVE nt[n].ran /\ nt[n].ver = latest
      <3>1. nt[n].ver \in Nat /\ nt[n].ver <= latest
        BY Values DEF IndInv, Held, VersionsExist
      <3>2. n \in all /\ nt[n].ver >= latest
        BY <1>6, <1>10, <2>1, <2>2
      <3>3. QED
        BY <1>1, <1>3, <3>1, <3>2
    <2>3. \A n \in Ids : nt'[n].owner = nt[n].owner /\ nt'[n].cb = nt[n].cb /\ nt'[n].ran = nt[n].ran
                         /\ nt'[n].ver = nt[n].ver /\ nt'[n].plain = nt[n].plain
      BY <1>1, PackageFields
    <2>4. QED
      BY <1>1, <1>2, <1>9, <2>1, <2>2, <2>3 DEF WriteFits, Becomes
  <1>12. CASE at < realm[r].target
    <2>1. l = {} /\ \A n \in Ids : nt[n].owner = r => ~nt[n].cb
      BY <1>1, <1>6, <1>10, <1>12 DEF l
    <2>2. \A n \in Ids : nt[n].owner = r => SettledFits(nt[n], realm'[r], dirty, writer = r)
      BY <2>1 DEF SettledFits
    <2>3. \A n \in all : nt[n].owner = r /\ (nt[n].cb /\ nt[n].plain /\ nt[n].told => nt[n].acc = {})
      BY <1>3, <2>1
    <2>4. QED
      BY <1>1, <1>3, <1>9, <1>11, <2>1, <2>2, <2>3, DroppedExact
  <1>13. CASE ~(at < realm[r].target)
    <2> DEFINE v == realm[r].ver
               w == realm[r].forW
               ph == "advance"
    <2>1. l = all /\ to = at
      BY <1>13 DEF l, to
    <2>2. \A n \in Ids \ all : nt[n].owner = r => SettledFits(nt[n], realm'[r], dirty, writer = r)
      BY <1>10 DEF SettledFits
    <2>3. \A n \in all : nt[n].cb /\ nt[n].plain => nt[n].ver = at /\ (ph = "after" => v = at)
      BY <1>6
    <2>4. Becomes(r, v, ph, w, all, at) /\ ph \in {"advance", "after"}
      BY <1>9, <2>1
    <2>5. realm[r].phase \in {"idle", "wait"}
      BY <1>1
    <2>6. all \in SUBSET Ids /\ \A n \in all : nt[n].owner = r /\ nt[n].ran
      BY <1>3
    <2>7. nt' = PackageAll(all) /\ UNCHANGED <<latest, dirty, writer, nsg, worker>>
      BY <1>1
    <2> HIDE DEF v, w, ph
    <2>8. PackagesWell(r, all, v, ph, w, at)
      BY <1>11, <2>2, <2>3, <2>4, <2>5, <2>6, <2>7 DEF PackagesWell
    <2>9. QED
      BY <2>8, PackagedExact
  <1>14. QED
    BY <1>12, <1>13

LEMMA NotifyExact == ASSUME NEW r \in Realms, IndInv, Exact, Notify(r) PROVE Exact'
  <1> DEFINE quiet == [realm[r] EXCEPT !.signal = FALSE]
             ver == realm[r].ver
             same == {n \in Packaged(Of(r)) : ver = 0 \/ nt[n].ver = ver}
             these == Packaged(Of(r))
  <1>1. /\ realm[r] \in Thread /\ realm[r].phase = "idle" /\ ~realm[r].forW /\ 0 \in 0..MaxVersion
        /\ UNCHANGED <<latest, dirty, writer, nsg, worker>> /\ ver \in 0..MaxVersion
    <2>1. MaxVersion \in Nat /\ realm[r] \in Thread /\ RealmFits(r)
      BY Types DEF IndInv, RealmsFit
    <2>2. UNCHANGED <<latest, dirty, writer, nsg, worker>> /\ realm[r].phase = "idle"
      BY DEF Notify, Idle, File, Coordinator
    <2>3. QED
      BY <2>1, <2>2 DEF RealmFits, Thread
  <1>2. /\ RealmExact(r) /\ ListFits(r) /\ WriteFits(r) /\ realm[r].list = {}
        /\ \A n \in Ids : nt[n].owner = r => SettledFits(nt[n], realm[r], dirty, writer = r)
    BY <1>1 DEF Exact, RealmExact, ListFits, Delivers
  <1>3. /\ quiet \in Thread /\ quiet.ver = ver /\ quiet.phase = "idle" /\ ~quiet.forW /\ quiet.list = {}
        /\ quiet.at = realm[r].at /\ quiet.forW = realm[r].forW
    BY <1>1, <1>2 DEF Thread
  <1>4. /\ these \in SUBSET Ids /\ \A n \in these : nt[n].owner = r /\ nt[n].ran /\ nt[n].ver \in 0..MaxVersion
        /\ \A n, m \in these : nt[n].ver = nt[m].ver
        /\ \A n \in Ids : nt[n].owner = r /\ nt[n].ran => n \in these
    <2>1. /\ Of(r) \in SUBSET Ids /\ \A n \in Of(r) : nt[n].owner \in {r, "none"}
          /\ \A n \in Ids : nt[n].owner = r => n \in Of(r)
      BY OfNote DEF NoteFits, Of
    <2>2. \A n \in Ids : nt[n].ver \in 0..MaxVersion
      BY Values DEF IndInv, Note
    <2>3. QED
      BY <2>1, <2>2, PackagedFacts
  <1>5. same \in SUBSET these
    OBVIOUS
  <1>6. ASSUME NEW L \in SUBSET these, nt' = PackageAll(L), writer # r,
               NEW ph \in {"idle", "advance", "after"}, NEW l, NEW a, Becomes(r, ver, ph, FALSE, l, a)
        PROVE  WriteFits(r)'
    <2>1. \A n \in Ids : nt'[n].owner = nt[n].owner /\ nt'[n].cb = nt[n].cb /\ nt'[n].ran = nt[n].ran
                         /\ nt'[n].ver = nt[n].ver /\ nt'[n].plain = nt[n].plain
      BY <1>6, PackageFields
    <2>2. QED
      BY <1>1, <1>2, <1>6, <2>1 DEF WriteFits, Becomes
  <1>7. CASE writer = r
    <2>1. realm' = [realm EXCEPT ![r] = quiet] /\ nt' = nt
      BY <1>7 DEF Notify
    <2> HIDE DEF quiet
    <2>2. Becomes(r, quiet.ver, quiet.phase, quiet.forW, quiet.list, quiet.at)
      BY <1>3, <2>1, BecomesField DEF IndInv
    <2>3. Becomes(r, realm[r].ver, realm[r].phase, realm[r].forW, realm[r].list, realm[r].at)
      BY <1>1, <1>2, <1>3, <2>2 DEF Becomes
    <2>4. ListFits(r)'
      BY <1>2, <2>1, <2>3 DEF ListFits, Delivers, Alive, Becomes
    <2>5. WriteFits(r)'
      BY <1>1, <1>2, <2>1, <2>3 DEF WriteFits, Becomes
    <2>6. ASSUME NEW n \in Ids, nt[n].owner = r PROVE SettledFits(nt[n], realm'[r], dirty, writer = r)
      BY <1>2, <2>3, <2>6 DEF SettledFits, Becomes
    <2>7. RealmExact(r)'
      BY <1>1, <2>1, <2>3, <2>4, <2>5, <2>6 DEF RealmExact, Delivers, Becomes
    <2>8. QED
      BY <1>1, <2>1, <2>3, <2>7, DirtySame, NtStays, RealmStep DEF Becomes
  <1>8. CASE writer # r /\ (ver = 0 \/ ver = latest)
    <2>1. PICK at \in IF same = {} THEN {ver} ELSE VersionsOf(same) :
               realm' = [realm EXCEPT ![r] = [quiet EXCEPT !.phase = "after", !.list = same, !.at = at]]
      BY <1>8 DEF Notify
    <2> DEFINE x == [quiet EXCEPT !.phase = "after", !.list = same, !.at = at]
    <2>2. nt' = PackageAll(same) /\ realm' = [realm EXCEPT ![r] = x]
      BY <1>8, <2>1 DEF Notify
    <2>3. /\ at \in 0..MaxVersion
          /\ \A n \in same : nt[n].cb /\ nt[n].plain => nt[n].ver = at /\ ver = at
      <3>1. CASE same = {}
        BY <1>1, <2>1, <3>1
      <3>2. CASE same # {}
        <4>1. PICK m \in same : at = nt[m].ver
          BY <2>1, <3>2 DEF VersionsOf
        <4>2. at \in 0..MaxVersion /\ \A n \in same : nt[n].owner = r /\ nt[n].ver = at /\ (ver # 0 => nt[n].ver = ver)
          BY <1>4, <4>1
        <4>3. \A n \in same : ver = 0 => ~(nt[n].cb /\ nt[n].plain)
          BY <1>2, <1>4, <4>2 DEF WriteFits
        <4>4. QED
          BY <4>2, <4>3
      <3>3. QED
        BY <3>1, <3>2
    <2>4. \A n \in Ids \ same : nt[n].owner = r => SettledFits(nt[n], realm[r], dirty, writer = r)
      BY <1>2
    <2>5. same \in SUBSET Ids /\ \A n \in same : nt[n].owner = r /\ nt[n].ran
      BY <1>4, <1>5
    <2> HIDE DEF quiet, same, ver
    <2>6. x \in Thread /\ x.ver = ver /\ x.phase = "after" /\ ~x.forW /\ x.list = same /\ x.at = at
      <3>1. x \in Thread
        BY <1>3, <2>3, <2>5, StepFields
      <3>2. QED
        BY <1>3, <3>1 DEF Thread
    <2> HIDE DEF x
    <2>7. Becomes(r, ver, "after", FALSE, same, at)
      <3>1. Becomes(r, x.ver, x.phase, x.forW, x.list, x.at)
        BY <2>2, <2>6, BecomesField DEF IndInv
      <3>2. QED
        BY <2>6, <3>1 DEF Becomes
    <2>8. \A n \in Ids \ same : nt[n].owner = r => SettledFits(nt[n], realm'[r], dirty, writer = r)
      BY <1>8, <2>4, <2>7 DEF SettledFits, Becomes, ver
    <2>9. WriteFits(r)'
      BY <1>5, <1>6, <1>8, <2>2, <2>7
    <2> DEFINE ph == "after"
               no == FALSE
    <2>10. \A n \in same : nt[n].cb /\ nt[n].plain => nt[n].ver = at /\ (ph = "after" => ver = at)
      BY <2>3
    <2>11. /\ Becomes(r, ver, ph, no, same, at) /\ ph \in {"advance", "after"} /\ nt' = PackageAll(same)
           /\ realm[r].phase \in {"idle", "wait"} /\ UNCHANGED <<latest, dirty, writer, nsg, worker>>
      BY <1>1, <2>2, <2>7
    <2> HIDE DEF ph, no
    <2>12. PackagesWell(r, same, ver, ph, no, at)
      BY <2>5, <2>8, <2>9, <2>10, <2>11 DEF PackagesWell
    <2>13. QED
      BY <2>12, PackagedExact
  <1>9. CASE writer # r /\ ver # 0 /\ ver # latest
    <2> DEFINE x(at) == CASE at # 0 /\ at < ver -> quiet
                          [] at = ver -> [quiet EXCEPT !.phase = "after", !.list = these, !.at = at]
                          [] OTHER -> [quiet EXCEPT !.phase = "advance", !.list = these, !.at = at]
    <2>1. PICK at \in IF these = {} THEN {0} ELSE VersionsOf(these) : realm' = [realm EXCEPT ![r] = x(at)]
      BY <1>9 DEF Notify
    <2>2. nt' = PackageAll(these)
      BY <1>9 DEF Notify
    <2>3. at \in 0..MaxVersion /\ \A n \in these : nt[n].ver = at
      <3>1. CASE these = {}
        BY <1>1, <2>1, <3>1
      <3>2. CASE these # {}
        BY <1>4, <2>1, <3>2 DEF VersionsOf
      <3>3. QED
        BY <3>1, <3>2
    <2> DEFINE ph == IF at = ver THEN "after" ELSE "advance"
               y == [quiet EXCEPT !.phase = ph, !.list = these, !.at = at]
    <2>4. x(at) = IF at # 0 /\ at < ver THEN quiet ELSE y
      <3>1. CASE at # 0 /\ at < ver
        BY <1>1, <2>3, <3>1
      <3>2. CASE at = ver
        BY <1>1, <3>2
      <3>3. CASE ~(at # 0 /\ at < ver) /\ at # ver
        BY <3>3
      <3>4. QED
        BY <3>1, <3>2, <3>3
    <2>5. \A n \in Ids \ these : nt[n].owner = r => SettledFits(nt[n], realm'[r], dirty, writer = r)
      BY <1>4, OfNote DEF NoteFits, SettledFits
    <2> HIDE DEF quiet, x, these
    <2>6. CASE at # 0 /\ at < ver
      <3>1. realm' = [realm EXCEPT ![r] = quiet]
        BY <2>1, <2>4, <2>6
      <3>2. Becomes(r, ver, "idle", FALSE, {}, realm[r].at)
        <4>1. Becomes(r, quiet.ver, quiet.phase, quiet.forW, quiet.list, quiet.at)
          BY <1>3, <3>1, BecomesField DEF IndInv
        <4>2. QED
          BY <1>3, <4>1 DEF Becomes
      <3>3. WriteFits(r)'
        BY <1>6, <1>9, <2>2, <3>2
      <3>4. ASSUME NEW n \in Ids, nt[n].owner = r PROVE SettledFits(nt[n], realm'[r], dirty, writer = r)
        BY <1>1, <1>2, <3>2, <3>4 DEF SettledFits, Becomes
      <3>5. \A n \in these : nt[n].cb /\ nt[n].plain /\ nt[n].told => nt[n].acc = {}
        BY <1>2, <1>4, <2>3, <2>6 DEF SettledFits
      <3>6. \A n \in these : nt[n].owner = r
        BY <1>4
      <3>7. QED
        BY <1>1, <1>4, <2>2, <3>2, <3>3, <3>4, <3>5, <3>6, DroppedExact
    <2>7. CASE ~(at # 0 /\ at < ver)
      <3>1. realm' = [realm EXCEPT ![r] = y] /\ ph \in {"advance", "after"} /\ (ph = "after" => ver = at)
        BY <2>1, <2>4, <2>7
      <3> HIDE DEF ph
      <3>2. y \in Thread /\ y.ver = ver /\ y.phase = ph /\ ~y.forW /\ y.list = these /\ y.at = at
        <4>1. y \in Thread
          BY <1>3, <1>4, <2>3, <3>1, StepFields
        <4>2. QED
          BY <1>3, <4>1 DEF Thread
      <3> HIDE DEF y, ver
      <3>3. Becomes(r, ver, ph, FALSE, these, at)
        <4>1. Becomes(r, y.ver, y.phase, y.forW, y.list, y.at)
          BY <3>1, <3>2, BecomesField DEF IndInv
        <4>2. QED
          BY <3>2, <4>1 DEF Becomes
      <3>4. WriteFits(r)'
        BY <1>6, <1>9, <2>2, <3>1, <3>3
      <3>5. \A n \in these : nt[n].cb /\ nt[n].plain => nt[n].ver = at /\ (ph = "after" => ver = at)
        BY <2>3, <3>1
      <3>6. \A n \in these : nt[n].owner = r /\ nt[n].ran
        BY <1>4
      <3> DEFINE no == FALSE
      <3>7. /\ Becomes(r, ver, ph, no, these, at) /\ these \in SUBSET Ids
            /\ realm[r].phase \in {"idle", "wait"} /\ UNCHANGED <<latest, dirty, writer, nsg, worker>>
        BY <1>1, <1>4, <3>3
      <3> HIDE DEF no
      <3>8. PackagesWell(r, these, ver, ph, no, at)
        BY <2>2, <2>5, <3>1, <3>4, <3>5, <3>6, <3>7 DEF PackagesWell
      <3>9. QED
        BY <3>8, PackagedExact
    <2>8. QED
      BY <2>6, <2>7
  <1>10. QED
    BY <1>7, <1>8, <1>9

LEMMA AfterAdvanceExact ==
  ASSUME NEW r \in Realms, NEW n \in Ids, NEW unused \in BOOLEAN, IndInv, Exact, AfterAdvance(r, n, unused)
  PROVE  Exact'
  <1> DEFINE b == nt[n].bg /\ ~(unused /\ ~realm[r].forW /\ Alive(n))
             e == nt[n].told \/ Called(n)
             w == IF Called(n) THEN realm[r].at ELSE nt[n].last
             o == IF Called(n) THEN {} ELSE nt[n].out
             y == [nt[n] EXCEPT !.bg = b, !.told = e, !.last = w, !.out = o]
             x == [realm[r] EXCEPT !.list = realm[r].list \ {n}]
  <1>1. /\ realm[r].phase = "after" /\ n \in realm[r].list /\ UNCHANGED <<latest, dirty, writer, nsg, worker>>
        /\ realm' = [realm EXCEPT ![r] = x] /\ nt' = [nt EXCEPT ![n] = y]
    BY Types DEF AfterAdvance, File, Coordinator, IndInv
  <1>2. /\ nt[n] \in Note /\ nt \in [Ids -> Note] /\ NoteFits(nt[n])
        /\ ListFits(r) /\ WriteFits(r) /\ RealmExact(r) /\ realm[r] \in Thread /\ realm[r].list \in SUBSET Ids
    BY OfNote, Values DEF IndInv, Exact, RealmExact
  <1>3. Delivers(r, n) /\ FlightFits(nt[n], realm[r], dirty)
    BY <1>1, OfNote DEF Delivers
  <1>4. Called(n) <=> nt[n].cb /\ (~nt[n].told \/ nt[n].out # {})
    BY DEF Called
  <1>5. /\ y.where = nt[n].where /\ y.owner = nt[n].owner /\ y.ran = nt[n].ran /\ y.ver = nt[n].ver
        /\ y.prev = nt[n].prev /\ y.calc = nt[n].calc /\ y.cb = nt[n].cb /\ y.plain = nt[n].plain
        /\ y.skip = nt[n].skip /\ y.acc = nt[n].acc /\ y.told = e /\ y.last = w /\ y.bg = b
    BY <1>2 DEF Note
  <1>6. ~nt[n].ran => b = nt[n].bg /\ e = nt[n].told
    BY <1>2, <1>3, <1>4 DEF ListFits, Alive, Note
  <1> HIDE DEF y
  <1>7. NoteFits(y)
    BY <1>2, <1>5, <1>6 DEF NoteFits
  <1>8. nt'[n] = y /\ \A m \in Ids \ {n} : nt'[m] = nt[m]
    BY <1>1, <1>2
  <1>9. /\ x \in Thread /\ x.ver = realm[r].ver /\ x.phase = "after" /\ x.forW = realm[r].forW
        /\ x.list = realm[r].list \ {n} /\ x.at = realm[r].at
    <2>1. ASSUME NEW l \in SUBSET Ids PROVE [realm[r] EXCEPT !.list = l] \in Thread
      BY <1>2 DEF Thread
    <2>2. x \in Thread
      BY <1>2, <2>1
    <2>3. QED
      BY <1>1, <1>2, <2>2 DEF Thread
  <1> HIDE DEF x
  <1>10. Becomes(r, realm[r].ver, "after", realm[r].forW, realm[r].list \ {n}, realm[r].at)
    <2>1. Becomes(r, x.ver, x.phase, x.forW, x.list, x.at)
      BY <1>1, <1>9, BecomesField DEF IndInv
    <2>2. QED
      BY <1>9, <2>1 DEF Becomes
  <1>11. \A m \in Ids : /\ nt'[m].where = nt[m].where /\ nt'[m].owner = nt[m].owner /\ nt'[m].ran = nt[m].ran
                        /\ nt'[m].ver = nt[m].ver /\ nt'[m].prev = nt[m].prev /\ nt'[m].calc = nt[m].calc
                        /\ nt'[m].cb = nt[m].cb /\ nt'[m].plain = nt[m].plain /\ NoteFits(nt'[m])
    BY <1>5, <1>7, <1>8, OfNote
  <1>12. ListFits(r)'
    BY <1>1, <1>2, <1>10, <1>11 DEF ListFits, Delivers, Alive, Becomes
  <1>13. WriteFits(r)'
    BY <1>1, <1>2, <1>10, <1>11 DEF WriteFits, Becomes
  <1>14. ASSUME nt[n].owner = r PROVE SettledFits(y, realm'[r], dirty, writer = r)
    <2>1. SUFFICES ASSUME nt[n].cb, nt[n].plain
                   PROVE  /\ w <= nt[n].ver /\ nt[n].acc = Since(dirty, w, nt[n].ver)
                          /\ realm[r].ver <= nt[n].ver
                          /\ writer = r => nt[n].acc = {}
      <3>1. realm[r].ver \in Nat /\ nt[n].ver \in Nat
        BY Values DEF IndInv
      <3>2. QED
        BY <1>5, <1>10, <2>1, <3>1 DEF SettledFits, Becomes
    <2>2. /\ nt[n].told => nt[n].last <= realm[r].at /\ nt[n].out = Since(dirty, nt[n].last, realm[r].at)
          /\ realm[r].at <= nt[n].ver /\ nt[n].acc = Since(dirty, realm[r].at, nt[n].ver) /\ realm[r].ver = realm[r].at
      BY <1>1, <1>3, <1>14, <2>1 DEF FlightFits
    <2>3. dirty \in SUBSET Nat /\ nt[n].ver \in Nat /\ nt[n].last \in Nat /\ realm[r].at \in Nat /\ latest \in Nat
      BY Values DEF IndInv
    <2>4. w <= nt[n].ver /\ nt[n].acc = Since(dirty, w, nt[n].ver)
      <3>1. CASE Called(n)
        BY <2>2, <3>1
      <3>2. CASE ~Called(n)
        <4>1. nt[n].told /\ nt[n].last <= realm[r].at /\ Since(dirty, nt[n].last, realm[r].at) = {}
          BY <1>4, <2>1, <2>2, <3>2
        <4>2. Since(dirty, realm[r].at, nt[n].ver) = Since(dirty, nt[n].last, nt[n].ver)
          BY <2>2, <2>3, <4>1, SinceJoins
        <4>3. nt[n].last <= nt[n].ver
          BY <2>2, <2>3, <4>1
        <4>4. QED
          BY <2>2, <3>2, <4>2, <4>3
      <3>3. QED
        BY <3>1, <3>2
    <2>5. writer = r => nt[n].acc = {}
      <3>1. writer = r => realm[r].at = latest
        BY <1>1, <1>2 DEF WriteFits
      <3>2. nt[n].ver <= latest
        BY DEF IndInv, Held, VersionsExist
      <3>3. writer = r => nt[n].ver = realm[r].at
        BY <2>2, <2>3, <3>1, <3>2
      <3>4. QED
        BY <2>2, <2>3, <3>3, SinceSame
    <2>6. QED
      BY <2>2, <2>3, <2>4, <2>5
  <1>15. ASSUME NEW m \in Ids
         PROVE  (IF Delivers(r, m) THEN FlightFits(nt[m], realm[r], dirty)
                 ELSE nt[m].owner = r => SettledFits(nt[m], realm[r], dirty, writer = r))'
    <2>1. Delivers(r, m)' <=> Delivers(r, m) /\ m # n
      BY <1>1, <1>10 DEF Delivers, Becomes
    <2>2. CASE m = n
      <3>1. nt[n].owner = r => SettledFits(nt'[m], realm'[r], dirty', writer' = r)
        BY <1>1, <1>8, <1>14, <2>2
      <3>2. QED
        BY <1>11, <2>1, <2>2, <3>1
    <2>3. CASE m # n
      <3>1. nt'[m] = nt[m] /\ (Delivers(r, m) => FlightFits(nt[m], realm[r], dirty))
            /\ (~Delivers(r, m) /\ nt[m].owner = r => SettledFits(nt[m], realm[r], dirty, writer = r))
        BY <1>2, <1>8, <2>3 DEF RealmExact
      <3>2. /\ Delivers(r, m) => FlightFits(nt'[m], realm'[r], dirty')
            /\ ~Delivers(r, m) /\ nt[m].owner = r => SettledFits(nt'[m], realm'[r], dirty', writer' = r)
        BY <1>1, <1>10, <3>1 DEF FlightFits, SettledFits, Becomes
      <3>3. QED
        BY <2>1, <2>3, <3>1, <3>2
    <2>4. QED
      BY <2>2, <2>3
  <1>16. RealmExact(r)'
    BY <1>12, <1>13, <1>15 DEF RealmExact
  <1>17. \A m \in Ids : nt'[m] = nt[m] \/ nt[m].owner = r \/ m \in realm[r].list
    BY <1>1, <1>8
  <1>18. QED
    BY <1>1, <1>10, <1>11, <1>16, <1>17, DirtySame, RealmStep DEF Becomes

-----------------------------------------------------------------------------
(* Told exactly: the worker                                                 *)

\* Notifiers die, or move on to a version and hand over what happened until then: what
\* is left to show is what the worker keeps of them.
LEMMA WorkerStep ==
  ASSUME IndInv, Exact, UNCHANGED <<File, realm>>, WorkerFits',
         \A n \in Ids : NoteFits(nt'[n]) /\ RunFits(nt'[n], HasRun(n)', nsg', dirty),
         \A n \in Ids : nt'[n].ver \in Nat /\ nt'[n].ver <= latest /\ (nt[n].where # "none" => nt'[n].where # "none"),
         \A n \in Ids :
           \/ nt[n].owner = "none" /\ nt'[n].owner = "none" /\ ~nt'[n].cb
           \/ /\ nt'[n].owner = nt[n].owner /\ nt'[n].cb = nt[n].cb /\ nt'[n].plain = nt[n].plain
              /\ nt'[n].told = nt[n].told /\ nt'[n].last = nt[n].last /\ nt'[n].out = nt[n].out
              /\ nt[n].ran => /\ nt'[n].ran /\ nt[n].ver <= nt'[n].ver
                              /\ nt[n].owner # "none" /\ nt[n].cb /\ nt[n].plain
                                   => nt'[n].acc = nt[n].acc \cup Since(dirty, nt[n].ver, nt'[n].ver)
  PROVE  Exact'
  <1>1. \A n \in Ids : NoteExact(n)'
    BY DEF NoteExact, File
  <1>2. ASSUME NEW r \in Realms PROVE RealmExact(r)'
    <2>1. /\ ListFits(r) /\ WriteFits(r) /\ realm[r].list \subseteq Ids /\ r # "none"
          /\ realm' = realm /\ latest' = latest /\ dirty' = dirty /\ writer' = writer
      BY Values DEF IndInv, Exact, RealmExact, File
    <2>2. ListFits(r)'
      BY <2>1 DEF ListFits, Delivers, Alive
    <2>3. ASSUME NEW n \in Ids, nt[n].owner = r, nt[n].cb, writer = r, realm[r].phase # "wait"
          PROVE  nt[n].ran /\ nt[n].ver = latest /\ (nt'[n].owner = r => nt'[n].ver = latest)
      <3>1. nt[n].ran /\ nt[n].ver = latest /\ latest \in Nat
        BY <2>1, <2>3, Values DEF WriteFits, IndInv
      <3>2. QED
        BY <2>1, <2>3, <3>1
    <2>4. WriteFits(r)'
      <3>1. ASSUME NEW n \in Ids, nt'[n].owner = r, nt'[n].cb
            PROVE  /\ writer = r /\ realm[r].phase # "wait" => nt'[n].ran /\ nt'[n].ver = latest
                   /\ realm[r].ver = 0 => ~nt'[n].plain
        <4>1. nt[n].owner = r /\ nt[n].cb /\ nt'[n].plain = nt[n].plain /\ (nt[n].ran => nt'[n].ran)
          BY <2>1, <3>1
        <4>2. QED
          BY <2>1, <2>3, <3>1, <4>1 DEF WriteFits
      <3>2. QED
        BY <2>1, <3>1 DEF WriteFits
    <2>5. ASSUME NEW n \in Ids
          PROVE  (IF Delivers(r, n) THEN FlightFits(nt[n], realm[r], dirty)
                  ELSE nt[n].owner = r => SettledFits(nt[n], realm[r], dirty, writer = r))'
      <3>1. /\ dirty \in SUBSET Nat /\ nt[n].ver \in Nat /\ nt[n].last \in Nat /\ realm[r].at \in Nat
            /\ realm[r].ver \in Nat /\ nt'[n].ver \in Nat
        BY Values DEF IndInv
      <3>2. Delivers(r, n)' <=> Delivers(r, n)
        BY <2>1 DEF Delivers
      <3>3. CASE Delivers(r, n)
        <4>1. FlightFits(nt[n], realm[r], dirty) /\ (Alive(n) => nt[n].ran)
          BY <2>1, <3>3, OfNote DEF ListFits
        <4>2. SUFFICES ASSUME nt'[n].cb, nt'[n].plain PROVE FlightFits(nt'[n], realm[r], dirty)
          BY <2>1, <3>2, <3>3 DEF FlightFits
        <4>3. /\ nt'[n].owner = nt[n].owner /\ nt[n].cb /\ nt[n].plain /\ nt'[n].told = nt[n].told
              /\ nt'[n].last = nt[n].last /\ nt'[n].out = nt[n].out
          BY <4>2
        <4>4. nt[n].told => nt[n].last <= realm[r].at /\ nt[n].out = Since(dirty, nt[n].last, realm[r].at)
          BY <4>1, <4>3 DEF FlightFits
        <4>5. ASSUME nt[n].owner # "none"
              PROVE  /\ realm[r].at <= nt'[n].ver /\ nt'[n].acc = Since(dirty, realm[r].at, nt'[n].ver)
                     /\ realm[r].phase = "after" => realm[r].ver = realm[r].at
          <5>1. /\ realm[r].at <= nt[n].ver /\ nt[n].acc = Since(dirty, realm[r].at, nt[n].ver)
                /\ realm[r].phase = "after" => realm[r].ver = realm[r].at
            BY <4>1, <4>3, <4>5 DEF FlightFits
          <5>2. nt[n].ver <= nt'[n].ver /\ nt'[n].acc = nt[n].acc \cup Since(dirty, nt[n].ver, nt'[n].ver)
            BY <4>1, <4>3, <4>5 DEF Alive
          <5>3. Since(dirty, realm[r].at, nt[n].ver) \cup Since(dirty, nt[n].ver, nt'[n].ver)
                  = Since(dirty, realm[r].at, nt'[n].ver)
            BY <3>1, <5>1, <5>2, SinceJoins
          <5>4. QED
            BY <3>1, <5>1, <5>2, <5>3
        <4>6. QED
          BY <4>3, <4>4, <4>5 DEF FlightFits
      <3>4. CASE ~Delivers(r, n)
        <4>1. SUFFICES ASSUME nt'[n].owner = r, nt'[n].cb, nt'[n].plain, nt'[n].told
                       PROVE  SettledFits(nt'[n], realm[r], dirty, writer = r)
          BY <2>1, <3>2, <3>4 DEF SettledFits
        <4>2. /\ nt[n].owner = r /\ nt[n].cb /\ nt[n].plain /\ nt[n].told /\ nt'[n].last = nt[n].last
          BY <2>1, <4>1
        <4>3. nt[n].ran
          BY <4>2, OfNote DEF NoteFits
        <4>4. nt[n].ver <= nt'[n].ver /\ nt'[n].acc = nt[n].acc \cup Since(dirty, nt[n].ver, nt'[n].ver)
          BY <2>1, <4>2, <4>3
        <4>5. /\ nt[n].last <= nt[n].ver /\ nt[n].acc = Since(dirty, nt[n].last, nt[n].ver)
              /\ nt[n].ver < realm[r].ver => nt[n].ver = realm[r].ver - 1 /\ nt[n].acc = {}
              /\ realm[r].phase # "advance"
              /\ writer = r /\ realm[r].phase # "wait" => nt[n].acc = {}
          BY <3>4, <4>2, OfNote DEF SettledFits
        <4>6. nt[n].last <= nt'[n].ver /\ nt'[n].acc = Since(dirty, nt[n].last, nt'[n].ver)
          <5>1. Since(dirty, nt[n].last, nt[n].ver) \cup Since(dirty, nt[n].ver, nt'[n].ver)
                  = Since(dirty, nt[n].last, nt'[n].ver)
            BY <3>1, <4>4, <4>5, SinceJoins
          <5>2. QED
            BY <3>1, <4>4, <4>5, <5>1
        <4>7. nt'[n].ver < realm[r].ver => nt'[n].ver = nt[n].ver
          BY <3>1, <4>4, <4>5
        <4>8. nt'[n].ver = nt[n].ver => nt'[n].acc = nt[n].acc
          BY <3>1, <4>4, SinceSame
        <4>9. writer = r /\ realm[r].phase # "wait" => nt'[n].ver = nt[n].ver
          BY <2>3, <4>1, <4>2
        <4>10. QED
          BY <4>1, <4>2, <4>5, <4>6, <4>7, <4>8, <4>9 DEF SettledFits
      <3>5. QED
        BY <3>3, <3>4
    <2>6. QED
      BY <2>2, <2>4, <2>5 DEF RealmExact
  <1>3. QED
    BY <1>1, <1>2 DEF Exact

\* The fields after a run, and after a handover
LEMMA RunToIs ==
  ASSUME TypeOK, NEW n \in Ids, NEW to \in 0..MaxVersion
  PROVE  LET x == nt[n]
             y == RunTo(n, to)
         IN  /\ y.where = x.where /\ y.owner = x.owner /\ y.ran = x.ran /\ y.ver = x.ver /\ y.bg = x.bg
             /\ y.cb = x.cb /\ y.acc = x.acc /\ y.out = x.out /\ y.told = x.told /\ y.skip = x.skip
             /\ y.last = x.last /\ y.plain = x.plain
             /\ IF x.owner = "none" \/ (~x.cb /\ ~x.bg) \/ (x.ran /\ Since(dirty, x.prev, to) = {})
                THEN y.prev = x.prev /\ y.calc = x.calc
                ELSE y.prev = to /\ y.calc = (IF x.ran /\ x.cb THEN Since(dirty, x.prev, to) ELSE x.calc)
  <1> DEFINE x == nt[n]
             c == IF x.ran /\ x.cb THEN Since(dirty, x.prev, to) ELSE x.calc
             z == [x EXCEPT !.prev = to, !.calc = c]
  <1>1. x \in Note
    BY Types
  <1>2. RunTo(n, to) = IF x.owner = "none" \/ (~x.cb /\ ~x.bg) \/ (x.ran /\ Since(dirty, x.prev, to) = {})
                       THEN x ELSE z
    BY BetweenIs DEF RunTo
  <1> HIDE DEF c
  <1>3. /\ z.where = x.where /\ z.owner = x.owner /\ z.ran = x.ran /\ z.ver = x.ver /\ z.bg = x.bg
        /\ z.cb = x.cb /\ z.acc = x.acc /\ z.out = x.out /\ z.told = x.told /\ z.skip = x.skip
        /\ z.last = x.last /\ z.plain = x.plain /\ z.prev = to /\ z.calc = c
    BY <1>1 DEF Note
  <1> HIDE DEF z
  <1>4. QED
    BY <1>2, <1>3 DEF c

LEMMA HandedOverIs ==
  ASSUME TypeOK, NEW n \in Ids, NEW to \in 0..MaxVersion
  PROVE  LET x == nt[n]
             y == HandedOver(n, to)
         IN  /\ y.where = x.where /\ y.owner = x.owner /\ y.ran /\ y.ver = to /\ y.prev = x.prev /\ y.calc = {}
             /\ y.cb = x.cb /\ y.out = x.out /\ y.told = x.told /\ ~y.skip /\ y.last = x.last /\ y.plain = x.plain
             /\ y.acc = (IF x.cb /\ ~x.skip THEN x.acc \cup x.calc ELSE x.acc)
  <1> DEFINE x == nt[n]
             a == IF x.cb /\ ~x.skip THEN x.acc \cup x.calc ELSE x.acc
             z == [x EXCEPT !.ver = to, !.ran = TRUE, !.calc = {}, !.skip = FALSE, !.acc = a]
  <1>1. x \in Note
    BY Types
  <1>2. HandedOver(n, to) = z
    BY DEF HandedOver
  <1> HIDE DEF a
  <1>3. /\ z.where = x.where /\ z.owner = x.owner /\ z.ran /\ z.ver = to /\ z.prev = x.prev /\ z.calc = {}
        /\ z.cb = x.cb /\ z.out = x.out /\ z.told = x.told /\ ~z.skip /\ z.last = x.last /\ z.plain = x.plain
        /\ z.acc = a
    BY <1>1 DEF Note
  <1> HIDE DEF z
  <1>4. QED
    BY <1>2, <1>3 DEF a

\* A run brings the rows up to date and computes what happened since the handover
\* before it.
LEMMA RunToFits ==
  ASSUME IndInv, Exact, NEW n \in Ids, NEW to \in 0..MaxVersion, ~HasRun(n), nt[n].ran => nt[n].ver <= to
  PROVE  NoteFits(RunTo(n, to)) /\ RunFits(RunTo(n, to), TRUE, to, dirty)
  <1> DEFINE x == nt[n]
             y == RunTo(n, to)
  <1>1. /\ y.where = x.where /\ y.owner = x.owner /\ y.ran = x.ran /\ y.ver = x.ver /\ y.bg = x.bg
        /\ y.cb = x.cb /\ y.told = x.told /\ y.skip = x.skip /\ y.plain = x.plain
        /\ IF x.owner = "none" \/ (~x.cb /\ ~x.bg) \/ (x.ran /\ Since(dirty, x.prev, to) = {})
           THEN y.prev = x.prev /\ y.calc = x.calc
           ELSE y.prev = to /\ y.calc = (IF x.ran /\ x.cb THEN Since(dirty, x.prev, to) ELSE x.calc)
    BY RunToIs DEF IndInv
  <1>2. NoteFits(x) /\ RunFits(x, FALSE, nsg, dirty) /\ x.ran \in BOOLEAN /\ x.cb \in BOOLEAN
    <2>1. NoteFits(nt[n]) /\ RunFits(nt[n], HasRun(n), nsg, dirty) /\ nt[n].ran \in BOOLEAN /\ nt[n].cb \in BOOLEAN
      BY OfNote, Values DEF IndInv
    <2>2. QED
      BY <2>1 DEF RunFits
  <1>3. x.ver \in Nat /\ x.prev \in Nat /\ dirty \in SUBSET Nat /\ to \in Nat /\ Since(dirty, x.ver, x.ver) = {}
        /\ Since(dirty, to, to) = {}
    BY Values, SinceSame DEF IndInv
  <1> HIDE DEF x, y
  <1>4. NoteFits(y)
    BY <1>1, <1>2 DEF NoteFits
  <1>5. ASSUME y.owner # "none", ~y.ran PROVE y.prev = to
    BY <1>1, <1>2, <1>5 DEF NoteFits
  <1>6. ASSUME y.owner # "none", y.ran, y.cb, y.plain
        PROVE  y.prev <= to /\ Since(dirty, y.prev, to) = {} /\ y.calc = Since(dirty, y.ver, to)
    <2>1. x.prev <= x.ver /\ Since(dirty, x.prev, x.ver) = {} /\ x.calc = {} /\ x.ver <= to
      BY <1>1, <1>2, <1>3, <1>6 DEF RunFits, x
    <2>2. Since(dirty, x.ver, to) = Since(dirty, x.prev, to) /\ x.prev <= to
      <3> DEFINE a == x.prev
                 b == x.ver
      <3>1. a \in Nat /\ b \in Nat /\ to \in Nat /\ dirty \in SUBSET Nat
            /\ a <= b /\ b <= to /\ Since(dirty, a, b) = {}
        BY <1>3, <2>1
      <3> HIDE DEF a, b
      <3>2. Since(dirty, b, to) = Since(dirty, a, to) /\ a <= to
        BY <3>1, SinceJoins
      <3>3. QED
        BY <3>2 DEF a, b
    <2>3. CASE Since(dirty, x.prev, to) = {}
      BY <1>1, <1>6, <2>1, <2>2, <2>3
    <2>4. CASE Since(dirty, x.prev, to) # {}
      BY <1>1, <1>3, <1>6, <2>2, <2>4
    <2>5. QED
      BY <2>3, <2>4
  <1>7. RunFits(y, TRUE, to, dirty)
    BY <1>5, <1>6 DEF RunFits
  <1>8. QED
    BY <1>4, <1>7 DEF y

\* A handover adds what the run computed to what is to be told.
LEMMA HandedOverFits ==
  ASSUME IndInv, Exact, NEW n \in Ids, HasRun(n), nt[n].where # "new", nt[n].ran => nt[n].ver <= nsg, NEW v
  PROVE  /\ NoteFits(HandedOver(n, nsg)) /\ RunFits(HandedOver(n, nsg), FALSE, v, dirty)
         /\ nt[n].ran /\ nt[n].owner # "none" /\ nt[n].cb /\ nt[n].plain
              => HandedOver(n, nsg).acc = nt[n].acc \cup Since(dirty, nt[n].ver, nsg)
  <1> DEFINE x == nt[n]
             y == HandedOver(n, nsg)
  <1>1. /\ y.where = x.where /\ y.owner = x.owner /\ y.ran /\ y.ver = nsg /\ y.prev = x.prev /\ y.calc = {}
        /\ y.cb = x.cb /\ y.told = x.told /\ ~y.skip /\ y.plain = x.plain
        /\ y.acc = (IF x.cb /\ ~x.skip THEN x.acc \cup x.calc ELSE x.acc)
    <2>1. TypeOK /\ nsg \in 0..MaxVersion
      BY DEF IndInv, TypeOK
    <2>2. QED
      BY <2>1, HandedOverIs, ZenonT(30)
  <1>2. NoteFits(x) /\ RunFits(x, TRUE, nsg, dirty) /\ x.ran \in BOOLEAN /\ x.where # "new"
    BY OfNote, Values DEF IndInv
  <1>3. nsg \in Nat /\ Since(dirty, nsg, nsg) = {}
    BY Values, SinceSame DEF IndInv
  <1> HIDE DEF x, y
  <1>4. NoteFits(y)
    BY <1>1, <1>2 DEF NoteFits
  <1>5. ASSUME y.owner # "none", y.cb, y.plain
        PROVE  y.prev <= nsg /\ Since(dirty, y.prev, nsg) = {}
    <2>1. CASE x.ran
      BY <1>1, <1>2, <1>5, <2>1 DEF RunFits
    <2>2. CASE ~x.ran
      <3>1. x.prev = nsg
        BY <1>1, <1>2, <1>5, <2>2 DEF RunFits
      <3>2. QED
        BY <1>1, <1>3, <3>1
    <2>3. QED
      BY <2>1, <2>2
  <1>6. RunFits(y, FALSE, v, dirty)
    BY <1>1, <1>3, <1>5 DEF RunFits
  <1>7. ASSUME x.ran, x.owner # "none", x.cb, x.plain PROVE y.acc = x.acc \cup Since(dirty, x.ver, nsg)
    BY <1>1, <1>2, <1>7 DEF NoteFits, RunFits
  <1>8. QED
    BY <1>4, <1>6, <1>7 DEF x, y

\* The notifiers of S run at version to.
LEMMA RunsExact ==
  ASSUME IndInv, Exact, NEW S \in SUBSET Main(nt), NEW to \in 0..MaxVersion, nsg <= to, to <= worker.to,
         InPass, \A n \in Ids : ~HasRun(n) /\ (HasRun(n)' <=> n \in S),
         nt' = [n \in Ids |-> IF n \in S THEN RunTo(n, to) ELSE nt[n]], nsg' = to, UNCHANGED <<File, realm>>,
         worker'.old = worker.old, worker'.new = worker.new, worker'.to = worker.to, worker'.skip = worker.skip,
         worker'.pc = "skipHand" => to = worker.skip, worker'.pc = "hand" => to = worker.to
  PROVE  Exact'
  <1>1. nsg \in Nat /\ dirty \in SUBSET Nat /\ Main(nt) \subseteq Ids /\ to \in Nat
        /\ \A n \in Ids : nt[n].ver \in Nat /\ nt[n].ver <= latest
    BY Values DEF IndInv, Held, VersionsExist, Main
  <1>2. /\ \A n \in Main(nt) : nt[n].ran => nt[n].ver <= nsg
        /\ \A n, m \in Main(nt) : nt[n].ran /\ nt[m].ran => nt[n].ver = nt[m].ver
        /\ Main(nt) = worker.old \cup worker.new /\ worker.old \cap worker.new = {}
        /\ \A n \in worker.new : ~nt[n].ran
    BY DEF Exact, WorkerFits
  <1>3. \A n \in S : nt[n].ran => nt[n].ver <= to
    BY <1>1, <1>2
  <1>4. \A n \in Ids : nt'[n] = IF n \in S THEN RunTo(n, to) ELSE nt[n]
    OBVIOUS
  <1>5. \A n \in Ids : /\ nt'[n].where = nt[n].where /\ nt'[n].owner = nt[n].owner /\ nt'[n].ran = nt[n].ran
                       /\ nt'[n].ver = nt[n].ver /\ nt'[n].cb = nt[n].cb /\ nt'[n].acc = nt[n].acc
                       /\ nt'[n].out = nt[n].out /\ nt'[n].told = nt[n].told /\ nt'[n].last = nt[n].last
                       /\ nt'[n].plain = nt[n].plain
    BY <1>4, RunToIs DEF IndInv
  <1>6. Main(nt') = Main(nt)
    BY <1>5 DEF Main
  <1>7. WorkerFits'
    <2>1. /\ \A n \in Main(nt) : nt'[n].ran => nt'[n].ver <= to
          /\ \A n, m \in Main(nt) : nt'[n].ran /\ nt'[m].ran => nt'[n].ver = nt'[m].ver
      BY <1>1, <1>2, <1>5
    <2>2. \A n \in worker.new : ~nt'[n].ran
      BY <1>1, <1>2, <1>5
    <2>3. QED
      BY <1>2, <1>6, <2>1, <2>2 DEF WorkerFits
  <1>8. ASSUME NEW n \in Ids PROVE NoteFits(nt'[n]) /\ RunFits(nt'[n], HasRun(n)', nsg', dirty)
    <2>1. CASE n \in S
      <3>1. NoteFits(RunTo(n, to)) /\ RunFits(RunTo(n, to), TRUE, to, dirty)
        BY <1>3, <2>1, RunToFits
      <3>2. HasRun(n)' <=> TRUE
        BY <2>1
      <3>3. QED
        BY <1>4, <2>1, <3>1, <3>2 DEF RunFits
    <2>2. CASE n \notin S
      <3>1. NoteFits(nt[n]) /\ RunFits(nt[n], HasRun(n), nsg, dirty)
        BY OfNote
      <3>2. (HasRun(n)' <=> FALSE) /\ (HasRun(n) <=> FALSE) /\ nt'[n] = nt[n]
        BY <1>4, <2>2
      <3>3. QED
        BY <3>1, <3>2 DEF RunFits
    <2>3. QED
      BY <2>1, <2>2
  <1>9. \A n \in Ids : nt'[n].acc = nt[n].acc \cup Since(dirty, nt[n].ver, nt'[n].ver)
    BY <1>1, <1>5, SinceSame
  <1>10. \A n \in Ids : nt[n].ver <= nt'[n].ver
    BY <1>1, <1>5
  <1>11. \A n \in Ids : nt'[n].ver \in Nat /\ nt'[n].ver <= latest /\ (nt[n].where # "none" => nt'[n].where # "none")
    BY <1>1, <1>5
  <1>12. QED
    BY <1>5, <1>7, <1>8, <1>9, <1>10, <1>11, WorkerStep

\* What is known of the worker between its steps
LEMMA Pass ==
  ASSUME IndInv, Exact, InPass
  PROVE  /\ worker.old \in SUBSET Main(nt) /\ worker.old \cup worker.new = Main(nt) /\ Main(nt) \in SUBSET Ids
         /\ worker.old \cap worker.new = {} /\ \A n \in worker.new : ~nt[n].ran
         /\ worker.to \in 0..MaxVersion /\ worker.to <= latest /\ worker.skip \in 0..MaxVersion
         /\ nsg <= worker.to /\ \A n \in Main(nt) : nt[n].where = "main" /\ (nt[n].ran => nt[n].ver <= nsg)
         /\ worker.pc = "skipRun" => nsg <= worker.skip /\ worker.skip <= worker.to
         /\ worker.pc = "skipHand" => nsg = worker.skip
         /\ worker.pc = "hand" => nsg = worker.to
  BY DEF Exact, WorkerFits, IndInv, TypeOK, Held, VersionsExist, SkipIsAhead, Main

LEMMA WorkerSkipRunExact == ASSUME IndInv, Exact, WorkerSkipRun PROVE Exact'
  <1>1. worker.pc = "skipRun" /\ InPass /\ worker' = [worker EXCEPT !.pc = "skipHand"] /\ nsg' = worker.skip
        /\ nt' = [n \in Ids |-> IF n \in worker.old THEN RunTo(n, worker.skip) ELSE nt[n]] /\ UNCHANGED <<File, realm>>
    BY DEF WorkerSkipRun, InPass
  <1>2. /\ worker'.pc = "skipHand" /\ worker'.old = worker.old /\ worker'.new = worker.new
        /\ worker'.to = worker.to /\ worker'.skip = worker.skip
    BY <1>1 DEF IndInv, TypeOK
  <1>3. \A n \in Ids : ~HasRun(n) /\ (HasRun(n)' <=> n \in worker.old)
    BY <1>1, <1>2 DEF HasRun
  <1>4. QED
    BY <1>1, <1>2, <1>3, Pass, RunsExact

LEMMA WorkerRunExact == ASSUME IndInv, Exact, WorkerRun PROVE Exact'
  <1> DEFINE S == worker.old \cup worker.new
  <1>1. worker.pc = "run" /\ InPass /\ worker' = [worker EXCEPT !.pc = "hand"] /\ nsg' = worker.to
        /\ nt' = [n \in Ids |-> IF n \in S THEN RunTo(n, worker.to) ELSE nt[n]] /\ UNCHANGED <<File, realm>>
    BY DEF WorkerRun, InPass
  <1>2. /\ worker'.pc = "hand" /\ worker'.old = worker.old /\ worker'.new = worker.new
        /\ worker'.to = worker.to /\ worker'.skip = worker.skip
    BY <1>1 DEF IndInv, TypeOK
  <1>3. \A n \in Ids : ~HasRun(n) /\ (HasRun(n)' <=> n \in S)
    BY <1>1, <1>2 DEF HasRun
  <1>4. S \in SUBSET Main(nt)
    BY <1>1, Pass
  <1> HIDE DEF S
  <1>5. worker.to \in 0..MaxVersion /\ nsg <= worker.to /\ worker.to <= worker.to
    BY <1>1, Pass
  <1>6. QED
    BY <1>1, <1>2, <1>3, <1>4, <1>5, RunsExact

\* A notifier that ran is handed over at the version the worker holds.
LEMMA HandsOver ==
  ASSUME IndInv, Exact, InPass, NEW n \in Main(nt), HasRun(n), NEW v, NEW y, y = HandedOver(n, nsg)
  PROVE  /\ y.where = nt[n].where /\ y.owner = nt[n].owner /\ y.ran
         /\ y.ver = nsg /\ y.cb = nt[n].cb /\ y.out = nt[n].out
         /\ y.told = nt[n].told /\ y.last = nt[n].last /\ y.plain = nt[n].plain
         /\ NoteFits(y) /\ RunFits(y, FALSE, v, dirty)
         /\ nt[n].ran => /\ nt[n].ver <= y.ver
                         /\ nt[n].owner # "none" /\ nt[n].cb /\ nt[n].plain
                              => y.acc = nt[n].acc \cup Since(dirty, nt[n].ver, y.ver)
  <1>1. n \in Ids /\ nt[n].where = "main" /\ (nt[n].ran => nt[n].ver <= nsg)
    BY Pass
  <1>2. /\ NoteFits(y) /\ RunFits(y, FALSE, v, dirty)
        /\ nt[n].ran /\ nt[n].owner # "none" /\ nt[n].cb /\ nt[n].plain
             => y.acc = nt[n].acc \cup Since(dirty, nt[n].ver, nsg)
    BY <1>1, HandedOverFits
  <1>3. TypeOK /\ nsg \in 0..MaxVersion
    BY DEF IndInv, TypeOK
  <1>4. /\ y.where = nt[n].where /\ y.owner = nt[n].owner /\ y.ran
        /\ y.ver = nsg /\ y.cb = nt[n].cb /\ y.out = nt[n].out
        /\ y.told = nt[n].told /\ y.last = nt[n].last /\ y.plain = nt[n].plain
    BY <1>1, <1>3, HandedOverIs, ZenonT(30)
  <1>5. QED
    BY <1>1, <1>2, <1>4

LEMMA WorkerSkipHandExact == ASSUME IndInv, Exact, WorkerSkipHand PROVE Exact'
  <1>1. worker.pc = "skipHand" /\ InPass /\ worker' = [worker EXCEPT !.pc = "run"] /\ nsg' = nsg
        /\ nt' = [n \in Ids |-> IF n \in worker.old THEN HandedOver(n, worker.skip) ELSE nt[n]] /\ UNCHANGED <<File, realm>>
    BY DEF WorkerSkipHand, InPass
  <1>2. /\ worker'.pc = "run" /\ worker'.old = worker.old /\ worker'.new = worker.new
        /\ worker'.to = worker.to /\ worker'.skip = worker.skip
    BY <1>1 DEF IndInv, TypeOK
  <1>3. /\ nsg = worker.skip /\ nsg \in 0..MaxVersion /\ nsg <= latest /\ nsg \in Nat /\ dirty \in SUBSET Nat
        /\ \A n \in Ids : nt[n].ver \in Nat /\ nt[n].ver <= latest
    BY <1>1, Pass, Values DEF IndInv, TypeOK, Held, VersionsExist
  <1>4. \A n \in Ids : nt'[n] = IF n \in worker.old THEN HandedOver(n, nsg) ELSE nt[n]
    BY <1>1, <1>3
  <1>5. \A n \in Ids : (HasRun(n) <=> n \in worker.old) /\ ~HasRun(n)'
    BY <1>1, <1>2 DEF HasRun
  <1>6. ASSUME NEW n \in worker.old
        PROVE  /\ n \in Ids /\ nt'[n].where = nt[n].where /\ nt'[n].owner = nt[n].owner /\ nt'[n].ran
               /\ nt'[n].ver = nsg /\ nt'[n].cb = nt[n].cb /\ nt'[n].out = nt[n].out
               /\ nt'[n].told = nt[n].told /\ nt'[n].last = nt[n].last /\ nt'[n].plain = nt[n].plain
               /\ NoteFits(nt'[n]) /\ RunFits(nt'[n], FALSE, nsg', dirty)
               /\ nt[n].ran => /\ nt[n].ver <= nt'[n].ver
                               /\ nt[n].owner # "none" /\ nt[n].cb /\ nt[n].plain
                                    => nt'[n].acc = nt[n].acc \cup Since(dirty, nt[n].ver, nt'[n].ver)
    <2>1. n \in Main(nt) /\ n \in Ids /\ HasRun(n)
      BY <1>1, <1>5, <1>6, Pass
    <2>2. nt'[n] = HandedOver(n, nsg)
      BY <1>4, <1>6, <2>1
    <2>3. InPass
      BY <1>1
    <2>4. QED
      BY <2>1, <2>2, <2>3, HandsOver, Zenon
  <1>7. ASSUME NEW n \in Ids \ worker.old
        PROVE  nt'[n] = nt[n] /\ NoteFits(nt'[n]) /\ RunFits(nt'[n], FALSE, nsg', dirty)
    <2>1. NoteFits(nt[n]) /\ RunFits(nt[n], HasRun(n), nsg, dirty) /\ ~HasRun(n) /\ nt'[n] = nt[n]
      BY <1>4, <1>5, <1>7, OfNote
    <2>2. QED
      BY <2>1 DEF RunFits
  <1>8. \A n \in Ids : nt'[n].where = nt[n].where
    BY <1>6, <1>7
  <1>9. Main(nt') = Main(nt)
    BY <1>8 DEF Main
  <1>10. WorkerFits'
    <2>1. \A n \in Main(nt) : nt'[n].ran => nt'[n].ver = nsg
      <3>1. ASSUME NEW n \in Main(nt), nt'[n].ran PROVE nt'[n].ver = nsg
        <4>1. n \in Ids /\ (n \notin worker.old => n \in worker.new /\ ~nt[n].ran)
          BY <1>1, Pass
        <4>2. n \in worker.old
          BY <1>7, <3>1, <4>1
        <4>3. QED
          BY <1>6, <4>2
      <3>2. QED
        BY <3>1
    <2>2. \A n \in worker.new : ~nt'[n].ran
      BY <1>1, <1>7, Pass
    <2>3. /\ \A n \in Main(nt) : nt'[n].ran => nt'[n].ver <= nsg
          /\ \A n, m \in Main(nt) : nt'[n].ran /\ nt'[m].ran => nt'[n].ver = nt'[m].ver
      BY <1>3, <2>1
    <2>4. Main(nt) = worker.old \cup worker.new /\ worker.old \cap worker.new = {} /\ nsg <= worker.to
      BY <1>1, Pass
    <2>5. QED
      BY <1>1, <1>2, <1>9, <2>2, <2>3, <2>4 DEF WorkerFits
  <1>11. \A n \in Ids : NoteFits(nt'[n]) /\ RunFits(nt'[n], HasRun(n)', nsg', dirty)
    BY <1>5, <1>6, <1>7 DEF RunFits
  <1>12. \A n \in Ids : nt'[n].ver \in Nat /\ nt'[n].ver <= latest /\ (nt[n].where # "none" => nt'[n].where # "none")
    BY <1>3, <1>6, <1>7
  <1>13. ASSUME NEW n \in Ids
         PROVE  /\ nt'[n].owner = nt[n].owner /\ nt'[n].cb = nt[n].cb /\ nt'[n].plain = nt[n].plain
                /\ nt'[n].told = nt[n].told /\ nt'[n].last = nt[n].last /\ nt'[n].out = nt[n].out
                /\ nt[n].ran => /\ nt'[n].ran /\ nt[n].ver <= nt'[n].ver
                                /\ nt[n].owner # "none" /\ nt[n].cb /\ nt[n].plain
                                     => nt'[n].acc = nt[n].acc \cup Since(dirty, nt[n].ver, nt'[n].ver)
    <2>1. CASE n \in worker.old
      BY <1>6, <2>1
    <2>2. CASE n \notin worker.old
      <3>1. nt'[n] = nt[n] /\ Since(dirty, nt[n].ver, nt[n].ver) = {} /\ nt[n].ver <= nt[n].ver
        <4>1. nt[n].ver \in Nat /\ dirty \in SUBSET Nat
          BY <1>3
        <4>2. Since(dirty, nt[n].ver, nt[n].ver) = {} /\ nt[n].ver <= nt[n].ver
          BY <4>1, SinceSame
        <4>3. QED
          BY <1>7, <2>2, <4>2
      <3>2. QED
        BY <3>1
    <2>3. QED
      BY <2>1, <2>2
  <1>14. QED
    BY <1>1, <1>10, <1>11, <1>12, <1>13, WorkerStep

\* Who is forgotten, and what is left of him
LEMMA CleanedUpIs ==
  ASSUME NEW f, NEW n \in Ids, NEW x, x = CleanedUp(f)[n]
  PROVE  IF f[n].where \in {"new", "main"} /\ f[n].owner = "none"
         THEN /\ x.owner = "none" /\ x.where = "gone" /\ x.ver = 0 /\ ~x.cb
              /\ NoteFits(x) /\ \A has, v, D : RunFits(x, has, v, D)
         ELSE x = f[n]
  <1> DEFINE blank == [NoNotifier EXCEPT !.where = "gone"]
  <1>1. /\ blank.owner = "none" /\ blank.where = "gone" /\ blank.ver = 0 /\ ~blank.cb /\ ~blank.skip
        /\ ~blank.told /\ blank.bg /\ blank.calc = {}
    BY DEF NoNotifier
  <1>2. x = IF f[n].where \in {"new", "main"} /\ f[n].owner = "none" THEN blank ELSE f[n]
    BY DEF CleanedUp
  <1> HIDE DEF blank
  <1>3. NoteFits(blank) /\ \A has, v, D : RunFits(blank, has, v, D)
    BY <1>1 DEF NoteFits, RunFits
  <1>4. QED
    BY <1>1, <1>2, <1>3

LEMMA WorkerHandExact == ASSUME IndInv, Exact, WorkerHand PROVE Exact'
  <1> DEFINE f == [n \in Ids |-> IF n \in worker.old \cup worker.new THEN HandedOver(n, worker.to) ELSE nt[n]]
  <1>1. /\ worker.pc = "hand" /\ InPass /\ worker'.pc = "signal" /\ UNCHANGED <<File, realm>>
        /\ nt' = CleanedUp(f) /\ nsg' = (IF MainEnds(f) THEN 0 ELSE nsg)
    BY DEF WorkerHand, InPass, IdleWorker
  <1>2. /\ nsg = worker.to /\ nsg <= latest /\ nsg \in Nat /\ latest \in Nat /\ dirty \in SUBSET Nat /\ 0 <= latest
        /\ worker.old \cup worker.new = Main(nt) /\ Main(nt) \in SUBSET Ids
        /\ \A n \in Ids : nt[n].ver \in Nat /\ nt[n].ver <= latest
    <2>1. nsg = worker.to /\ worker.old \cup worker.new = Main(nt) /\ Main(nt) \in SUBSET Ids
      BY <1>1, Pass
    <2>2. /\ nsg <= latest /\ nsg \in Nat /\ latest \in Nat /\ dirty \in SUBSET Nat
          /\ \A n \in Ids : nt[n].ver \in Nat /\ nt[n].ver <= latest
      BY Values DEF IndInv, Held, VersionsExist
    <2>3. QED
      BY <2>1, <2>2
  <1>3. \A n \in Ids : f[n] = IF n \in Main(nt) THEN HandedOver(n, nsg) ELSE nt[n]
    BY <1>2
  <1>4. MainEnds(f) => Main(nt') = {}
    BY <1>1 DEF MainEnds
  <1>5. \A n \in Ids : (HasRun(n) <=> n \in Main(nt)) /\ ~HasRun(n)'
    BY <1>1, <1>2 DEF HasRun
  <1> HIDE DEF f
  <1>6. ASSUME NEW n \in Ids
        PROVE  /\ f[n].where = nt[n].where /\ f[n].owner = nt[n].owner /\ f[n].cb = nt[n].cb
               /\ f[n].plain = nt[n].plain /\ f[n].told = nt[n].told /\ f[n].last = nt[n].last
               /\ f[n].out = nt[n].out /\ NoteFits(f[n]) /\ RunFits(f[n], FALSE, nsg', dirty)
               /\ nt[n].ran => /\ f[n].ran /\ nt[n].ver <= f[n].ver
                               /\ nt[n].owner # "none" /\ nt[n].cb /\ nt[n].plain
                                    => f[n].acc = nt[n].acc \cup Since(dirty, nt[n].ver, f[n].ver)
               /\ f[n].ver \in Nat /\ f[n].ver <= latest /\ (n \in Main(nt) => f[n].ver = nsg)
    <2>1. CASE n \in Main(nt)
      <3>1. f[n] = HandedOver(n, nsg) /\ HasRun(n)
        BY <1>3, <1>5, <2>1
      <3>2. InPass
        BY <1>1
      <3>3. /\ f[n].where = nt[n].where /\ f[n].owner = nt[n].owner /\ f[n].cb = nt[n].cb
            /\ f[n].plain = nt[n].plain /\ f[n].told = nt[n].told /\ f[n].last = nt[n].last
            /\ f[n].out = nt[n].out /\ NoteFits(f[n]) /\ RunFits(f[n], FALSE, nsg', dirty)
            /\ nt[n].ran => /\ nt[n].ver <= f[n].ver
                            /\ nt[n].owner # "none" /\ nt[n].cb /\ nt[n].plain
                                 => f[n].acc = nt[n].acc \cup Since(dirty, nt[n].ver, f[n].ver)
            /\ f[n].ran /\ f[n].ver = nsg
        BY <2>1, <3>1, <3>2, HandsOver, Zenon
      <3>4. QED
        BY <1>2, <3>3
    <2>2. CASE n \notin Main(nt)
      <3>1. f[n] = nt[n] /\ NoteFits(nt[n]) /\ RunFits(nt[n], HasRun(n), nsg, dirty) /\ ~HasRun(n)
        BY <1>3, <1>5, <2>2, OfNote
      <3>2. RunFits(nt[n], FALSE, nsg', dirty)
        BY <3>1 DEF RunFits
      <3>3. Since(dirty, nt[n].ver, nt[n].ver) = {} /\ nt[n].ver \in Nat /\ nt[n].ver <= latest /\ nt[n].ver <= nt[n].ver
        BY <1>2, SinceSame
      <3>4. QED
        BY <2>2, <3>1, <3>2, <3>3
    <2>3. QED
      BY <2>1, <2>2
  <1>7. ASSUME NEW n \in Ids
        PROVE  \/ /\ nt[n].owner = "none" /\ nt'[n].owner = "none" /\ nt'[n].where = "gone" /\ nt'[n].ver = 0
                  /\ ~nt'[n].cb /\ NoteFits(nt'[n]) /\ \A has, v, D : RunFits(nt'[n], has, v, D)
               \/ nt'[n] = f[n]
    <2>1. nt'[n] = CleanedUp(f)[n] /\ f[n].owner = nt[n].owner
      BY <1>1, <1>6
    <2>2. IF f[n].where \in {"new", "main"} /\ f[n].owner = "none"
          THEN /\ nt'[n].owner = "none" /\ nt'[n].where = "gone" /\ nt'[n].ver = 0 /\ ~nt'[n].cb
               /\ NoteFits(nt'[n]) /\ \A has, v, D : RunFits(nt'[n], has, v, D)
          ELSE nt'[n] = f[n]
      BY <2>1, CleanedUpIs
    <2>3. QED
      BY <2>1, <2>2
  <1>8. WorkerFits'
    <2>1. Main(nt') \subseteq Main(nt) /\ \A n \in Main(nt') : nt'[n].ver = nsg
      <3>1. ASSUME NEW n \in Main(nt') PROVE n \in Main(nt) /\ nt'[n].ver = nsg
        <4>1. n \in Ids /\ nt'[n].where = "main"
          BY <3>1 DEF Main
        <4>2. nt'[n] = f[n]
          BY <1>7, <4>1
        <4>3. n \in Main(nt)
          BY <1>6, <4>1, <4>2 DEF Main
        <4>4. QED
          BY <1>6, <4>1, <4>2, <4>3
      <3>2. QED
        BY <3>1
    <2>2. \A n \in Main(nt') : nsg' = nsg
      BY <1>1, <1>4
    <2>3. \A n \in Main(nt') : nt'[n].ver <= nsg'
      BY <1>2, <2>1, <2>2
    <2>4. QED
      BY <1>1, <2>1, <2>3 DEF WorkerFits, InPass
  <1>9. \A n \in Ids : NoteFits(nt'[n]) /\ RunFits(nt'[n], HasRun(n)', nsg', dirty)
    <2>1. ASSUME NEW n \in Ids PROVE NoteFits(nt'[n]) /\ RunFits(nt'[n], HasRun(n)', nsg', dirty)
      <3>1. NoteFits(nt'[n]) /\ RunFits(nt'[n], FALSE, nsg', dirty) /\ (HasRun(n)' <=> FALSE)
        BY <1>5, <1>6, <1>7
      <3>2. QED
        BY <3>1 DEF RunFits
    <2>2. QED
      BY <2>1
  <1>10. \A n \in Ids : nt'[n].ver \in Nat /\ nt'[n].ver <= latest /\ (nt[n].where # "none" => nt'[n].where # "none")
    <2>1. ASSUME NEW n \in Ids
          PROVE  nt'[n].ver \in Nat /\ nt'[n].ver <= latest /\ (nt[n].where # "none" => nt'[n].where # "none")
      <3>1. CASE nt'[n] = f[n]
        BY <1>6, <3>1
      <3>2. CASE nt'[n] # f[n]
        BY <1>2, <1>7, <3>2
      <3>3. QED
        BY <3>1, <3>2
    <2>2. QED
      BY <2>1
  <1>11. ASSUME NEW n \in Ids
         PROVE  \/ nt[n].owner = "none" /\ nt'[n].owner = "none" /\ ~nt'[n].cb
                \/ /\ nt'[n].owner = nt[n].owner /\ nt'[n].cb = nt[n].cb /\ nt'[n].plain = nt[n].plain
                   /\ nt'[n].told = nt[n].told /\ nt'[n].last = nt[n].last /\ nt'[n].out = nt[n].out
                   /\ nt[n].ran => /\ nt'[n].ran /\ nt[n].ver <= nt'[n].ver
                                   /\ nt[n].owner # "none" /\ nt[n].cb /\ nt[n].plain
                                        => nt'[n].acc = nt[n].acc \cup Since(dirty, nt[n].ver, nt'[n].ver)
    <2>1. CASE nt'[n] = f[n]
      BY <1>6, <2>1
    <2>2. CASE nt'[n] # f[n]
      BY <1>7, <2>2
    <2>3. QED
      BY <2>1, <2>2
  <1>12. QED
    BY <1>1, <1>8, <1>9, <1>10, <1>11, WorkerStep

LEMMA WorkerBeginExact == ASSUME IndInv, Exact, WorkerBegin PROVE Exact'
  <1> DEFINE f == CleanedUp(nt)
             held == IF MainEnds(nt) THEN 0 ELSE nsg
             skip == IF MainEnds(nt) THEN 0 ELSE skipV
             x(n) == [nt[n] EXCEPT !.where = "main"]
             dead(n) == nt[n].where \in {"new", "main"} /\ nt[n].owner = "none"
  <1>1. worker.pc = "idle" /\ UNCHANGED <<File, realm>> /\ \A n \in Ids : ~HasRun(n)
    BY DEF WorkerBegin, HasRun
  <1>2. /\ latest \in Nat /\ nsg \in Nat /\ nsg <= latest /\ dirty \in SUBSET Nat /\ 0 <= latest
        /\ \A n \in Ids : nt[n].ver \in Nat /\ nt[n].ver <= latest
    <2>1. /\ latest \in Nat /\ nsg \in Nat /\ nsg <= latest /\ dirty \in SUBSET Nat
          /\ \A n \in Ids : nt[n].ver \in Nat /\ nt[n].ver <= latest
      BY Values DEF IndInv, Held, VersionsExist
    <2>2. QED
      BY <2>1
  <1>3. ASSUME NEW n \in Ids
        PROVE  IF dead(n)
               THEN /\ f[n].owner = "none" /\ f[n].where = "gone" /\ f[n].ver = 0 /\ ~f[n].cb
                    /\ NoteFits(f[n]) /\ \A has, v, D : RunFits(f[n], has, v, D)
               ELSE f[n] = nt[n]
    BY CleanedUpIs
  <1>4. MainEnds(nt) => Main(f) = {}
    BY DEF MainEnds
  <1>5. /\ nt' = [n \in Ids |-> IF f[n].where = "new" THEN [f[n] EXCEPT !.where = "main"] ELSE f[n]]
        /\ \/ Main(f) \cup New(f) = {} /\ nsg' = held /\ worker'.pc = "signal"
           \/ /\ nsg' = (IF Main(f) = {} THEN latest ELSE held)
              /\ worker' = [pc |-> IF skip # 0 THEN "skipRun" ELSE "run", to |-> latest, skip |-> skip,
                            old |-> Main(f), new |-> New(f)]
    <2>1. CASE Main(f) \cup New(f) = {}
      <3>1. nt' = f /\ nsg' = held /\ worker' = [worker EXCEPT !.pc = "signal"]
        BY <2>1 DEF WorkerBegin
      <3>2. f = [n \in Ids |-> f[n]] /\ \A n \in Ids : f[n].where # "new"
        BY <2>1 DEF New, CleanedUp
      <3>3. worker'.pc = "signal"
        BY <3>1 DEF IndInv, TypeOK
      <3> HIDE DEF f, held
      <3>4. QED
        BY <2>1, <3>1, <3>2, <3>3
    <2>2. CASE Main(f) \cup New(f) # {}
      BY <2>2 DEF WorkerBegin
    <2>3. QED
      BY <2>1, <2>2
  <1>6. Main(f) \subseteq Ids /\ New(f) \subseteq Ids /\ Main(f) \cap New(f) = {}
    BY DEF Main, New
  <1> HIDE DEF f, held, skip
  <1>7. \A n \in Ids : /\ x(n).where = "main" /\ x(n).owner = nt[n].owner /\ x(n).ran = nt[n].ran
                       /\ x(n).ver = nt[n].ver /\ x(n).prev = nt[n].prev /\ x(n).calc = nt[n].calc
                       /\ x(n).bg = nt[n].bg /\ x(n).cb = nt[n].cb /\ x(n).acc = nt[n].acc
                       /\ x(n).out = nt[n].out /\ x(n).told = nt[n].told /\ x(n).skip = nt[n].skip
                       /\ x(n).last = nt[n].last /\ x(n).plain = nt[n].plain
    BY OfNote DEF Note
  <1>8. \A n \in Ids : /\ dead(n) => nt'[n] = f[n]
                       /\ ~dead(n) => nt'[n] = IF nt[n].where = "new" THEN x(n) ELSE nt[n]
    BY <1>3, <1>5
  <1>9. \A n \in Main(f) : n \in Main(nt) /\ ~dead(n) /\ nt'[n] = nt[n]
    BY <1>3, <1>6, <1>8 DEF Main
  <1>10. \A n \in New(f) : ~dead(n) /\ nt[n].where = "new" /\ nt'[n] = x(n)
    BY <1>3, <1>6, <1>8 DEF New
  <1>11. Main(nt') = Main(f) \cup New(f)
    <2>1. ASSUME NEW n \in Ids PROVE nt'[n].where = "main" <=> f[n].where \in {"new", "main"}
      <3>1. CASE dead(n)
        BY <1>3, <1>8, <3>1
      <3>2. CASE ~dead(n)
        <4>1. f[n] = nt[n] /\ nt'[n] = IF nt[n].where = "new" THEN x(n) ELSE nt[n]
          BY <1>3, <1>8, <3>2
        <4>2. x(n).where = "main"
          BY <1>7
        <4>3. QED
          BY <4>1, <4>2
      <3>3. QED
        BY <3>1, <3>2
    <2>2. QED
      BY <2>1 DEF Main, New
  <1> HIDE DEF x, dead
  <1>12. /\ \A n \in New(f) : ~nt'[n].ran
         /\ \A n \in Main(f) : nt'[n].ran => nt'[n].ver <= nsg
         /\ \A n, m \in Main(f) : nt'[n].ran /\ nt'[m].ran => nt'[n].ver = nt'[m].ver
    <2>1. \A n \in New(f) : ~nt'[n].ran
      BY <1>6, <1>7, <1>10, OfNote DEF NoteFits
    <2>2. QED
      BY <1>9, <2>1 DEF Exact, WorkerFits
  <1>13. WorkerFits' /\ \A n \in Ids : ~HasRun(n)'
    <2>1. CASE Main(f) \cup New(f) = {} /\ nsg' = held /\ worker'.pc = "signal"
      BY <1>11, <2>1 DEF WorkerFits, InPass, HasRun
    <2>2. CASE /\ nsg' = (IF Main(f) = {} THEN latest ELSE held)
               /\ worker' = [pc |-> IF skip # 0 THEN "skipRun" ELSE "run", to |-> latest, skip |-> skip,
                             old |-> Main(f), new |-> New(f)]
      <3>1. /\ worker'.old = Main(f) /\ worker'.new = New(f) /\ worker'.to = latest /\ latest' = latest
            /\ worker'.pc \in {"skipRun", "run"}
        BY <1>1, <2>2 DEF File
      <3>2. nsg' <= latest /\ (Main(f) # {} => nsg' = nsg)
        BY <1>2, <1>4, <2>2 DEF held
      <3>3. /\ \A n \in Main(nt') : nt'[n].ran => n \in Main(f) /\ nt'[n].ver <= nsg'
            /\ \A n, m \in Main(nt') : nt'[n].ran /\ nt'[m].ran => nt'[n].ver = nt'[m].ver
        <4>1. \A n \in Main(nt') : nt'[n].ran => n \in Main(f)
          BY <1>11, <1>12
        <4>2. \A n \in Main(f) : nt'[n].ran => nt'[n].ver <= nsg'
          BY <1>12, <3>2
        <4>3. QED
          BY <1>12, <4>1, <4>2
      <3>4. WorkerFits'
        BY <1>6, <1>11, <1>12, <3>1, <3>2, <3>3 DEF WorkerFits
      <3>5. QED
        BY <3>1, <3>4 DEF HasRun
    <2>3. QED
      BY <1>5, <2>1, <2>2
  <1>14. ASSUME NEW n \in Ids
         PROVE  /\ NoteFits(nt'[n]) /\ RunFits(nt'[n], HasRun(n)', nsg', dirty)
                /\ nt'[n].ver \in Nat /\ nt'[n].ver <= latest /\ (nt[n].where # "none" => nt'[n].where # "none")
                /\ \/ nt[n].owner = "none" /\ nt'[n].owner = "none" /\ ~nt'[n].cb
                   \/ /\ nt'[n].owner = nt[n].owner /\ nt'[n].cb = nt[n].cb /\ nt'[n].plain = nt[n].plain
                      /\ nt'[n].told = nt[n].told /\ nt'[n].last = nt[n].last /\ nt'[n].out = nt[n].out
                      /\ nt'[n].ran = nt[n].ran /\ nt'[n].ver = nt[n].ver /\ nt'[n].acc = nt[n].acc
    <2>1. CASE dead(n)
      <3>1. nt[n].owner = "none"
        BY <2>1 DEF dead
      <3>2. /\ nt'[n].owner = "none" /\ nt'[n].where = "gone" /\ nt'[n].ver = 0 /\ ~nt'[n].cb
            /\ NoteFits(nt'[n]) /\ \A has, v, D : RunFits(nt'[n], has, v, D)
        BY <1>3, <1>8, <2>1
      <3>3. QED
        BY <1>2, <3>1, <3>2
    <2>2. CASE ~dead(n)
      <3>1. NoteFits(nt[n]) /\ RunFits(nt[n], HasRun(n), nsg, dirty) /\ (HasRun(n) <=> FALSE) /\ (HasRun(n)' <=> FALSE)
        BY <1>1, <1>13, OfNote
      <3>2. CASE nt[n].where # "new"
        <4>1. nt'[n] = nt[n]
          BY <1>8, <2>2, <3>2
        <4>2. QED
          BY <1>2, <3>1, <4>1 DEF RunFits
      <3>3. CASE nt[n].where = "new"
        <4>1. nt'[n] = x(n)
          BY <1>8, <2>2, <3>3
        <4>2. NoteFits(x(n)) /\ RunFits(x(n), HasRun(n)', nsg', dirty)
          BY <1>7, <3>1, <3>3 DEF NoteFits, RunFits
        <4>3. QED
          BY <1>2, <1>7, <4>1, <4>2
      <3>4. QED
        BY <3>2, <3>3
    <2>3. QED
      BY <2>1, <2>2
  <1>15. \A n \in Ids : nt[n].acc = nt[n].acc \cup Since(dirty, nt[n].ver, nt[n].ver) /\ nt[n].ver <= nt[n].ver
    BY <1>2, SinceSame
  <1>16. QED
    BY <1>1, <1>13, <1>14, <1>15, WorkerStep

LEMMA InitExact == Init => Exact
  <1> SUFFICES ASSUME Init PROVE Exact
    OBVIOUS
  <1>1. \A n \in Ids : /\ nt[n].owner = "none" /\ nt[n].where = "none" /\ ~nt[n].ran /\ nt[n].bg
                       /\ nt[n].calc = {} /\ ~nt[n].told /\ ~nt[n].skip /\ ~nt[n].cb
    BY DEF Init, NoNotifier
  <1>2. \A r \in Realms : realm[r].phase = "idle" /\ ~realm[r].forW /\ realm[r].list = {} /\ realm[r].ver = 1
    BY DEF Init, IdleRealm
  <1>3. Main(nt) = {} /\ ~InPass /\ \A n \in Ids : ~HasRun(n)
    BY <1>1 DEF Main, InPass, HasRun, Init, IdleWorker
  <1>4. WorkerFits
    BY <1>3 DEF WorkerFits
  <1>5. \A n \in Ids : NoteExact(n)
    BY <1>1 DEF NoteExact, NoteFits, RunFits
  <1>6. ASSUME NEW r \in Realms PROVE RealmExact(r)
    <2>1. ListFits(r)
      BY <1>2 DEF ListFits, Delivers
    <2>2. WriteFits(r)
      BY <1>1, <1>2 DEF WriteFits
    <2>3. QED
      BY <1>1, <1>2, <2>1, <2>2 DEF RealmExact, Delivers, SettledFits
  <1>7. QED
    BY <1>4, <1>5, <1>6 DEF Exact

LEMMA StutterExact == ASSUME Exact, UNCHANGED vars PROVE Exact'
  <1>1. WorkerFits'
    BY DEF Exact, WorkerFits, InPass, Main, vars
  <1>2. \A n \in Ids : NoteExact(n)'
    BY DEF Exact, NoteExact, HasRun, vars
  <1>3. ASSUME NEW r \in Realms PROVE RealmExact(r)'
    <2>1. ListFits(r)' /\ WriteFits(r)'
      BY DEF Exact, RealmExact, ListFits, WriteFits, Delivers, Alive, vars
    <2>2. ASSUME NEW n \in Ids
          PROVE  (IF Delivers(r, n) THEN FlightFits(nt[n], realm[r], dirty)
                  ELSE nt[n].owner = r => SettledFits(nt[n], realm[r], dirty, writer = r))'
      BY DEF Exact, RealmExact, Delivers, vars
    <2>3. QED
      BY <2>1, <2>2 DEF RealmExact
  <1>4. QED
    BY <1>1, <1>2, <1>3 DEF Exact

LEMMA NextExact == IndInv /\ Exact /\ [Next]_vars => Exact'
  BY RegisterExact, AddCallbackExact, RemoveCallbackExact, UnregisterExact, SuppressNextExact, CancelWriteExact,
     ExternalCommitExact, BeginWriteExact, CommitWriteExact, WorkerBeginExact,
     WorkerSkipRunExact, WorkerSkipHandExact, WorkerRunExact, WorkerHandExact, WorkerSignalExact, RefreshExact,
     PackageAndWaitExact, NotifyExact, AdvanceExact, AfterAdvanceExact, DeliveryEndsExact, InvalidateExact,
     ReadGroupExact, StutterExact
     DEF Next, Work, Deliver

-----------------------------------------------------------------------------
(* Results                                                                  *)

(* The versions everyone holds stay in step.                                *)
THEOREM Invariance == Spec => []IndInv
  BY InitInv, NextInv, PTL DEF Spec

(* Every variable keeps its type.                                           *)
THEOREM TypeCorrect == Spec => []TypeOK
  <1>1. IndInv => TypeOK
    BY DEF IndInv
  <1>2. QED
    BY <1>1, Invariance, PTL

(* The advancer and the worker hold versions exactly while somebody needs   *)
(* them, old enough for everybody, and the worker never has to go back to a *)
(* version it is told to skip to (pin_version, clean_up_dead_notifiers,     *)
(* run_async_notifiers).                                                    *)
THEOREM WorkerAlwaysHolds == Spec => []WorkerHolds
  <1>1. IndInv => WorkerHolds
    BY DEF IndInv, Held, WorkerHolds
  <1>2. QED
    BY <1>1, Invariance, PTL

(* Collections are delivered into the version they were computed for,       *)
(* whether refresh, notify or begin_transaction delivers them.              *)
THEOREM DeliveriesFit == Spec => DeliveredAtItsVersion
  <1> DEFINE Fits(r) == (realm'[r].phase = "after" /\ realm[r].phase # "after"
                          /\ realm'[r].list # {} /\ realm'[r].ver # 0)
                        => realm'[r].ver = realm'[r].at
  <1>1. ASSUME IndInv, Next, NEW r \in Realms PROVE Fits(r)
    <2>1. realm[r] \in Thread /\ realm \in [Realms -> Thread]
      BY <1>1, Types DEF IndInv
    <2> SUFFICES ASSUME realm'[r].phase = "after", realm[r].phase # "after", realm'[r].list # {}, realm'[r].ver # 0
                 PROVE  realm'[r].ver = realm'[r].at
      OBVIOUS
    <2>2. ASSUME NEW s \in Realms, NEW x, realm' = [realm EXCEPT ![s] = x] PROVE s = r /\ realm'[r] = x
      BY <2>1, <2>2
    <2>3. CASE UNCHANGED realm
      BY <2>3
    <2>4. CASE WorkerSignal
      BY <2>1, <2>4 DEF WorkerSignal, Thread
    <2>5. ASSUME NEW s \in Realms, \/ BeginWrite(s) \/ \E touch \in BOOLEAN : CommitWrite(s, touch) \/ WriteWhileSending(s, touch)
                                   \/ Invalidate(s) \/ ReadGroup(s)
          PROVE  FALSE
      <3>1. ASSUME NEW v PROVE realm' # [realm EXCEPT ![s].ver = v]
        <4> DEFINE x == [realm[s] EXCEPT !.ver = v]
        <4> SUFFICES ASSUME realm' = [realm EXCEPT ![s] = x] PROVE FALSE
          OBVIOUS
        <4>1. s = r /\ realm'[r] = x
          BY <2>2
        <4>2. x.phase = realm[r].phase
          BY <4>1, <2>1 DEF Thread
        <4> HIDE DEF x
        <4>3. QED
          BY <4>1, <4>2
      <3>2. \A v : realm' # [realm EXCEPT ![s].ver = v]
        BY <3>1
      <3>3. BeginWrite(s) => realm' = [realm EXCEPT ![s] = [realm[s] EXCEPT !.ver = IF realm[s].ver = 0 THEN latest ELSE realm[s].ver,
                                !.phase = "wait", !.forW = TRUE, !.target = latest, !.list = Of(s)]]
        BY <3>2 DEF BeginWrite
      <3>4. ~BeginWrite(s)
        <4> DEFINE x == [realm[s] EXCEPT !.ver = IF realm[s].ver = 0 THEN latest ELSE realm[s].ver,
                                         !.phase = "wait", !.forW = TRUE, !.target = latest, !.list = Of(s)]
        <4> SUFFICES ASSUME realm' = [realm EXCEPT ![s] = x] PROVE FALSE
          BY <3>3
        <4>1. s = r /\ realm'[r] = x
          BY <2>2
        <4>2. x.phase = "wait"
          BY <4>1, <2>1 DEF Thread
        <4> HIDE DEF x
        <4>3. QED
          BY <4>1, <4>2
      <3>5. QED
        BY <2>5, <3>2, <3>4 DEF CommitWrite, WriteWhileSending, Invalidate, ReadGroup
    <2>6. ASSUME NEW s \in Realms, Refresh(s) PROVE realm'[r].ver = realm'[r].at
      <3> DEFINE these == {n \in Packaged(Of(s)) : nt[n].ver = latest}
                 x == [realm[s] EXCEPT !.phase = "wait", !.target = latest, !.list = Of(s)]
                 y == [realm[s] EXCEPT !.ver = latest, !.phase = "after", !.list = these, !.at = latest]
      <3>1. realm' = [realm EXCEPT ![s] = x] \/ realm' = [realm EXCEPT ![s] = y]
        BY <2>6 DEF Refresh
      <3>2. s = r
        BY <2>2, <3>1
      <3>3. x.phase = "wait" /\ y.ver = latest /\ y.at = latest
        BY <2>1, <3>2 DEF Thread
      <3> HIDE DEF x, y
      <3>4. QED
        BY <2>2, <3>1, <3>3
    <2>7. ASSUME NEW s \in Realms, PackageAndWait(s) PROVE FALSE
      <3> DEFINE x(at) == [realm[s] EXCEPT !.phase = "advance", !.target = 0,
                                          !.list = IF at < realm[s].target THEN {} ELSE Packaged(realm[s].list),
                                          !.at = IF at < realm[s].target THEN 0 ELSE at]
      <3>1. PICK at : realm' = [realm EXCEPT ![s] = x(at)]
        BY <2>7 DEF PackageAndWait
      <3>2. s = r /\ realm'[r] = x(at)
        BY <2>2, <3>1
      <3>3. x(at).phase = "advance"
        BY <2>1, <3>2 DEF Thread
      <3> HIDE DEF x
      <3>4. QED
        BY <3>2, <3>3
    <2>8. ASSUME NEW s \in Realms, Notify(s) PROVE realm'[r].ver = realm'[r].at
      <3> DEFINE quiet == [realm[s] EXCEPT !.signal = FALSE]
                 ver == realm[s].ver
                 same == {n \in Packaged(Of(s)) : ver = 0 \/ nt[n].ver = ver}
                 these == Packaged(Of(s))
                 a(l, at) == [quiet EXCEPT !.phase = "after", !.list = l, !.at = at]
                 b(l, at) == [quiet EXCEPT !.phase = "advance", !.list = l, !.at = at]
      <3>1. \/ realm' = [realm EXCEPT ![s] = quiet]
            \/ \E at \in IF same = {} THEN {ver} ELSE VersionsOf(same) : realm' = [realm EXCEPT ![s] = a(same, at)]
            \/ \E at : \/ realm' = [realm EXCEPT ![s] = quiet]
                       \/ at = ver /\ realm' = [realm EXCEPT ![s] = a(these, at)]
                       \/ realm' = [realm EXCEPT ![s] = b(these, at)]
        <4>1. CASE writer = s
          BY <2>8, <4>1 DEF Notify
        <4>2. CASE writer # s /\ (ver = 0 \/ ver = latest)
          BY <2>8, <4>2 DEF Notify
        <4>3. CASE writer # s /\ ver # 0 /\ ver # latest
          <5> DEFINE x(at) == CASE at # 0 /\ at < ver -> quiet [] at = ver -> a(these, at) [] OTHER -> b(these, at)
          <5>1. PICK at : realm' = [realm EXCEPT ![s] = x(at)]
            BY <2>8, <4>3 DEF Notify
          <5>2. x(at) = quiet \/ (at = ver /\ x(at) = a(these, at)) \/ x(at) = b(these, at)
            OBVIOUS
          <5> HIDE DEF x, a, b, quiet
          <5>3. QED
            BY <5>1, <5>2
        <4>4. QED
          BY <4>1, <4>2, <4>3
      <3>2. s = r
        <4> HIDE DEF quiet, a, b
        <4>1. QED
          BY <2>2, <3>1
      <3>3. quiet.phase = realm[r].phase /\ \A l, at : /\ a(l, at).ver = ver /\ a(l, at).at = at /\ a(l, at).list = l
                                                       /\ b(l, at).phase = "advance"
        BY <2>1, <3>2 DEF Thread
      <3> HIDE DEF quiet, a, b
      <3>4. ASSUME NEW at, at \in IF same = {} THEN {ver} ELSE VersionsOf(same), ver # 0 PROVE at = ver
        BY <3>4 DEF VersionsOf
      <3> HIDE DEF same, these, ver
      <3>5. CASE \E at \in IF same = {} THEN {ver} ELSE VersionsOf(same) : realm' = [realm EXCEPT ![s] = a(same, at)]
        <4>1. PICK at \in IF same = {} THEN {ver} ELSE VersionsOf(same) : realm' = [realm EXCEPT ![s] = a(same, at)]
          BY <3>5
        <4>2. realm'[r] = a(same, at)
          BY <2>2, <4>1
        <4>3. QED
          BY <3>3, <3>4, <4>2
      <3>6. QED
        BY <2>2, <3>1, <3>3, <3>5
    <2>9. ASSUME NEW s \in Realms, Advance(s) PROVE realm'[r].ver = realm'[r].at
      <3> DEFINE v == IF realm[s].at # 0 /\ ~realm[s].forW THEN realm[s].at ELSE latest
                 x == [realm[s] EXCEPT !.phase = "after", !.ver = v]
      <3>1. realm' = [realm EXCEPT ![s] = x]
        BY <2>9 DEF Advance
      <3>2. s = r /\ realm'[r] = x
        BY <2>2, <3>1
      <3> HIDE DEF v
      <3>3. x.ver = v /\ x.at = realm[r].at /\ x.list = realm[r].list
        BY <2>1, <3>2 DEF Thread
      <3>4. realm[r].at # 0 /\ (realm[r].forW => realm[r].at = latest)
        BY <1>1, <2>9, <3>2, <3>3 DEF Advance, IndInv, RealmsFit, RealmFits
      <3>5. v = realm[r].at
        BY <3>2, <3>4 DEF v
      <3>6. QED
        BY <3>2, <3>3, <3>5
    <2>10. ASSUME NEW s \in Realms, DeliveryEnds(s) \/ \E n \in Ids, u \in BOOLEAN : AfterAdvance(s, n, u) PROVE FALSE
      <3> DEFINE x == [realm[s] EXCEPT !.phase = "idle", !.forW = FALSE, !.at = 0]
                 y(n) == [realm[s] EXCEPT !.list = realm[s].list \ {n}]
      <3>1. realm[s].phase = "after"
        BY <2>10 DEF DeliveryEnds, AfterAdvance
      <3>2. (\E n \in Ids : realm' = [realm EXCEPT ![s] = y(n)]) \/ realm' = [realm EXCEPT ![s] = x]
        BY <2>10, Zenon DEF DeliveryEnds, AfterAdvance
      <3> HIDE DEF x, y
      <3>3. QED
        BY <2>2, <3>1, <3>2
    <2>11. QED
      BY <1>1, <2>3, <2>4, <2>5, <2>6, <2>7, <2>8, <2>9, <2>10
      DEF Next, Work, Deliver, WorkerBegin, WorkerSkipRun, WorkerSkipHand, WorkerRun, WorkerHand, RemoveCallback,
          Unregister, ExternalCommit, Register, AddCallback, SuppressNext, CancelWrite
  <1>2. IndInv /\ [Next]_vars => [\A r \in Realms : Fits(r)]_vars
    BY <1>1
  <1>3. QED
    BY <1>2, Invariance, PTL DEF Spec, DeliveredAtItsVersion

(* What is computed, accumulated, packaged and told of every callback adds  *)
(* up: Exact is an invariant, with the versions everyone holds.             *)
THEOREM ExactInvariance == Spec => []Exact
  BY InitInv, NextInv, InitExact, NextExact, PTL DEF Spec

(* What a callback is told is exactly what happened between the version it  *)
(* was last told about and the version it is told about now.                *)
THEOREM ToldExactly == Spec => NotifiedExactly
  <1> DEFINE Tells(r, n) == ((\E u \in BOOLEAN : AfterAdvance(r, n, u)) /\ Called(n) /\ nt[n].told /\ nt[n].plain)
                              => nt[n].out = Between(nt[n].last, realm[r].at)
  <1>1. ASSUME IndInv, Exact, NEW r \in Realms, NEW n \in Ids PROVE Tells(r, n)
    <2> SUFFICES ASSUME NEW u \in BOOLEAN, AfterAdvance(r, n, u), Called(n), nt[n].told, nt[n].plain
                 PROVE  nt[n].out = Between(nt[n].last, realm[r].at)
      OBVIOUS
    <2>1. Delivers(r, n) /\ nt[n].cb
      BY DEF AfterAdvance, Called, Delivers
    <2>2. FlightFits(nt[n], realm[r], dirty)
      BY <1>1, <2>1, OfNote
    <2>3. nt[n].out = Since(dirty, nt[n].last, realm[r].at)
      BY <2>1, <2>2 DEF FlightFits
    <2>4. QED
      BY <2>3, BetweenIs
  <1>2. IndInv /\ Exact /\ [Next]_vars => [\A r \in Realms, n \in Ids : Tells(r, n)]_vars
    BY <1>1
  <1>3. QED
    BY <1>2, Invariance, ExactInvariance, PTL DEF Spec, NotifiedExactly

=============================================================================
