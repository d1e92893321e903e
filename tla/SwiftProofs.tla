---------------------------- MODULE SwiftProofs -----------------------------
(***************************************************************************)
(* Proofs about what the application is built from.  MJSwiftCore: content  *)
(* and closures of a Future meet, for any number of threads, and a         *)
(* ContainerViewController shows what it contains, for any set of          *)
(* controllers.  RequestLifecycle: what one request of Network keeps over  *)
(* its attempts, for any number of retriers and of retries, with an Accept *)
(* header or without, and however the four threads interleave.             *)
(***************************************************************************)
EXTENDS FutureCell, ContainerScreen, RequestLifecycle, TLAPS

-------------------------------------------------------------------------------
(* Future.                                                                  *)
Elems(s) == {s[i] : i \in 1..Len(s)}

Apart(s) == \A i, j \in 1..Len(s) : s[i].to = s[j].to => i = j

(* What was delivered or is on its way.                                     *)
Delivered == Elems(deliveries) \cup Elems(async)

Once ==
  /\ Apart(deliveries) /\ Apart(async)
  /\ \A d \in Elems(deliveries), e \in Elems(async) : d.to # e.to

(* The setters past the onSet closure know that it was called.              *)
Armed ==
  /\ ~onContentSet => onSetCalled
  /\ \A p \in Setters : pc[p] \in {"disarm", "lock"} => onSetCalled

(* What the future holds, and what was delivered, is of calls that are over; *)
(* a closure that was given a content is attached no more.                   *)
Held ==
  /\ success # None => content = None /\ pc[success] = "done"
  /\ content # None => onSetCalled /\ pc[content] = "done"

Told ==
  \A d \in Delivered : /\ onSetCalled /\ pc[d.content] = "done"
                       /\ pc[d.to] = "done" /\ d.to # success

CellInv == FutureTypeOK /\ Once /\ Armed /\ Held /\ Told

-------------------------------------------------------------------------------
LEMMA ElemsAppend ==
  ASSUME NEW S, NEW s \in Seq(S), NEW d \in S
  PROVE  /\ Append(s, d) \in Seq(S) /\ Elems(Append(s, d)) = Elems(s) \cup {d}
         /\ Apart(s) /\ (\A e \in Elems(s) : e.to # d.to) => Apart(Append(s, d))
<1> DEFINE t == Append(s, d)
<1>1. /\ t \in Seq(S) /\ Len(s) \in Nat /\ Len(t) = Len(s) + 1 /\ t[Len(s) + 1] = d
      /\ \A i \in 1..Len(s) : t[i] = s[i]
  OBVIOUS
<1> HIDE DEF t
<1>2. 1..Len(t) = 1..Len(s) \cup {Len(s) + 1}
  BY <1>1
<1>3. Elems(t) = Elems(s) \cup {d}
  BY <1>1, <1>2 DEF Elems
<1>4. ASSUME Apart(s), \A e \in Elems(s) : e.to # d.to, NEW i \in 1..Len(t), NEW j \in 1..Len(t), t[i].to = t[j].to
      PROVE  i = j
  <2>1. CASE i \in 1..Len(s) /\ j \in 1..Len(s)
    BY <1>1, <1>4, <2>1 DEF Apart
  <2>2. \A k \in 1..Len(s) : t[k].to # t[Len(s) + 1].to
    BY <1>1, <1>4 DEF Elems
  <2>3. QED
    BY <1>2, <1>4, <2>1, <2>2
<1>5. QED
  BY <1>1, <1>3, <1>4 DEF t, Apart

LEMMA ElemsTail ==
  ASSUME NEW S, NEW s \in Seq(S), s # <<>>
  PROVE  /\ Head(s) \in S /\ Tail(s) \in Seq(S) /\ Elems(s) = Elems(Tail(s)) \cup {Head(s)}
         /\ Apart(s) => Apart(Tail(s)) /\ \A e \in Elems(Tail(s)) : e.to # Head(s).to
<1> DEFINE t == Tail(s)
<1>1. /\ t \in Seq(S) /\ Len(s) \in Nat /\ Len(s) # 0 /\ Len(t) = Len(s) - 1 /\ Head(s) = s[1] /\ Head(s) \in S
      /\ \A i \in 1..Len(t) : t[i] = s[i + 1]
  OBVIOUS
<1> HIDE DEF t
<1>2. ASSUME NEW i \in 1..Len(s), i # 1 PROVE i - 1 \in 1..Len(t) /\ s[i] = t[i - 1]
  BY <1>1, <1>2
<1>3. ASSUME NEW i \in 1..Len(t) PROVE i + 1 \in 1..Len(s) /\ i + 1 # 1 /\ t[i] = s[i + 1]
  BY <1>1
<1>4. 1 \in 1..Len(s)
  BY <1>1
<1>5. Elems(s) = Elems(t) \cup {s[1]}
  <2>1. ASSUME NEW e \in Elems(s) PROVE e \in Elems(t) \cup {s[1]}
    <3>1. PICK i \in 1..Len(s) : e = s[i]
      BY <2>1 DEF Elems
    <3>2. QED
      BY <1>2, <3>1 DEF Elems
  <2>2. ASSUME NEW e \in Elems(t) PROVE e \in Elems(s)
    <3>1. PICK i \in 1..Len(t) : e = t[i]
      BY <2>2 DEF Elems
    <3>2. QED
      BY <1>3, <3>1 DEF Elems
  <2>3. s[1] \in Elems(s)
    BY <1>4 DEF Elems
  <2>4. QED
    BY <2>1, <2>2, <2>3
<1>6. ASSUME Apart(s), NEW e \in Elems(t) PROVE e.to # s[1].to
  <2>1. PICK i \in 1..Len(t) : e = t[i]
    BY <1>6 DEF Elems
  <2>2. QED
    BY <1>3, <1>4, <1>6, <2>1 DEF Apart
<1>7. ASSUME Apart(s), NEW i \in 1..Len(t), NEW j \in 1..Len(t), t[i].to = t[j].to PROVE i = j
  <2>1. i + 1 = j + 1
    BY <1>3, <1>7 DEF Apart
  <2>2. QED
    BY <1>1, <2>1
<1>8. Apart(s) => Apart(t)
  BY <1>7 DEF Apart
<1>9. QED
  BY <1>1, <1>5, <1>6, <1>8 DEF t

LEMMA DeliveredTo ==
  ASSUME FutureTypeOK, NEW e \in Delivered
  PROVE  e \in Deliveries /\ e.to \in Threads /\ e.content \in Threads /\ e.to # None
<1>1. PICK s \in {deliveries, async} : e \in Elems(s)
  BY DEF Delivered
<1>2. PICK i \in 1..Len(s) : e = s[i]
  BY <1>1 DEF Elems
<1>3. s \in Seq(Deliveries)
  BY <1>1 DEF FutureTypeOK
<1>4. e \in Deliveries
  BY <1>2, <1>3
<1>5. e.to \in Resolvers \cup Waiters /\ e.content \in Setters
  BY <1>4 DEF Deliveries
<1>6. QED
  BY <1>4, <1>5, NoneAssumption DEF Threads

(* A delivery to someone new keeps everyone apart.                          *)
LEMMA DeliverInv ==
  ASSUME FutureTypeOK, Once, NEW d \in Deliveries, Deliver(d), \A e \in Delivered : e.to # d.to
  PROVE  /\ async' \in Seq(Deliveries) /\ deliveries' \in Seq(Deliveries)
         /\ Once' /\ Delivered' = Delivered \cup {d}
<1>1. async \in Seq(Deliveries) /\ deliveries \in Seq(Deliveries)
  BY DEF FutureTypeOK
<1>2. CASE async' = Append(async, d) /\ deliveries' = deliveries
  <2>1. /\ async' \in Seq(Deliveries) /\ Elems(async') = Elems(async) \cup {d} /\ Apart(async')
    BY <1>1, <1>2, ElemsAppend DEF Delivered, Once
  <2>2. QED
    BY <1>1, <1>2, <2>1 DEF Delivered, Once
<1>3. CASE deliveries' = Append(deliveries, d) /\ async' = async
  <2>1. /\ deliveries' \in Seq(Deliveries) /\ Elems(deliveries') = Elems(deliveries) \cup {d} /\ Apart(deliveries')
    BY <1>1, <1>3, ElemsAppend DEF Delivered, Once
  <2>2. QED
    BY <1>1, <1>3, <2>1 DEF Delivered, Once
<1>4. QED
  BY <1>2, <1>3 DEF Deliver

LEMMA FutureInitInv == FutureInit => CellInv
<1> SUFFICES ASSUME FutureInit PROVE CellInv
  OBVIOUS
<1>1. FutureTypeOK
  <2>1. /\ pc \in [Threads -> {"start", "onSet", "disarm", "lock", "create", "wait", "take",
                             "done", "fatalError"}]
        /\ state \in States /\ queue \in {None, "main", "other"}
    BY DEF FutureInit, States
  <2>2. /\ content \in Setters \cup {None} /\ success \in Resolvers \cup {None}
        /\ semaphore \in Waiters \cup {None} /\ signalled \in SUBSET Waiters
    BY DEF FutureInit
  <2>3. onContentSet \in BOOLEAN /\ onSetCalled \in BOOLEAN
    BY DEF FutureInit
  <2>4. async \in Seq(Deliveries) /\ deliveries \in Seq(Deliveries)
    BY DEF FutureInit
  <2>5. QED
    BY <2>1, <2>2, <2>3, <2>4, Zenon DEF FutureTypeOK
<1>2. Elems(deliveries) = {} /\ Elems(async) = {} /\ Apart(deliveries) /\ Apart(async)
  BY DEF FutureInit, Elems, Apart
<1>3. Once /\ Told
  BY <1>2 DEF Once, Told, Delivered
<1>4. Armed /\ Held
  BY DEF FutureInit, Armed, Held, Threads
<1>5. QED
  BY <1>1, <1>3, <1>4 DEF CellInv

(* The queue runs its first closure: what is delivered stays the same.      *)
LEMMA RunAsyncInv == ASSUME CellInv, RunAsync PROVE CellInv'
<1> DEFINE h == Head(async)
           t == Tail(async)
<1>1. async \in Seq(Deliveries) /\ deliveries \in Seq(Deliveries) /\ async # <<>>
  BY DEF CellInv, FutureTypeOK, RunAsync
<1>2. /\ h \in Deliveries /\ t \in Seq(Deliveries) /\ Elems(async) = Elems(t) \cup {h}
      /\ Apart(t) /\ \A e \in Elems(t) : e.to # h.to
  BY <1>1, ElemsTail DEF CellInv, Once
<1>3. async' = t /\ deliveries' = Append(deliveries, h)
  BY DEF RunAsync
<1> HIDE DEF h, t
<1>4. \A e \in Elems(deliveries) : e.to # h.to
  BY <1>2 DEF CellInv, Once
<1>5. deliveries' \in Seq(Deliveries) /\ Elems(deliveries') = Elems(deliveries) \cup {h} /\ Apart(deliveries')
  BY <1>1, <1>2, <1>3, <1>4, ElemsAppend DEF CellInv, Once
<1>6. Once' /\ Delivered' = Delivered
  BY <1>2, <1>3, <1>5 DEF CellInv, Once, Delivered
<1>7. FutureTypeOK'
  BY <1>2, <1>3, <1>5 DEF CellInv, FutureTypeOK, RunAsync
<1>8. QED
  BY <1>6, <1>7 DEF CellInv, Armed, Held, Told, RunAsync

(* A call that goes on keeps what is over.                                  *)
LEMMA GoKeeps ==
  ASSUME FutureTypeOK, NEW p \in Threads, NEW from, from # "done", NEW to, Go(p, from, to)
  PROVE  /\ \A q \in Threads : pc[q] = "done" => pc'[q] = "done"
         /\ \A q \in Threads \ {p} : pc'[q] = pc[q]
         /\ pc[p] = from /\ pc'[p] = to
  BY DEF FutureTypeOK, Go

(* A step that delivers nothing and leaves the closure attached, or none.   *)
LEMMA ToldStays ==
  ASSUME CellInv, UNCHANGED <<async, deliveries>>, success' \in {success, None}, onSetCalled => onSetCalled',
         \A q \in Threads : pc[q] = "done" => pc'[q] = "done"
  PROVE  Once' /\ Told' /\ (content' = content => (content # None => onSetCalled' /\ pc'[content] = "done"))
                /\ (success' # None => pc'[success'] = "done")
<1>1. Elems(deliveries') = Elems(deliveries) /\ Elems(async') = Elems(async) /\ Once'
  BY DEF CellInv, Once
<1>2. Delivered' = Delivered
  BY <1>1 DEF Delivered
<1>3. \A d \in Delivered : d.to \in Threads /\ d.content \in Threads /\ d.to # None
  BY DeliveredTo DEF CellInv
<1>4. Told'
  BY <1>2, <1>3 DEF CellInv, Told
<1>5. (success # None => success \in Threads) /\ (content # None => content \in Threads)
  BY DEF CellInv, FutureTypeOK, Threads
<1>6. QED
  BY <1>1, <1>4, <1>5 DEF CellInv, Held

LEMMA SetCheckInv == ASSUME CellInv, NEW p \in Setters, SetCheck(p) PROVE CellInv'
<1>1. PICK to \in {"done", "onSet"} : Go(p, "start", to)
  BY DEF SetCheck
<1>2. /\ \A q \in Threads : pc[q] = "done" => pc'[q] = "done"
      /\ \A q \in Threads \ {p} : pc'[q] = pc[q]
      /\ pc[p] = "start" /\ pc'[p] \in {"done", "onSet"} /\ p \in Threads
  BY <1>1, GoKeeps DEF CellInv, Threads
<1>3. FutureTypeOK'
  BY <1>1 DEF CellInv, FutureTypeOK, SetCheck, Go
<1>4. Once' /\ Told' /\ Held'
  BY <1>2, ToldStays DEF CellInv, SetCheck, Held
<1>5. Armed'
  BY <1>2 DEF CellInv, SetCheck, Armed, Threads
<1>6. QED
  BY <1>3, <1>4, <1>5 DEF CellInv

LEMMA SetOnContentSetInv == ASSUME CellInv, NEW p \in Setters, SetOnContentSet(p) PROVE CellInv'
<1>1. PICK to \in {"disarm", "lock"} : Go(p, "onSet", to)
  BY DEF SetOnContentSet
<1>2. /\ \A q \in Threads : pc[q] = "done" => pc'[q] = "done"
      /\ \A q \in Threads \ {p} : pc'[q] = pc[q]
  BY <1>1, GoKeeps DEF CellInv, Threads
<1>3. onSetCalled' = TRUE /\ onContentSet' = onContentSet
  BY DEF CellInv, Armed, SetOnContentSet, FutureTypeOK
<1>4. FutureTypeOK'
  BY <1>1, <1>3 DEF CellInv, FutureTypeOK, SetOnContentSet, Go
<1>5. Once' /\ Told' /\ Held'
  BY <1>2, <1>3, ToldStays DEF CellInv, SetOnContentSet, Held
<1>6. Armed'
  BY <1>3 DEF Armed
<1>7. QED
  BY <1>4, <1>5, <1>6 DEF CellInv

LEMMA SetDisarmInv == ASSUME CellInv, NEW p \in Setters, SetDisarm(p) PROVE CellInv'
<1>1. Go(p, "disarm", "lock")
  BY DEF SetDisarm
<1>2. /\ \A q \in Threads : pc[q] = "done" => pc'[q] = "done"
      /\ \A q \in Threads \ {p} : pc'[q] = pc[q]
      /\ pc[p] = "disarm" /\ p \in Threads
  BY <1>1, GoKeeps DEF CellInv, Threads
<1>3. FutureTypeOK'
  BY <1>1 DEF CellInv, FutureTypeOK, SetDisarm, Go
<1>4. Once' /\ Told' /\ Held'
  BY <1>2, ToldStays DEF CellInv, SetDisarm, Held
<1>5. Armed'
  BY <1>2 DEF CellInv, SetDisarm, Armed, Threads
<1>6. QED
  BY <1>3, <1>4, <1>5 DEF CellInv

(* The content meets a closure or is kept, as no closure is attached then.  *)
LEMMA SetLockedInv == ASSUME CellInv, NEW p \in Setters, SetLocked(p) PROVE CellInv'
<1> DEFINE d == [to |-> success, content |-> p]
<1>1. Go(p, "lock", "done") /\ content' = p /\ UNCHANGED <<queue, onContentSet, onSetCalled, semaphore>>
  BY DEF SetLocked
<1>2. /\ \A q \in Threads : pc[q] = "done" => pc'[q] = "done"
      /\ \A q \in Threads \ {p} : pc'[q] = pc[q]
      /\ pc[p] = "lock" /\ pc'[p] = "done" /\ p \in Threads /\ p # None
  BY <1>1, GoKeeps, NoneAssumption DEF CellInv, Threads
<1>3. onSetCalled /\ onSetCalled'
  BY <1>1, <1>2 DEF CellInv, Armed
<1>4. Armed'
  BY <1>3 DEF Armed
<1>5. /\ pc' \in [Threads -> {"start", "onSet", "disarm", "lock", "create", "wait", "take", "done", "fatalError"}]
      /\ content' \in Setters \cup {None} /\ queue' \in {None, "main", "other"}
      /\ semaphore' \in Waiters \cup {None}
  BY <1>1 DEF CellInv, FutureTypeOK, Go
<1>6. onContentSet' \in BOOLEAN /\ onSetCalled' \in BOOLEAN
  BY <1>1 DEF CellInv, FutureTypeOK
<1>7. CASE success # None
  <2>1. Send(success, p) /\ state' = "sent" /\ signalled' = signalled
    BY <1>7 DEF SetLocked
  <2>2. success \in Resolvers /\ success \in Threads /\ d \in Deliveries /\ pc[success] = "done" /\ success' = None
    BY <1>7, <2>1 DEF CellInv, FutureTypeOK, Held, Send, Threads, Deliveries
  <2>3. /\ async' \in Seq(Deliveries) /\ deliveries' \in Seq(Deliveries)
        /\ Once' /\ Delivered' = Delivered \cup {d}
    BY <2>1, <2>2, DeliverInv DEF CellInv, Told, Send
  <2>4. FutureTypeOK'
    BY <1>5, <1>6, <2>1, <2>2, <2>3 DEF CellInv, FutureTypeOK, States
  <2>5. Told'
    <3>1. ASSUME NEW e \in Delivered' PROVE pc'[e.content] = "done" /\ pc'[e.to] = "done" /\ e.to # None
      <4>1. CASE e = d
        BY <1>2, <2>2, <4>1, NoneAssumption
      <4>2. CASE e \in Delivered
        <5>1. e.to \in Threads /\ e.content \in Threads /\ e.to # None
          BY <4>2, DeliveredTo DEF CellInv
        <5>2. QED
          BY <1>2, <4>2, <5>1 DEF CellInv, Told
      <4>3. QED
        BY <2>3, <3>1, <4>1, <4>2
    <3>2. QED
      BY <1>3, <2>2, <3>1 DEF Told
  <2>6. Held'
    BY <1>1, <1>2, <1>3, <2>2 DEF Held
  <2>7. QED
    BY <1>4, <2>3, <2>4, <2>5, <2>6 DEF CellInv
<1>8. CASE success = None
  <2>1. state' = "waitingThen" /\ Signal(semaphore) /\ UNCHANGED <<success, async, deliveries>>
    BY <1>8 DEF SetLocked
  <2>2. signalled' \in SUBSET Waiters
    BY <2>1 DEF CellInv, FutureTypeOK, Signal
  <2>3. FutureTypeOK'
    BY <1>5, <1>6, <2>1, <2>2 DEF CellInv, FutureTypeOK, States
  <2>4. Once' /\ Told'
    BY <1>1, <1>2, <2>1, ToldStays
  <2>5. Held'
    BY <1>1, <1>2, <1>3, <1>8, <2>1 DEF Held
  <2>6. QED
    BY <1>4, <2>3, <2>4, <2>5 DEF CellInv
<1>9. QED
  BY <1>7, <1>8

(* Resolvers are no setters: they owe nothing to the onSet closure.         *)
LEMMA ResolveCheckInv == ASSUME CellInv, NEW p \in Resolvers, ResolveCheck(p) PROVE CellInv'
<1>1. PICK to \in {"fatalError", "lock"} : Go(p, "start", to)
  BY DEF ResolveCheck
<1>2. /\ \A q \in Threads : pc[q] = "done" => pc'[q] = "done"
      /\ \A q \in Threads \ {p} : pc'[q] = pc[q]
  BY <1>1, GoKeeps DEF CellInv, Threads
<1>3. FutureTypeOK'
  BY <1>1 DEF CellInv, FutureTypeOK, ResolveCheck, Go
<1>4. Once' /\ Told' /\ Held'
  BY <1>2, ToldStays DEF CellInv, ResolveCheck, Held
<1>5. Armed'
  BY <1>2, RolesAssumption DEF CellInv, ResolveCheck, Armed, Threads
<1>6. QED
  BY <1>3, <1>4, <1>5 DEF CellInv

LEMMA ResolveLockedInv == ASSUME CellInv, NEW p \in Resolvers, ResolveLocked(p) PROVE CellInv'
<1> DEFINE d == [to |-> p, content |-> content]
<1>1. Go(p, "lock", "done") /\ UNCHANGED <<content, queue, onContentSet, onSetCalled, semaphore, signalled>>
  BY DEF ResolveLocked
<1>2. /\ \A q \in Threads : pc[q] = "done" => pc'[q] = "done"
      /\ \A q \in Threads \ {p} : pc'[q] = pc[q]
      /\ pc[p] = "lock" /\ pc'[p] = "done" /\ p \in Threads /\ p # None
  BY <1>1, GoKeeps, NoneAssumption DEF CellInv, Threads
<1>3. Armed'
  BY <1>1, <1>2, RolesAssumption DEF CellInv, Armed, Threads
<1>4. /\ pc' \in [Threads -> {"start", "onSet", "disarm", "lock", "create", "wait", "take", "done", "fatalError"}]
      /\ content' \in Setters \cup {None} /\ queue' \in {None, "main", "other"}
      /\ semaphore' \in Waiters \cup {None} /\ signalled' \in SUBSET Waiters
  BY <1>1 DEF CellInv, FutureTypeOK, Go
<1>5. onContentSet' \in BOOLEAN /\ onSetCalled' \in BOOLEAN
  BY <1>1 DEF CellInv, FutureTypeOK
<1>6. \A e \in Delivered : e.to \in Threads /\ e.content \in Threads /\ e.to # None /\ pc[e.to] = "done"
  BY DeliveredTo DEF CellInv, Told
<1>7. CASE content # None
  <2>1. Send(p, content) /\ state' = "sent"
    BY <1>7 DEF ResolveLocked
  <2>2. /\ content \in Setters /\ content \in Threads /\ d \in Deliveries /\ success' = None
        /\ pc[content] = "done" /\ onSetCalled
    BY <1>7, <2>1 DEF CellInv, FutureTypeOK, Held, Send, Threads, Deliveries
  <2>3. /\ async' \in Seq(Deliveries) /\ deliveries' \in Seq(Deliveries)
        /\ Once' /\ Delivered' = Delivered \cup {d}
    BY <1>2, <1>6, <2>1, <2>2, DeliverInv DEF CellInv, Send
  <2>4. FutureTypeOK'
    BY <1>4, <1>5, <2>1, <2>2, <2>3 DEF CellInv, FutureTypeOK, States
  <2>5. Told'
    <3>1. ASSUME NEW e \in Delivered' PROVE pc'[e.content] = "done" /\ pc'[e.to] = "done" /\ e.to # None
      <4>1. CASE e = d
        BY <1>2, <2>2, <4>1
      <4>2. CASE e \in Delivered
        BY <1>2, <1>6, <4>2 DEF CellInv, Told
      <4>3. QED
        BY <2>3, <3>1, <4>1, <4>2
    <3>2. QED
      BY <1>1, <2>2, <3>1 DEF Told
  <2>6. Held'
    BY <1>1, <1>2, <2>2 DEF Held
  <2>7. QED
    BY <1>3, <2>3, <2>4, <2>5, <2>6 DEF CellInv
<1>8. CASE content = None
  <2>1. success' = p /\ state' = "waitingContent" /\ UNCHANGED <<async, deliveries>>
    BY <1>8 DEF ResolveLocked
  <2>2. FutureTypeOK'
    BY <1>4, <1>5, <2>1 DEF CellInv, FutureTypeOK, States
  <2>3. Once' /\ Delivered' = Delivered
    BY <2>1 DEF CellInv, Once, Delivered
  <2>4. Told'
    BY <1>1, <1>2, <1>6, <2>1, <2>3 DEF CellInv, Told
  <2>5. Held'
    BY <1>1, <1>2, <1>8, <2>1 DEF Held
  <2>6. QED
    BY <1>3, <2>2, <2>3, <2>4, <2>5 DEF CellInv
<1>9. QED
  BY <1>7, <1>8

LEMMA ResultLookInv == ASSUME CellInv, NEW p \in Waiters, ResultLook(p) PROVE CellInv'
<1>1. PICK from \in {"start", "create", "wait"}, to \in {"start", "create", "wait", "take", "fatalError"} :
        Go(p, from, to)
  BY DEF ResultLook
<1>2. /\ \A q \in Threads : pc[q] = "done" => pc'[q] = "done"
      /\ \A q \in Threads \ {p} : pc'[q] = pc[q]
      /\ p \in Threads /\ pc'[p] \notin {"disarm", "lock"}
  BY <1>1, GoKeeps DEF CellInv, Threads
<1>3. FutureTypeOK'
  BY <1>1 DEF CellInv, FutureTypeOK, ResultLook, Go
<1>4. Once' /\ Told' /\ Held'
  BY <1>2, ToldStays DEF CellInv, ResultLook, Held
<1>5. Armed'
  BY <1>2 DEF CellInv, ResultLook, Armed, Threads
<1>6. QED
  BY <1>3, <1>4, <1>5 DEF CellInv

LEMMA ResultCreateInv == ASSUME CellInv, NEW p \in Waiters, ResultCreate(p) PROVE CellInv'
<1>1. PICK from \in {"start", "create", "wait"}, to \in {"start", "create", "wait", "take", "fatalError"} :
        Go(p, from, to)
  BY DEF ResultCreate
<1>2. /\ \A q \in Threads : pc[q] = "done" => pc'[q] = "done"
      /\ \A q \in Threads \ {p} : pc'[q] = pc[q]
      /\ p \in Threads /\ pc'[p] \notin {"disarm", "lock"}
  BY <1>1, GoKeeps DEF CellInv, Threads
<1>3. FutureTypeOK'
  BY <1>1 DEF CellInv, FutureTypeOK, ResultCreate, Go
<1>4. Once' /\ Told' /\ Held'
  BY <1>2, ToldStays DEF CellInv, ResultCreate, Held
<1>5. Armed'
  BY <1>2 DEF CellInv, ResultCreate, Armed, Threads
<1>6. QED
  BY <1>3, <1>4, <1>5 DEF CellInv

LEMMA ResultWaitInv == ASSUME CellInv, NEW p \in Waiters, ResultWait(p) PROVE CellInv'
<1>1. PICK from \in {"start", "create", "wait"}, to \in {"start", "create", "wait", "take", "fatalError"} :
        Go(p, from, to)
  BY DEF ResultWait
<1>2. /\ \A q \in Threads : pc[q] = "done" => pc'[q] = "done"
      /\ \A q \in Threads \ {p} : pc'[q] = pc[q]
      /\ p \in Threads /\ pc'[p] \notin {"disarm", "lock"}
  BY <1>1, GoKeeps DEF CellInv, Threads
<1>3. FutureTypeOK'
  BY <1>1 DEF CellInv, FutureTypeOK, ResultWait, Go
<1>4. Once' /\ Told' /\ Held'
  BY <1>2, ToldStays DEF CellInv, ResultWait, Held
<1>5. Armed'
  BY <1>2 DEF CellInv, ResultWait, Armed, Threads
<1>6. QED
  BY <1>3, <1>4, <1>5 DEF CellInv

(* A waiter takes a content of a call that is over, and is over with it.    *)
LEMMA ResultTakeInv == ASSUME CellInv, NEW p \in Waiters, ResultTake(p) PROVE CellInv'
<1> DEFINE d == [to |-> p, content |-> content]
<1>1. PICK to \in {"done", "fatalError"} : Go(p, "take", to) /\ (content # None => to = "done")
  BY DEF ResultTake
<1>2. /\ \A q \in Threads : pc[q] = "done" => pc'[q] = "done"
      /\ \A q \in Threads \ {p} : pc'[q] = pc[q]
      /\ pc[p] = "take" /\ pc'[p] \in {"done", "fatalError"} /\ p \in Threads /\ p # None
      /\ content # None => pc'[p] = "done"
  BY <1>1, GoKeeps, NoneAssumption DEF CellInv, Threads
<1>3. state' = "sent" /\ UNCHANGED <<content, success, queue, async, onContentSet, onSetCalled, semaphore, signalled>>
  BY DEF ResultTake
<1>4. Armed'
  BY <1>2, <1>3 DEF CellInv, Armed, Threads
<1>5. Held'
  BY <1>2, <1>3 DEF CellInv, Held, FutureTypeOK, Threads
<1>6. pc' \in [Threads -> {"start", "onSet", "disarm", "lock", "create", "wait", "take", "done", "fatalError"}]
  BY <1>1 DEF CellInv, FutureTypeOK, Go
<1>7. CASE content # None
  <2>1. deliveries' = Append(deliveries, d)
    BY <1>7 DEF ResultTake
  <2>2. content \in Setters /\ content \in Threads /\ d \in Deliveries /\ pc[content] = "done" /\ onSetCalled
    BY <1>7 DEF CellInv, FutureTypeOK, Held, Threads, Deliveries
  <2>3. d.to = p /\ d.content = content /\ \A e \in Delivered : e.to # d.to
    BY <1>2 DEF CellInv, Told
  <2> HIDE DEF d
  <2>4. /\ deliveries' \in Seq(Deliveries) /\ Elems(deliveries') = Elems(deliveries) \cup {d} /\ Apart(deliveries')
    BY <2>1, <2>2, <2>3, ElemsAppend DEF CellInv, FutureTypeOK, Delivered, Once
  <2>5. Once' /\ Delivered' = Delivered \cup {d}
    BY <1>3, <2>3, <2>4 DEF CellInv, Once, Delivered
  <2>6. FutureTypeOK'
    BY <1>3, <1>6, <2>4 DEF CellInv, FutureTypeOK, States
  <2>7. Told'
    <3>1. ASSUME NEW e \in Delivered' PROVE pc'[e.content] = "done" /\ pc'[e.to] = "done" /\ e.to # success
      <4>1. CASE e = d
        <5>1. success # p
          BY <1>2, <1>7 DEF CellInv, Held
        <5>2. QED
          BY <1>2, <1>7, <2>2, <2>3, <4>1, <5>1
      <4>2. CASE e \in Delivered
        <5>1. e.to \in Threads /\ e.content \in Threads
          BY <4>2, DeliveredTo DEF CellInv
        <5>2. QED
          BY <1>2, <4>2, <5>1 DEF CellInv, Told
      <4>3. QED
        BY <2>5, <3>1, <4>1, <4>2
    <3>2. QED
      BY <1>3, <2>2, <3>1 DEF Told
  <2>8. QED
    BY <1>4, <1>5, <2>5, <2>6, <2>7 DEF CellInv
<1>8. CASE content = None
  <2>1. deliveries' = deliveries
    BY <1>8 DEF ResultTake
  <2>2. FutureTypeOK'
    BY <1>3, <1>6, <2>1 DEF CellInv, FutureTypeOK, States
  <2>3. Once' /\ Told'
    BY <1>2, <1>3, <2>1, ToldStays
  <2>4. QED
    BY <1>4, <1>5, <2>2, <2>3 DEF CellInv
<1>9. QED
  BY <1>7, <1>8

LEMMA CompleteInv == ASSUME CellInv, NEW p \in Completers, Complete(p) PROVE CellInv'
<1>1. Go(p, "start", "done") /\ success' \in {success, None}
  BY DEF Complete
<1>2. /\ \A q \in Threads : pc[q] = "done" => pc'[q] = "done"
      /\ \A q \in Threads \ {p} : pc'[q] = pc[q]
      /\ pc'[p] = "done" /\ p \in Threads
  BY <1>1, GoKeeps DEF CellInv, Threads
<1>3. FutureTypeOK'
  BY <1>1 DEF CellInv, FutureTypeOK, States, Complete, Go
<1>4. Once' /\ Told' /\ Held'
  BY <1>1, <1>2, ToldStays DEF CellInv, Complete, Held
<1>5. Armed'
  BY <1>2 DEF CellInv, Complete, Armed, Threads
<1>6. QED
  BY <1>3, <1>4, <1>5 DEF CellInv

LEMMA ClearInv == ASSUME CellInv, NEW p \in Clearers, Clear(p) PROVE CellInv'
<1>1. Go(p, "start", "done") /\ success' \in {success, None}
  BY DEF Clear
<1>2. /\ \A q \in Threads : pc[q] = "done" => pc'[q] = "done"
      /\ \A q \in Threads \ {p} : pc'[q] = pc[q]
      /\ pc'[p] = "done" /\ p \in Threads
  BY <1>1, GoKeeps DEF CellInv, Threads
<1>3. FutureTypeOK'
  BY <1>1 DEF CellInv, FutureTypeOK, States, Clear, Go
<1>4. Once' /\ Told' /\ Held'
  BY <1>1, <1>2, ToldStays DEF CellInv, Clear, Held
<1>5. Armed'
  BY <1>2 DEF CellInv, Clear, Armed, Threads
<1>6. QED
  BY <1>3, <1>4, <1>5 DEF CellInv

LEMMA FutureNextInv == CellInv /\ [FutureNext]_futureVars => CellInv'
<1> SUFFICES ASSUME CellInv, [FutureNext]_futureVars PROVE CellInv'
  OBVIOUS
<1>1. CASE UNCHANGED futureVars
  BY <1>1 DEF futureVars, CellInv, FutureTypeOK, Once, Armed, Held, Told, Delivered
<1>2. CASE RunAsync
  BY <1>2, RunAsyncInv
<1>3. ASSUME NEW p \in Threads, Step(p) PROVE CellInv'
  BY <1>3, SetCheckInv, SetOnContentSetInv, SetDisarmInv, SetLockedInv, ResolveCheckInv, ResolveLockedInv,
     ResultLookInv, ResultCreateInv, ResultWaitInv, ResultTakeInv, CompleteInv, ClearInv DEF Step
<1>4. QED
  BY <1>1, <1>2, <1>3 DEF FutureNext

(* The invariant, read off the order in which things are delivered.         *)
LEMMA InvIsSafe == CellInv => CellSafe
<1> SUFFICES ASSUME CellInv PROVE CellSafe
  OBVIOUS
<1> DEFINE s == deliveries
           t == async
           u == AllDelivered
<1>1. /\ s \in Seq(Deliveries) /\ t \in Seq(Deliveries)
      /\ u \in Seq(Deliveries) /\ Len(u) = Len(s) + Len(t) /\ Len(s) \in Nat /\ Len(t) \in Nat
      /\ \A i \in 1..Len(u) : u[i] = IF i <= Len(s) THEN s[i] ELSE t[i - Len(s)]
  BY DEF CellInv, FutureTypeOK, AllDelivered
<1>2. Apart(s) /\ Apart(t) /\ (\A d \in Elems(s), e \in Elems(t) : d.to # e.to)
      /\ Elems(s) \cup Elems(t) = Delivered
  BY DEF CellInv, Once, Delivered
<1> HIDE DEF s, t, u
<1>3. ASSUME NEW i \in 1..Len(u)
      PROVE  \/ i \in 1..Len(s) /\ u[i] = s[i] /\ u[i] \in Elems(s)
             \/ i - Len(s) \in 1..Len(t) /\ u[i] = t[i - Len(s)] /\ u[i] \in Elems(t)
  <2>1. CASE i <= Len(s)
    BY <1>1, <2>1 DEF Elems
  <2>2. CASE ~(i <= Len(s))
    <3>1. i - Len(s) \in 1..Len(t) /\ u[i] = t[i - Len(s)]
      BY <1>1, <2>2
    <3>2. QED
      BY <3>1 DEF Elems
  <2>3. QED
    BY <2>1, <2>2
<1>4. ClosureCalledOnce
  <2>1. ASSUME NEW i \in 1..Len(u), NEW j \in 1..Len(u), u[i].to = u[j].to PROVE i = j
    <3>1. CASE i \in 1..Len(s) /\ j \in 1..Len(s) /\ u[i] = s[i] /\ u[j] = s[j]
      BY <1>2, <2>1, <3>1 DEF Apart
    <3>2. CASE /\ i - Len(s) \in 1..Len(t) /\ u[i] = t[i - Len(s)]
               /\ j - Len(s) \in 1..Len(t) /\ u[j] = t[j - Len(s)]
      <4>1. i - Len(s) = j - Len(s)
        BY <1>2, <2>1, <3>2 DEF Apart
      <4>2. QED
        BY <1>1, <4>1
    <3>3. ~(u[i] \in Elems(s) /\ u[j] \in Elems(t)) /\ ~(u[i] \in Elems(t) /\ u[j] \in Elems(s))
      BY <1>2, <2>1
    <3>4. QED
      BY <1>3, <3>1, <3>2, <3>3
  <2>2. QED
    BY <2>1 DEF ClosureCalledOnce, u
<1>5. OnSetComesFirst
  <2>1. \A i \in 1..Len(u) : onSetCalled /\ pc[u[i].content] = "done"
    BY <1>2, <1>3 DEF CellInv, Told
  <2>2. content # None => onSetCalled
    BY DEF CellInv, Held
  <2>3. QED
    BY <2>1, <2>2 DEF OnSetComesFirst, u
<1>6. NeverSitsOnBoth
  BY DEF CellInv, Held, NeverSitsOnBoth
<1>7. QED
  BY <1>4, <1>5, <1>6 DEF CellSafe

(* In every state: what was delivered is of calls that are over, to         *)
(* closures and waiters that are different; what the future holds waits for *)
(* what it does not hold (Future.set, resolve, result, complete, clear).    *)
THEOREM FutureInvariance == FutureSpec => []CellInv
  BY FutureInitInv, FutureNextInv, PTL DEF FutureSpec

(* Every variable keeps its type: no semaphore but a waiter's is signalled, *)
(* and every delivery is of a content to a closure or a waiter.             *)
THEOREM FutureTypeCorrect == FutureSpec => []FutureTypeOK
<1>1. CellInv => FutureTypeOK
  BY DEF CellInv
<1>2. QED
  BY <1>1, FutureInvariance, PTL

(* A closure gets one content at most, after the onSet closure was called,  *)
(* and a content and a closure are never both left in the future, for any   *)
(* number of setters, resolvers, waiters, completers and clearers.          *)
THEOREM CellIsSafe == FutureSpec => []CellSafe
  BY InvIsSafe, FutureInvariance, PTL

-------------------------------------------------------------------------------
(* ContainerViewController.                                                 *)
Leaving == {p[1] : p \in animations}

(* The controllers that animations will remove are pairwise different, none *)
(* of them is the contained one, and together with it they are exactly what *)
(* the view holds.                                                          *)
LeavingApart ==
  /\ \A p \in animations : p[1] \in used /\ p[1] # viewController
  /\ \A p, q \in animations : p[1] = q[1] => p = q

ViewHolds ==
  /\ loaded => subviews = {viewController} \cup Leaving
  /\ ~loaded => children = {} /\ subviews = {} /\ animations = {} /\ parent = "none"
  /\ children \subseteq {viewController} \cup Leaving

NotFaded == viewController \in used /\ faded \subseteq used /\ viewController \notin faded

ContainerInv == ContainerTypeOK /\ LeavingApart /\ ViewHolds /\ NotFaded

Fresh == ~Reuse /\ Embedding # "any"

-------------------------------------------------------------------------------
LEMMA ContainerInitInv == ContainerInit => ContainerInv
  BY SplashAssumption DEF ContainerInit, ContainerInv, ContainerTypeOK, LeavingApart, ViewHolds, NotFaded, Leaving

(* A controller that was never contained replaces the contained one.        *)
LEMMA SetAtOnceInv ==
  ASSUME Fresh, ContainerInv, NEW v \in Controllers, SetAtOnce(v) PROVE ContainerInv'
<1> USE DEF Fresh, ContainerInv, SetAtOnce, Candidates, Captured
<1>1. v \notin used /\ v # viewController
  BY DEF NotFaded
<1>2. ContainerTypeOK'
  BY DEF ContainerTypeOK
<1>3. LeavingApart'
  BY <1>1 DEF LeavingApart
<1>4. ViewHolds'
  <2>1. viewController \notin Leaving
    BY DEF LeavingApart, Leaving
  <2>2. Leaving' = Leaving
    BY DEF Leaving
  <2> QED BY <1>1, <2>1, <2>2 DEF ViewHolds
<1>5. NotFaded'
  BY <1>1 DEF NotFaded
<1> QED BY <1>2, <1>3, <1>4, <1>5

LEMMA SetAnimatedInv ==
  ASSUME Fresh, ContainerInv, NEW v \in Controllers, SetAnimated(v) PROVE ContainerInv'
<1> USE DEF Fresh, ContainerInv, SetAnimated, Candidates, Captured
<1>1. v \notin used /\ v # viewController
  BY DEF NotFaded
<1>2. ContainerTypeOK'
  BY <1>1 DEF ContainerTypeOK
<1>3. LeavingApart'
  BY <1>1 DEF LeavingApart, NotFaded
<1>4. ViewHolds'
  <2>1. Leaving' = Leaving \cup {viewController}
    <3> DEFINE p == <<viewController, v>>
    <3>1. p[1] = viewController
      OBVIOUS
    <3>2. animations' = animations \cup {p}
      OBVIOUS
    <3> HIDE DEF p
    <3> QED BY <3>1, <3>2 DEF Leaving
  <2> QED BY <2>1 DEF ViewHolds
<1>5. NotFaded'
  BY <1>1 DEF NotFaded
<1> QED BY <1>2, <1>3, <1>4, <1>5

(* The completion of one animation removes a controller that no other one   *)
(* will remove.                                                             *)
LEMMA AnimationEndsInv ==
  ASSUME ContainerInv, AnimationEnds PROVE ContainerInv'
<1> USE DEF ContainerInv
<1>1. PICK p \in animations : animations' = animations \ {p} /\ CompleteAnimation(p)
  BY DEF AnimationEnds
<1> USE <1>1 DEF AnimationEnds, CompleteAnimation
<1>2. ContainerTypeOK'
  BY DEF ContainerTypeOK
<1>3. LeavingApart'
  BY DEF LeavingApart
<1>4. ViewHolds'
  <2>1. Leaving' = Leaving \ {p[1]}
    BY DEF Leaving, LeavingApart
  <2>2. p[1] # viewController
    BY DEF LeavingApart
  <2> QED BY <2>1, <2>2 DEF ViewHolds
<1>5. NotFaded'
  BY DEF NotFaded
<1> QED BY <1>2, <1>3, <1>4, <1>5

LEMMA ContainerNextInv ==
  ASSUME Fresh, ContainerInv, [ContainerNext]_containerVars PROVE ContainerInv'
<1> USE DEF ContainerInv
<1>1. CASE ViewDidLoad
  BY <1>1 DEF ViewDidLoad, ContainerTypeOK, LeavingApart, ViewHolds, NotFaded, Leaving
<1>2. CASE AnimationEnds
  BY <1>2, AnimationEndsInv
<1>3. ASSUME NEW v \in Controllers, SetUnloaded(v) PROVE ContainerInv'
  BY <1>3 DEF SetUnloaded, Candidates, Fresh, ContainerTypeOK, LeavingApart,
        ViewHolds, NotFaded, Leaving
<1>4. ASSUME NEW v \in Controllers, SetAtOnce(v) PROVE ContainerInv'
  BY <1>4, SetAtOnceInv
<1>5. ASSUME NEW v \in Controllers, SetAnimated(v) PROVE ContainerInv'
  BY <1>5, SetAnimatedInv
<1>6. CASE WillMoveToParent
  BY <1>6 DEF Fresh, WillMoveToParent, ContainerTypeOK, LeavingApart, ViewHolds, NotFaded, Leaving
<1>7. CASE DidMoveToParent
  BY <1>7 DEF DidMoveToParent, ContainerTypeOK, LeavingApart, ViewHolds, NotFaded, Leaving
<1>8. CASE WillMoveToNoParent
  BY <1>8 DEF WillMoveToNoParent, ContainerTypeOK, LeavingApart, ViewHolds, NotFaded, Leaving
<1>9. CASE DidMoveToNoParent
  BY <1>9 DEF DidMoveToNoParent, ContainerTypeOK, LeavingApart, ViewHolds, NotFaded, Leaving
<1>10. CASE UNCHANGED containerVars
  BY <1>10 DEF containerVars, ContainerTypeOK, LeavingApart, ViewHolds, NotFaded, Leaving
<1> QED BY <1>1, <1>2, <1>3, <1>4, <1>5, <1>6, <1>7, <1>8, <1>9, <1>10 DEF ContainerNext

(* No completion of an animation takes the view of the contained controller *)
(* away, and once they are over the contained controller is alone on screen *)
(* and not faded out (ContainerViewController.set and viewDidLoad).         *)
THEOREM ContainedIsShown ==
  ASSUME Fresh PROVE ContainerSpec => [](ContainerTypeOK /\ ContainedStaysShown)
<1>1. ContainerInit => ContainerInv
  BY ContainerInitInv
<1>2. ContainerInv /\ [ContainerNext]_containerVars => ContainerInv'
  BY ContainerNextInv
<1>3. ContainerInv => ContainerTypeOK /\ ContainedStaysShown
  BY DEF ContainerInv, LeavingApart, ViewHolds, NotFaded, Leaving, CurrentStays,
        ShowsCurrent,
      ContainedStaysShown
<1> QED BY <1>1, <1>2, <1>3, PTL DEF ContainerSpec

-------------------------------------------------------------------------------
(* However the container is used, a controller set again or not and a       *)
(* parent at any time, the variables keep their types: in particular no     *)
(* animation replaces a controller by itself, which its completion would    *)
(* then take away (the closures of ContainerViewController.set).            *)
THEOREM ContainerTypeCorrect ==
  ContainerSpec => []ContainerTypeOK
<1> DEFINE Inv == ContainerTypeOK /\ viewController \in used
<1>1. ContainerInit => Inv
  BY SplashAssumption DEF ContainerInit, ContainerTypeOK
<1>2. Inv /\ [ContainerNext]_containerVars => Inv'
  <2> SUFFICES ASSUME Inv, [ContainerNext]_containerVars PROVE Inv'
    OBVIOUS
  <2>1. CASE ViewDidLoad
    BY <2>1 DEF ViewDidLoad, ContainerTypeOK
  <2>2. CASE AnimationEnds
    BY <2>2 DEF AnimationEnds, CompleteAnimation, ContainerTypeOK
  <2>3. ASSUME NEW v \in Controllers, SetUnloaded(v) PROVE Inv'
    BY <2>3 DEF SetUnloaded, ContainerTypeOK
  <2>4. ASSUME NEW v \in Controllers, SetAtOnce(v) PROVE Inv'
    BY <2>4 DEF SetAtOnce, ContainerTypeOK
  <2>5. ASSUME NEW v \in Controllers, SetAnimated(v) PROVE Inv'
    <3>1. v # viewController
      BY <2>5 DEF SetAnimated, Candidates
    <3>2. animations' \subseteq {p \in Controllers \X Controllers : p[1] # p[2]}
      BY <2>5, <3>1 DEF SetAnimated, Captured, ContainerTypeOK
    <3> QED BY <2>5, <3>2 DEF SetAnimated, ContainerTypeOK
  <2>6. CASE WillMoveToParent \/ DidMoveToParent \/ WillMoveToNoParent \/ DidMoveToNoParent
    BY <2>6 DEF WillMoveToParent, DidMoveToParent,
          WillMoveToNoParent, DidMoveToNoParent, ContainerTypeOK
  <2>7. CASE UNCHANGED containerVars
    BY <2>7 DEF containerVars, ContainerTypeOK
  <2> QED BY <2>1, <2>2, <2>3, <2>4, <2>5, <2>6, <2>7 DEF ContainerNext
<1> QED BY <1>1, <1>2, PTL DEF ContainerSpec

-----------------------------------------------------------------------------
USE AcceptAssumption, RetriersAssumption, MaxRetriesAssumption

(* The attempts are numbered with the retries, behind by one when the first *)
(* had no task.  The tasks of earlier attempts are over, and the request is *)
(* found under no other than the last.                                      *)
TasksInOrder ==
  /\ task \in {retryCount, retryCount + 1}
  /\ retrying = "delayed" => retryCount < MaxRetries
  /\ caller \in {"idle", "registered"} => retryCount = 0
  /\ \A t \in Tasks : (t < task => wire[t] = "finished") /\ (t > task => wire[t] = "none")
  /\ requests \subseteq {task}

(* A request without a task asks the retriers or is over.                   *)
WithoutTask ==
  task = NoTask =>
    /\ data = NoValue /\ retrying # "resumed" /\ caller # "registered"
    /\ ~suspended => retrying = "idle"
    /\ caller = "idle" => suspended /\ retrying = "idle"

(* How far the last task is tells where the retriers are, whether the       *)
(* request is found under it and whether the queue is open.  Only a task    *)
(* that is resumed before it is registered completes without opening it.    *)
LastTask ==
  task # NoTask =>
    /\ caller # "idle" /\ (wire[task] = "none" <=> caller = "registered")
    /\ retrying \in {"asking", "delayed"} <=> wire[task] = "refused"
    /\ retrying = "resumed" => /\ task \notin requests /\ retryCount > 0
                               /\ wire[task] \notin {"none", "checked"}
    /\ retrying # "resumed" /\ wire[task] # "finished" => task \in requests
    /\ ~suspended => retrying = "idle" /\ wire[task] \in {"completed", "finished"}
    /\ ~suspended /\ wire[task] = "finished" => requests = {}
    /\ retryCount = 0 => /\ wire[task] # "unknown"
                         /\ wire[task] \in {"completed", "finished"} => ~suspended

(* The data are those the last task received while it was registered.       *)
DataOfLast ==
  data # NoValue /\ task # NoTask =>
    /\ response[task] \in Responses /\ data = BodyOf(response[task])
    /\ wire[task] \notin {"none", "running", "unknown"}
    /\ wire[task] = "received" => task \in requests

(* The handler is called with the result of an open queue.                  *)
Handing ==
  /\ operation = "none" <=> caller # "waiting"
  /\ operation \in {"none", "queued"} <=> result = NoValue
  /\ operation \in {"main", "called"} => ~suspended
  /\ outcome = IF operation = "called" THEN result ELSE NoValue
  /\ result = "success" => data = "good"

IndInv == TypeOK /\ TasksInOrder /\ WithoutTask /\ LastTask /\ DataOfLast /\ Handing

(* What holds on from a state in which the chain was complete in time.      *)
Validated ==
  /\ validations = Checks
  /\ data = "good" /\ Fails(response[task]) # {} => wire[task] = "received" \/ error
  /\ result = "success" => Fails(response[task]) = {}

-------------------------------------------------------------------------------
(* The inductive invariant                                                  *)

Wires == {"none", "running", "received", "checked", "unknown", "refused", "completed", "finished"}

LEMMA TypeFacts ==
  ASSUME TypeOK
  PROVE  /\ wire \in [Tasks -> Wires] /\ retryCount \in Nat /\ MaxRetries \in Nat /\ task \in Nat
         /\ task # NoTask => task \in Tasks
         /\ Tasks \subseteq Nat /\ NoTask \notin Tasks
  BY DEF TypeOK, Tasks, NoTask, Wires

(* A task that URLSession works on is the last one.                         *)
LEMMA WorkedOnIsLast ==
  ASSUME TypeOK, TasksInOrder, NEW t \in Tasks, wire[t] \notin {"none", "finished"}
  PROVE  t = task /\ task # NoTask
<1>1. t \in Nat /\ task \in Nat
  BY DEF TypeOK, Tasks, NoTask
<1>2. ~(t < task) /\ ~(t > task)
  BY DEF TasksInOrder
<1> QED BY <1>1, <1>2, TypeFacts

LEMMA InitInv == Init => IndInv
<1> SUFFICES ASSUME Init PROVE IndInv
  OBVIOUS
<1>1. wire \in [Tasks -> Wires] /\ response \in [Tasks -> Responses \cup {NoValue}]
  BY DEF Init, Wires
<1>2. TypeOK
  <2>1. 0 \in 0..MaxRetries /\ 0 \in 0..Retriers
    OBVIOUS
  <2>2. error \in BOOLEAN /\ suspended \in BOOLEAN /\ requests \in SUBSET Tasks /\ validations \in SUBSET Checks
    BY DEF Init
  <2> QED BY <1>1, <2>1, <2>2 DEF Init, TypeOK, Wires, NoValue
<1>3. TasksInOrder
  BY TypeFacts, <1>2 DEF Init, TasksInOrder, NoTask
<1>4. WithoutTask /\ LastTask /\ DataOfLast /\ Handing
  BY DEF Init, WithoutTask, LastTask, DataOfLast, Handing, NoValue
<1> QED BY <1>2, <1>3, <1>4 DEF IndInv

-------------------------------------------------------------------------------
(* The caller.                                                              *)

LEMMA CreateInv == ASSUME IndInv, Create PROVE IndInv'
<1> USE DEF Create, Tasks, NoTask, NoValue
<1>1. TypeOK'
  BY DEF IndInv, TypeOK, TasksInOrder, Checks
<1>2. TasksInOrder'
  BY DEF IndInv, TypeOK, TasksInOrder, LastTask, WithoutTask
<1>3. WithoutTask'
  BY DEF IndInv, TypeOK, TasksInOrder, WithoutTask, LastTask
<1>4. LastTask'
  BY DEF IndInv, TypeOK, TasksInOrder, WithoutTask, LastTask
<1>5. DataOfLast'
  BY DEF IndInv, TypeOK, TasksInOrder, WithoutTask, LastTask, DataOfLast
<1>6. Handing'
  BY DEF IndInv, TypeOK, WithoutTask, LastTask, Handing
<1> QED BY <1>1, <1>2, <1>3, <1>4, <1>5, <1>6 DEF IndInv

LEMMA ResumeInv == ASSUME IndInv, Resume PROVE IndInv'
<1> USE DEF Resume
<1>1. task = 1 /\ 1 \in Tasks /\ wire[1] = "none" /\ 1 \in requests /\ retrying = "idle" /\ suspended /\ data = NoValue
  <2>1. task \in Tasks /\ task # NoTask /\ wire[task] = "none"
    BY TypeFacts DEF IndInv, WithoutTask, LastTask
  <2>2. retrying = "idle" /\ suspended /\ task \in requests
    BY <2>1 DEF IndInv, LastTask, TypeOK
  <2>3. data = NoValue
    BY <2>1 DEF IndInv, DataOfLast
  <2>4. task = 1
    BY <2>1 DEF IndInv, TasksInOrder, NoTask
  <2> QED BY <2>1, <2>2, <2>3, <2>4
<1>2. wire' \in [Tasks -> Wires] /\ wire'[1] = "running" /\ \A t \in Tasks \ {1} : wire'[t] = wire[t]
  BY <1>1, TypeFacts DEF IndInv, Wires
<1>3. TypeOK'
  BY <1>2 DEF IndInv, TypeOK, Wires
<1>4. TasksInOrder'
  BY <1>1, <1>2, TypeFacts DEF IndInv, TasksInOrder
<1>5. WithoutTask' /\ DataOfLast'
  BY <1>1 DEF WithoutTask, DataOfLast, NoTask
<1>6. LastTask'
  BY <1>1, <1>2 DEF LastTask
<1>7. Handing'
  BY <1>1 DEF IndInv, Handing
<1> QED BY <1>3, <1>4, <1>5, <1>6, <1>7 DEF IndInv

LEMMA CreateFailsInv == ASSUME IndInv, CreateFails PROVE IndInv'
<1> USE DEF CreateFails, NoTask, NoValue
<1>1. TypeOK'
  <2>1. retrying' \in {"idle", "asking", "delayed", "resumed"} /\ suspended' \in BOOLEAN
    BY DEF IndInv, TypeOK
  <2> QED BY <2>1 DEF IndInv, TypeOK
<1>2. TasksInOrder'
  BY DEF IndInv, TypeOK, TasksInOrder, LastTask, WithoutTask
<1>3. WithoutTask'
  BY DEF IndInv, TypeOK, TasksInOrder, WithoutTask, LastTask
<1>4. LastTask'
  BY DEF IndInv, TypeOK, TasksInOrder, WithoutTask, LastTask
<1>5. DataOfLast'
  BY DEF IndInv, TypeOK, TasksInOrder, WithoutTask, LastTask, DataOfLast
<1>6. Handing'
  BY DEF IndInv, TypeOK, WithoutTask, LastTask, Handing
<1> QED BY <1>1, <1>2, <1>3, <1>4, <1>5, <1>6 DEF IndInv

LEMMA ChainInv == ASSUME IndInv, Chain PROVE IndInv'
<1> USE DEF Chain
<1>1. TypeOK'
  <2>1. validations' \in SUBSET Checks /\ operation' \in {"none", "queued", "main", "called"}
        /\ caller' \in {"idle", "registered", "created", "checked", "chained", "waiting"}
    BY DEF IndInv, TypeOK, Checks
  <2> QED BY <2>1 DEF IndInv, TypeOK
<1>2. TasksInOrder' /\ WithoutTask' /\ LastTask' /\ DataOfLast'
  BY DEF IndInv, TasksInOrder, WithoutTask, LastTask, DataOfLast
<1>3. Handing'
  BY DEF IndInv, Handing
<1> QED BY <1>1, <1>2, <1>3 DEF IndInv

-------------------------------------------------------------------------------
(* The retriers, and the utility queue.                                     *)

(* What completing a task does.                                             *)
LEMMA CompleteFacts ==
  ASSUME TypeOK, NEW t \in Tasks, NEW failed \in BOOLEAN, CompleteTask(t, failed)
  PROVE  /\ wire' \in [Tasks -> Wires] /\ wire'[t] = "completed" /\ \A u \in Tasks \ {t} : wire'[u] = wire[u]
         /\ error' \in BOOLEAN /\ suspended' \in BOOLEAN /\ (error => error')
         /\ IF t \in requests THEN ~suspended' ELSE suspended' = suspended
  BY TypeFacts DEF CompleteTask, TypeOK, Wires

LEMMA GiveUpInv ==
  ASSUME IndInv, retrying \in {"asking", "delayed"}, GiveUp,
         UNCHANGED <<caller, validations, retryCount, task, response, requests, data, index, operation,
                     result, outcome>>
  PROVE  IndInv'
<1>1. retrying' = "idle"
  BY DEF GiveUp
<1>2. CASE task = NoTask
  <2>1. suspended' = FALSE /\ error' = TRUE /\ wire' = wire
    BY <1>2 DEF GiveUp
  <2>2. TypeOK'
    BY <1>1, <2>1 DEF IndInv, TypeOK
  <2>5. TasksInOrder'
    BY <1>1, <2>1 DEF IndInv, TasksInOrder
  <2>3. WithoutTask' /\ LastTask' /\ DataOfLast'
    BY <1>1, <1>2, <2>1 DEF IndInv, WithoutTask, LastTask, DataOfLast
  <2>4. Handing'
    BY <1>1, <1>2, <2>1 DEF IndInv, Handing, WithoutTask
  <2> QED BY <2>2, <2>3, <2>4, <2>5 DEF IndInv
<1>3. CASE task # NoTask
  <2>1. task \in Tasks /\ wire[task] = "refused" /\ task \in requests /\ suspended
    BY <1>3, TypeFacts DEF IndInv, LastTask
  <2>2. CompleteTask(task, TRUE)
    BY <1>3 DEF GiveUp
  <2>3. /\ wire' \in [Tasks -> Wires] /\ wire'[task] = "completed"
        /\ \A u \in Tasks \ {task} : wire'[u] = wire[u]
        /\ error' \in BOOLEAN /\ suspended' = FALSE
    BY <2>1, <2>2, CompleteFacts DEF IndInv
  <2>4. TypeOK'
    BY <1>1, <2>3 DEF IndInv, TypeOK, Wires
  <2>5. TasksInOrder'
    BY <1>1, <2>1, <2>3, TypeFacts DEF IndInv, TasksInOrder
  <2>6. WithoutTask' /\ LastTask' /\ DataOfLast'
    BY <1>1, <1>3, <2>1, <2>3 DEF IndInv, WithoutTask, LastTask, DataOfLast
  <2>7. Handing'
    BY <1>1, <2>1, <2>3 DEF IndInv, Handing
  <2> QED BY <2>4, <2>5, <2>6, <2>7 DEF IndInv
<1> QED BY <1>2, <1>3

LEMMA AskRetrierInv == ASSUME IndInv, AskRetrier PROVE IndInv'
<1> USE DEF AskRetrier
<1>1. CASE GiveUp /\ UNCHANGED index
  BY <1>1, GiveUpInv
<1>2. CASE /\ retrying' \in {"asking", "delayed"} /\ (retrying' = "delayed" => retryCount < MaxRetries)
           /\ index' \in 0..Retriers /\ UNCHANGED <<wire, error, suspended>>
  <2>1. TypeOK' /\ TasksInOrder'
    BY <1>2 DEF IndInv, TypeOK, TasksInOrder
  <2>2. WithoutTask' /\ LastTask' /\ DataOfLast' /\ Handing'
    BY <1>2 DEF IndInv, WithoutTask, LastTask, DataOfLast, Handing
  <2> QED BY <2>1, <2>2 DEF IndInv
<1>3. index \in 0..Retriers /\ (More(index) => index + 1 \in 0..Retriers)
  BY DEF IndInv, TypeOK, More
<1> QED BY <1>1, <1>2, <1>3

LEMMA RetryInv == ASSUME IndInv, Retry PROVE IndInv'
<1>1. CASE GiveUp /\ UNCHANGED <<retryCount, task, requests, data>>
  BY <1>1, GiveUpInv DEF Retry
<1>2. CASE ~(GiveUp /\ UNCHANGED <<retryCount, task, requests, data>>)
  <2>1. /\ retrying = "delayed" /\ retrying' = "resumed" /\ retryCount' = retryCount + 1
        /\ task' = task + 1 /\ requests' = requests \ {task}
        /\ wire' = [t \in Tasks |-> CASE t = task + 1 -> "running" [] t = task -> "finished" [] OTHER -> wire[t]]
        /\ error' = FALSE /\ data' = NoValue
        /\ UNCHANGED <<suspended, caller, validations, response, index, operation, result, outcome>>
    BY <1>2 DEF Retry, ResetAll
  <2>2. retryCount < MaxRetries /\ suspended
    BY <2>1 DEF IndInv, TasksInOrder, WithoutTask, LastTask
  <2>3. task + 1 \in Tasks /\ task \in Nat /\ retryCount + 1 \in 1..MaxRetries /\ task + 1 # NoTask
    BY <2>2 DEF IndInv, TypeOK, TasksInOrder, Tasks, NoTask
  <2>4. requests' = {} /\ task + 1 \notin requests'
    BY <2>1 DEF IndInv, TasksInOrder
  <2>5. /\ wire' \in [Tasks -> Wires] /\ wire'[task + 1] = "running"
        /\ \A t \in Tasks : (t < task + 1 => wire'[t] = "finished") /\ (t > task + 1 => wire'[t] = "none")
    <3>1. \A t \in Tasks : wire'[t] = IF t = task + 1 THEN "running" ELSE IF t = task THEN "finished" ELSE wire[t]
      <4>1. ASSUME NEW t \in Tasks
            PROVE  wire'[t] = CASE t = task + 1 -> "running" [] t = task -> "finished" [] OTHER -> wire[t]
        BY <2>1
      <4> QED BY <2>3, <4>1
    <3>2. wire' \in [Tasks -> Wires]
      BY <2>1, TypeFacts DEF IndInv, Wires
    <3> QED BY <2>3, <3>1, <3>2, TypeFacts DEF IndInv, TasksInOrder
  <2>6. caller # "idle" /\ caller # "registered"
    BY <2>1 DEF IndInv, WithoutTask, LastTask
  <2>7. TypeOK'
    <3>1. retryCount + 1 \in 0..MaxRetries
      BY <2>3
    <3> QED BY <2>1, <2>3, <2>4, <2>5, <3>1 DEF IndInv, TypeOK, Wires
  <2>8. TasksInOrder'
    BY <2>1, <2>3, <2>4, <2>5, <2>6, TypeFacts DEF IndInv, TasksInOrder
  <2>9. WithoutTask' /\ DataOfLast'
    BY <2>1, <2>3 DEF WithoutTask, DataOfLast
  <2>10. LastTask'
    BY <2>1, <2>2, <2>3, <2>4, <2>5, <2>6, TypeFacts DEF IndInv, LastTask
  <2>11. Handing'
    <3>1. operation \notin {"main", "called"} /\ result = NoValue
      BY <2>2 DEF IndInv, Handing, TypeOK
    <3> QED BY <2>1, <3>1 DEF IndInv, Handing, NoValue
  <2> QED BY <2>7, <2>8, <2>9, <2>10, <2>11 DEF IndInv
<1> QED BY <1>1, <1>2

LEMMA RegisterInv == ASSUME IndInv, Register PROVE IndInv'
<1> USE DEF Register
<1>1. task # NoTask /\ task \in Tasks
  BY TypeFacts DEF IndInv, WithoutTask
<1>2. TypeOK' /\ TasksInOrder' /\ WithoutTask'
  BY <1>1 DEF IndInv, TypeOK, TasksInOrder, WithoutTask
<1>3. LastTask' /\ DataOfLast'
  BY <1>1 DEF IndInv, LastTask, DataOfLast
<1>4. Handing'
  BY DEF IndInv, Handing
<1> QED BY <1>2, <1>3, <1>4 DEF IndInv

-------------------------------------------------------------------------------
(* The operation queue and the main queue.                                  *)

LEMMA SerializeInv == ASSUME IndInv, Serialize PROVE IndInv'
<1> USE DEF Serialize
<1>1. TypeOK'
  BY DEF IndInv, TypeOK, NoValue
<1>2. TasksInOrder' /\ WithoutTask' /\ LastTask' /\ DataOfLast'
  BY DEF IndInv, TasksInOrder, WithoutTask, LastTask, DataOfLast
<1>3. Handing'
  BY DEF IndInv, Handing, NoValue
<1> QED BY <1>1, <1>2, <1>3 DEF IndInv

LEMMA HandleInv == ASSUME IndInv, Handle PROVE IndInv'
<1> USE DEF Handle
<1>1. TypeOK'
  BY DEF IndInv, TypeOK
<1>2. TasksInOrder' /\ WithoutTask' /\ LastTask' /\ DataOfLast'
  BY DEF IndInv, TasksInOrder, WithoutTask, LastTask, DataOfLast
<1>3. Handing'
  BY DEF IndInv, Handing, TypeOK
<1> QED BY <1>1, <1>2, <1>3 DEF IndInv

-------------------------------------------------------------------------------
(* The delegate queue of URLSession.                                        *)

LEMMA ReceiveInv == ASSUME IndInv, NEW t \in Tasks, Receive(t) PROVE IndInv'
<1> USE DEF Receive
<1>1. /\ t = task /\ task # NoTask /\ task \in Tasks
      /\ wire' \in [Tasks -> Wires] /\ wire'[task] = "received"
      /\ \A u \in Tasks \ {task} : wire'[u] = wire[u]
  BY WorkedOnIsLast, TypeFacts DEF IndInv, Wires
<1>2. PICK r \in Responses : /\ response' = [response EXCEPT ![t] = r]
                             /\ data' = IF t \in requests THEN BodyOf(r) ELSE data
  OBVIOUS
<1>3. response' \in [Tasks -> Responses \cup {NoValue}] /\ response'[task] = r
  BY <1>1, <1>2 DEF IndInv, TypeOK
<1>4. BodyOf(r) \in {NoValue, "good", "bad"}
  BY DEF BodyOf
<1>5. TypeOK'
  BY <1>1, <1>2, <1>3, <1>4 DEF IndInv, TypeOK, Wires
<1>6. TasksInOrder' /\ WithoutTask'
  BY <1>1, TypeFacts DEF IndInv, TasksInOrder, WithoutTask
<1>7. data = NoValue
  BY <1>1 DEF IndInv, DataOfLast
<1>8. LastTask'
  BY <1>1 DEF IndInv, LastTask
<1>9. DataOfLast'
  BY <1>1, <1>2, <1>3, <1>7 DEF DataOfLast
<1>10. Handing'
  <2>1. operation \notin {"main", "called"} /\ result = NoValue
    BY <1>1 DEF IndInv, LastTask, Handing, TypeOK
  <2> QED BY <2>1 DEF IndInv, Handing, NoValue
<1> QED BY <1>5, <1>6, <1>8, <1>9, <1>10 DEF IndInv

LEMMA DidCompleteInv == ASSUME IndInv, NEW t \in Tasks, DidComplete(t) PROVE IndInv'
<1> USE DEF DidComplete
<1>1. /\ t = task /\ task # NoTask /\ task \in Tasks
      /\ wire' \in [Tasks -> Wires] /\ wire'[task] = IF task \in requests THEN "checked" ELSE "unknown"
      /\ \A u \in Tasks \ {task} : wire'[u] = wire[u]
  BY WorkedOnIsLast, TypeFacts DEF IndInv, Wires
<1>2. TypeOK'
  <2>1. error' \in BOOLEAN
    BY DEF IndInv, TypeOK
  <2> QED BY <1>1, <2>1 DEF IndInv, TypeOK, Wires
<1>3. TasksInOrder' /\ WithoutTask'
  BY <1>1, TypeFacts DEF IndInv, TasksInOrder, WithoutTask
<1>4. LastTask' /\ DataOfLast'
  BY <1>1 DEF IndInv, LastTask, DataOfLast, TypeOK
<1>5. Handing'
  BY DEF IndInv, Handing
<1> QED BY <1>2, <1>3, <1>4, <1>5 DEF IndInv

LEMMA ForgetInv == ASSUME IndInv, NEW t \in Tasks, Forget(t) PROVE IndInv'
<1> USE DEF Forget
<1>1. /\ t = task /\ task # NoTask /\ task \in Tasks
      /\ wire' \in [Tasks -> Wires] /\ wire'[task] = "finished"
      /\ \A u \in Tasks \ {task} : wire'[u] = wire[u]
  BY WorkedOnIsLast, TypeFacts DEF IndInv, Wires
<1>2. TypeOK'
  BY <1>1 DEF IndInv, TypeOK, Wires
<1>3. TasksInOrder' /\ WithoutTask'
  BY <1>1, TypeFacts DEF IndInv, TasksInOrder, WithoutTask
<1>4. requests' = {}
  BY <1>1 DEF IndInv, TasksInOrder
<1>5. LastTask' /\ DataOfLast'
  BY <1>1, <1>4 DEF IndInv, LastTask, DataOfLast
<1>6. Handing'
  BY DEF IndInv, Handing
<1> QED BY <1>2, <1>3, <1>5, <1>6 DEF IndInv

LEMMA DecideInv == ASSUME IndInv, NEW t \in Tasks, Decide(t) PROVE IndInv'
<1>1. wire[t] \in {"checked", "unknown"}
  BY DEF Decide
<1>2. t = task /\ task # NoTask /\ task \in Tasks
  BY <1>1, WorkedOnIsLast DEF IndInv
<1>3. UNCHANGED <<caller, validations, retryCount, task, response, requests, data, operation, result, outcome>>
  BY DEF Decide
<1>4. suspended /\ caller # "registered" /\ caller # "idle"
  BY <1>1, <1>2 DEF IndInv, LastTask, TypeOK
<1>5. CASE /\ wire[t] = "checked" /\ wire' = [wire EXCEPT ![t] = "refused"]
           /\ retrying' = "asking" /\ index' = 0 /\ UNCHANGED <<error, suspended>>
  <2>1. /\ wire' \in [Tasks -> Wires] /\ wire'[task] = "refused"
        /\ \A u \in Tasks \ {task} : wire'[u] = wire[u]
    BY <1>2, <1>5, TypeFacts DEF IndInv, Wires
  <2>2. TypeOK'
    BY <1>3, <1>5, <2>1 DEF IndInv, TypeOK, Wires
  <2>3. TasksInOrder' /\ WithoutTask'
    BY <1>2, <1>3, <1>5, <2>1, TypeFacts DEF IndInv, TasksInOrder, WithoutTask
  <2>4. retrying # "resumed" /\ task \in requests
    BY <1>2, <1>5 DEF IndInv, LastTask
  <2>5. LastTask' /\ DataOfLast'
    BY <1>2, <1>3, <1>4, <1>5, <2>1, <2>4 DEF IndInv, LastTask, DataOfLast
  <2>6. Handing'
    BY <1>3, <1>5 DEF IndInv, Handing
  <2> QED BY <2>2, <2>3, <2>5, <2>6 DEF IndInv
<1>6. ASSUME NEW failed \in BOOLEAN, CompleteTask(t, failed), UNCHANGED <<retrying, index>>
      PROVE  IndInv'
  <2>1. /\ wire' \in [Tasks -> Wires] /\ wire'[task] = "completed"
        /\ \A u \in Tasks \ {task} : wire'[u] = wire[u]
        /\ error' \in BOOLEAN /\ suspended' \in BOOLEAN
        /\ IF task \in requests THEN ~suspended' ELSE suspended' = suspended
    BY <1>2, <1>6, CompleteFacts DEF IndInv
  <2>2. TypeOK'
    BY <1>3, <1>6, <2>1 DEF IndInv, TypeOK, Wires
  <2>3. TasksInOrder' /\ WithoutTask'
    BY <1>2, <1>3, <1>6, <2>1, TypeFacts DEF IndInv, TasksInOrder, WithoutTask
  <2>4. retrying \notin {"asking", "delayed"} /\ (task \in requests => retrying = "idle")
        /\ (retryCount = 0 => task \in requests)
    BY <1>1, <1>2 DEF IndInv, LastTask, TypeOK
  <2>5. LastTask'
    BY <1>1, <1>2, <1>3, <1>4, <1>6, <2>1, <2>4 DEF IndInv, LastTask
  <2>6. DataOfLast' /\ Handing'
    BY <1>2, <1>3, <1>4, <2>1 DEF IndInv, DataOfLast, Handing
  <2> QED BY <2>2, <2>3, <2>5, <2>6 DEF IndInv
<1> QED BY <1>5, <1>6 DEF Decide

-------------------------------------------------------------------------------
LEMMA SessionInv == ASSUME IndInv, NEW t \in Tasks, Session(t) PROVE IndInv'
  BY ReceiveInv, DidCompleteInv, DecideInv, ForgetInv DEF Session

LEMMA NextInv == IndInv /\ [Next]_vars => IndInv'
<1> SUFFICES ASSUME IndInv, [Next]_vars PROVE IndInv'
  OBVIOUS
<1>1. CASE Caller
  BY <1>1, CreateInv, ResumeInv, CreateFailsInv, ChainInv DEF Caller
<1>2. CASE \E t \in Tasks : Session(t)
  BY <1>2, SessionInv
<1>3. CASE Utility
  BY <1>3, AskRetrierInv, RetryInv, RegisterInv DEF Utility
<1>4. CASE Serialize \/ Handle
  BY <1>4, SerializeInv, HandleInv
<1>5. CASE UNCHANGED vars
  BY <1>5 DEF vars, IndInv, TypeOK, TasksInOrder, WithoutTask, LastTask, DataOfLast, Handing
<1> QED BY <1>1, <1>2, <1>3, <1>4, <1>5 DEF Next

(* In every state, for any number of retriers and retries: how far the last *)
(* task is tells where the retriers are, whether the request is found and   *)
(* whether its queue is open (SessionManager, SessionDelegate, Request).    *)
THEOREM Invariance == Spec => []IndInv
  BY InitInv, NextInv, PTL DEF Spec

(* The types: no more retries and no more tasks than the retriers grant,    *)
(* and the index of MultiRequestRetrier stays in its array.                 *)
THEOREM TypeCorrect == Spec => []TypeOK
<1>1. IndInv => TypeOK
  BY DEF IndInv
<1> QED BY <1>1, Invariance, PTL

(* A success is what the service answered to the last attempt, a request    *)
(* hangs only after a retry, and one that does not hang leaves no entry in  *)
(* SessionDelegate.requests behind: for any number of retriers and retries. *)
THEOREM CleanRetries == Spec => []RetriesAreClean
<1>1. ASSUME IndInv PROVE SuccessIsOfLastAttempt
  <2> SUFFICES ASSUME outcome = "success"
               PROVE  task # NoTask /\ response[task] \in Responses \ {"transport", "badBody"}
    BY DEF SuccessIsOfLastAttempt
  <2>1. data = "good"
    BY <1>1 DEF IndInv, Handing, NoValue
  <2>2. task # NoTask
    BY <1>1, <2>1 DEF IndInv, WithoutTask, NoValue
  <2>3. response[task] \in Responses /\ BodyOf(response[task]) = "good"
    BY <1>1, <2>1, <2>2 DEF IndInv, DataOfLast, NoValue
  <2> QED BY <2>2, <2>3 DEF BodyOf, Responses, NoValue
<1>2. ASSUME IndInv PROVE HangsOnlyByRetry
  <2>1. Hung => retryCount > 0
    BY <1>2, TypeFacts DEF IndInv, Hung, LastTask
  <2>2. ASSUME task # NoTask, wire[task] = "finished", retrying = "idle", requests # {} PROVE Hung
    BY <1>2, <2>2 DEF IndInv, Hung, LastTask, TypeOK
  <2> QED BY <2>1, <2>2 DEF HangsOnlyByRetry
<1>3. IndInv => RetriesAreClean
  BY <1>1, <1>2 DEF RetriesAreClean
<1> QED BY <1>3, Invariance, PTL

-------------------------------------------------------------------------------
(* Validation                                                               *)

LEMMA FailsFacts == \A r : Fails(r) \subseteq Checks
  BY DEF Fails, Checks

(* The chain was complete before any response had arrived.                  *)
LEMMA ValidatedFromChain == ASSUME IndInv, ChainedInTime PROVE Validated
<1>1. CASE task = NoTask
  <2>1. data = NoValue /\ result # "success"
    BY <1>1 DEF IndInv, WithoutTask, Handing, NoValue
  <2> QED BY <2>1 DEF Validated, ChainedInTime, NoValue
<1>2. CASE task # NoTask
  <2>1. wire[task] \in {"none", "running"}
    BY <1>2, TypeFacts DEF IndInv, ChainedInTime
  <2>2. data = NoValue
    BY <1>2, <2>1 DEF IndInv, DataOfLast
  <2>3. result # "success"
    BY <2>2 DEF IndInv, Handing, NoValue
  <2> QED BY <2>2, <2>3 DEF Validated, ChainedInTime, NoValue
<1> QED BY <1>1, <1>2

(* What the caller does comes before the data, or leaves them alone.        *)
LEMMA CallerValidated == ASSUME IndInv, Validated, Caller PROVE Validated'
<1>1. CASE Create \/ CreateFails
  <2>1. caller = "idle" /\ task = NoTask
    BY <1>1 DEF IndInv, Create, CreateFails, LastTask
  <2>2. data = NoValue /\ result # "success"
    BY <2>1 DEF IndInv, WithoutTask, Handing, NoValue
  <2> QED BY <1>1, <2>2 DEF Create, CreateFails, Validated, NoValue
<1>2. CASE Resume
  <2>1. task # NoTask /\ wire[task] = "none"
    BY <1>2 DEF IndInv, Resume, WithoutTask, LastTask
  <2>2. data = NoValue /\ result # "success"
    BY <2>1 DEF IndInv, DataOfLast, Handing, NoValue
  <2> QED BY <1>2, <2>2 DEF Resume, Validated, NoValue
<1>3. CASE Chain
  <2>1. validations' = Checks
    BY <1>3 DEF Chain, Validated, Checks
  <2> QED BY <1>3, <2>1 DEF Chain, Validated
<1> QED BY <1>1, <1>2, <1>3 DEF Caller

(* A response that fails a check ends the attempt with an error, unless its *)
(* data were never taken.                                                   *)
LEMMA SessionValidated == ASSUME IndInv, Validated, NEW t \in Tasks, Session(t) PROVE Validated'
<1>1. /\ wire[t] \in {"running", "received", "checked", "unknown", "completed"}
      /\ UNCHANGED <<validations, task, result>>
  BY DEF Session, Receive, DidComplete, Decide, Forget
<1>2. t = task /\ task # NoTask /\ task \in Tasks
  BY <1>1, WorkedOnIsLast DEF IndInv
<1>3. CASE Receive(t)
  <2>1. data = NoValue /\ result # "success"
    BY <1>2, <1>3 DEF IndInv, Receive, DataOfLast, Handing, NoValue
  <2>2. wire'[task] = "received"
    BY <1>2, <1>3, TypeFacts DEF IndInv, Receive
  <2> QED BY <1>1, <2>1, <2>2 DEF Validated
<1>4. CASE DidComplete(t)
  <2>1. wire[task] = "received" /\ UNCHANGED <<response, data>>
    BY <1>2, <1>4 DEF DidComplete
  <2>2. CASE task \in requests
    <3>1. error' = (error \/ Checks \cap Fails(response[task]) # {})
      BY <1>2, <1>4, <2>2 DEF DidComplete, Refuse, Validated
    <3>2. Fails(response[task]) # {} => error'
      BY <3>1, FailsFacts
    <3> QED BY <1>1, <2>1, <3>2 DEF Validated
  <2>3. CASE task \notin requests
    <3>1. data = NoValue
      BY <1>2, <2>1, <2>3 DEF IndInv, DataOfLast
    <3> QED BY <1>1, <2>1, <3>1 DEF Validated, NoValue
  <2> QED BY <2>2, <2>3
<1>5. CASE Decide(t)
  <2>1. wire[task] # "received" /\ UNCHANGED <<response, data>>
    BY <1>2, <1>5 DEF Decide
  <2>2. error => error'
    <3>1. ASSUME NEW failed \in BOOLEAN, CompleteTask(t, failed) PROVE error => error'
      BY <3>1, CompleteFacts DEF IndInv
    <3> QED BY <1>5, <3>1 DEF Decide
  <2> QED BY <1>1, <2>1, <2>2 DEF Validated
<1>6. CASE Forget(t)
  <2>1. wire[task] # "received" /\ UNCHANGED <<response, data, error>>
    BY <1>2, <1>6 DEF Forget
  <2> QED BY <1>1, <2>1 DEF Validated
<1> QED BY <1>3, <1>4, <1>5, <1>6 DEF Session

(* A retry takes back the data with the error; giving up leaves an error.   *)
LEMMA GiveUpValidated ==
  ASSUME IndInv, Validated, retrying \in {"asking", "delayed"}, GiveUp,
         UNCHANGED <<validations, task, response, data, result>>
  PROVE  Validated'
<1>1. error'
  <2>1. CASE task = NoTask
    BY <2>1 DEF GiveUp
  <2>2. CASE task # NoTask
    <3>1. task \in requests
      BY <2>2 DEF IndInv, LastTask
    <3> QED BY <2>2, <3>1 DEF GiveUp, CompleteTask
  <2> QED BY <2>1, <2>2
<1> QED BY <1>1 DEF Validated

LEMMA UtilityValidated == ASSUME IndInv, Validated, Utility PROVE Validated'
<1>1. CASE AskRetrier
  <2>1. CASE GiveUp
    BY <1>1, <2>1, GiveUpValidated DEF AskRetrier
  <2>2. CASE ~GiveUp
    BY <1>1, <2>2 DEF AskRetrier, Validated
  <2> QED BY <2>1, <2>2
<1>2. CASE Retry
  <2>1. CASE GiveUp /\ UNCHANGED <<task, data>>
    BY <1>2, <2>1, GiveUpValidated DEF Retry
  <2>2. CASE ~(GiveUp /\ UNCHANGED <<task, data>>)
    <3>1. data' = NoValue /\ UNCHANGED <<validations, result>>
      BY <1>2, <2>2 DEF Retry, ResetAll
    <3>2. suspended
      BY <1>2 DEF IndInv, Retry, WithoutTask, LastTask
    <3>3. result # "success"
      BY <3>2 DEF IndInv, Handing, TypeOK, NoValue
    <3> QED BY <3>1, <3>3 DEF Validated, NoValue
  <2> QED BY <2>1, <2>2
<1>3. CASE Register
  BY <1>3 DEF Register, Validated
<1> QED BY <1>1, <1>2, <1>3 DEF Utility

LEMMA ValidatedKept == ASSUME IndInv, Validated, [Next]_vars PROVE Validated'
<1>1. CASE Caller
  BY <1>1, CallerValidated
<1>2. CASE \E t \in Tasks : Session(t)
  BY <1>2, SessionValidated
<1>3. CASE Utility
  BY <1>3, UtilityValidated
<1>4. CASE Serialize
  <2>1. data = "good" => wire[task] # "received"
    <3>1. CASE task = NoTask
      BY <3>1 DEF IndInv, WithoutTask, NoValue
    <3>2. CASE task # NoTask
      BY <1>4, <3>2 DEF IndInv, LastTask, Serialize
    <3> QED BY <3>1, <3>2
  <2> QED BY <1>4, <2>1 DEF Serialize, Validated
<1>5. CASE Handle \/ UNCHANGED vars
  BY <1>5 DEF Handle, vars, Validated
<1> QED BY <1>1, <1>2, <1>3, <1>4, <1>5 DEF Next

(* When validate() has appended both checks before the first response, a    *)
(* response that fails one is never handed over as a success, whatever is   *)
(* retried (Request.validate, SessionDelegate.didCompleteWithError).        *)
THEOREM ValidatedResponses == Spec => ChainedIsValidated
<1>1. IndInv /\ ChainedInTime => Validated
  BY ValidatedFromChain
<1>2. IndInv /\ Validated /\ [Next]_vars => Validated'
  BY ValidatedKept
<1>3. IndInv /\ Validated => SuccessIsValidated
  BY DEF IndInv, Handing, Validated, SuccessIsValidated, NoValue
<1>4. Spec => []IndInv /\ [][Next]_vars
  BY Invariance, PTL DEF Spec
<1>5. []IndInv /\ [][Next]_vars => [](Validated => []SuccessIsValidated)
  BY <1>2, <1>3, PTL
<1> QED BY <1>1, <1>4, <1>5, PTL DEF ChainedIsValidated

-------------------------------------------------------------------------------
(* The promise of one outcome                                               *)

(* What the caller of the request gets, as HandlerCalledOnce maps it.       *)
Answer == IF outcome = NoValue /\ Hung THEN "hung" ELSE outcome

(* The handler of a suspended queue has not been called, and a request that *)
(* hangs is out of reach of every thread.                                   *)
LEMMA HungForGood == ASSUME IndInv, Hung, [Next]_vars PROVE Hung' /\ outcome = NoValue /\ outcome' = NoValue
<1>1. suspended /\ retrying = "idle" /\ task # NoTask /\ wire[task] = "finished"
  BY DEF Hung
<1>2. operation \notin {"main", "called"} /\ outcome = NoValue
  BY <1>1 DEF IndInv, Handing
<1>3. ~Create /\ ~CreateFails /\ ~Resume
  BY <1>1 DEF IndInv, LastTask, Create, CreateFails, Resume
<1>4. ASSUME NEW t \in Tasks PROVE ~Session(t)
  BY <1>1, WorkedOnIsLast DEF IndInv, Session, Receive, DidComplete, Decide, Forget
<1>5. ~Utility /\ ~Serialize /\ ~Handle
  BY <1>1, <1>2 DEF Utility, AskRetrier, Retry, Register, Serialize, Handle
<1>6. Chain \/ UNCHANGED vars
  BY <1>3, <1>4, <1>5 DEF Next, Caller
<1>7. UNCHANGED <<suspended, retrying, task, wire, outcome>>
  BY <1>6 DEF Chain, vars
<1> QED BY <1>1, <1>2, <1>7 DEF Hung

LEMMA OutcomeForGood == ASSUME IndInv, outcome # NoValue, [Next]_vars PROVE outcome' = outcome
<1>1. operation = "called"
  BY DEF IndInv, Handing
<1>2. ~Handle
  BY <1>1 DEF Handle
<1>3. ASSUME NEW t \in Tasks, Session(t) PROVE outcome' = outcome
  BY <1>3 DEF Session, Receive, DidComplete, Decide, Forget
<1>4. Caller \/ Utility \/ Serialize \/ UNCHANGED vars => outcome' = outcome
  BY DEF Caller, Create, Resume, CreateFails, Chain, Utility, AskRetrier, Retry, Register, Serialize, vars
<1> QED BY <1>2, <1>3, <1>4 DEF Next

LEMMA SettlesOnce == IndInv /\ [Next]_vars => [Promise!Settle]_Answer
<1> SUFFICES ASSUME IndInv, [Next]_vars PROVE [Promise!Settle]_Answer
  OBVIOUS
<1>1. CASE Hung
  BY <1>1, HungForGood DEF Answer
<1>2. CASE outcome # NoValue
  BY <1>2, OutcomeForGood DEF Answer
<1>3. CASE ~Hung /\ outcome = NoValue
  <2>1. outcome' \in {NoValue, "success", "failure"}
    BY NextInv DEF IndInv, TypeOK
  <2>2. Answer' \in {NoValue, "success", "failure", "hung"} /\ Answer = NoValue
    BY <1>3, <2>1 DEF Answer
  <2> QED BY <2>2 DEF Promise!Settle, Answer
<1> QED BY <1>1, <1>2, <1>3

(* The safety half of HandlerCalledOnce, step by step: a request starts     *)
(* without an outcome and takes one once, a second call of the handler or a *)
(* call after the request has hung being no step of WriteOnce.              *)
THEOREM PromiseKept == Spec => Promise!Init /\ [][Promise!Settle]_Answer
<1>1. Init => Promise!Init
  BY DEF Init, Hung, Promise!Init
<1> QED BY <1>1, Invariance, SettlesOnce, PTL DEF Spec

=============================================================================
