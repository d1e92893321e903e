------------------------------ MODULE FutureCell ------------------------------
(***************************************************************************)
(* One Future of MJSwiftCore and the threads that use it: setters (set),   *)
(* one by one content of its own each; resolvers, which attach the then    *)
(* closure (then, fail, resolve); waiters, which take the result           *)
(* synchronously; and completers (complete) and clearers (clear).          *)
(*                                                                         *)
(* The lock of the future makes one step of each closure it guards.  What  *)
(* the code reads and writes outside of it is a step of its own: the check *)
(* at the head of set and of resolve, the onSet closure, and all of        *)
(* result.                                                                 *)
(***************************************************************************)
EXTENDS Naturals, Sequences, FiniteSets

CONSTANTS Setters, Resolvers, Waiters, Completers, Clearers,  \* the threads
          None

ASSUME NoneAssumption == None \notin Setters \cup Resolvers \cup Waiters
(* A thread stands for one call: who sets does not also attach a closure.   *)
ASSUME RolesAssumption == Setters \cap Resolvers = {}

Threads == Setters \cup Resolvers \cup Waiters \cup Completers \cup Clearers
Deliveries == [to : Resolvers \cup Waiters, content : Setters]

VARIABLES
  pc,            \* pc[p]: where thread p is in its call
  state,         \* Future.state
  content,       \* Future._result: the setter it is of, or None
  success,       \* the then closure: the resolver that attached it, or None
  queue,         \* the queue on(queue) named: none, the main queue or another one
  async,         \* the closures waiting on that queue
  onContentSet,  \* whether the onSet closure is still to be called
  onSetCalled,   \* whether it was called
  semaphore,     \* the waiter that made the semaphore the future holds, or None
  signalled,     \* the waiters whose semaphore was signalled
  deliveries     \* what was delivered so far, in order

futureVars == <<pc, state, content, success, queue, async, onContentSet, onSetCalled,
          semaphore, signalled, deliveries>>

States == {"blank", "waitingThen", "waitingContent", "sent"}

(* The types; in particular no semaphore but that of a waiter is signalled. *)
FutureTypeOK ==
  /\ pc \in [Threads -> {"start", "onSet", "disarm", "lock", "create", "wait", "take",
                         "done", "fatalError"}]
  /\ state \in States
  /\ content \in Setters \cup {None}
  /\ success \in Resolvers \cup {None}
  /\ queue \in {None, "main", "other"}
  /\ async \in Seq(Deliveries)
  /\ onContentSet \in BOOLEAN /\ onSetCalled \in BOOLEAN
  /\ semaphore \in Waiters \cup {None}
  /\ signalled \in SUBSET Waiters
  /\ deliveries \in Seq(Deliveries)

FutureInit ==
  /\ pc = [p \in Threads |-> "start"]
  /\ state = "blank" /\ content = None /\ success = None
  /\ queue \in {None, "main", "other"} /\ async = <<>>
  /\ onContentSet = TRUE /\ onSetCalled = FALSE
  /\ semaphore = None /\ signalled = {}
  /\ deliveries = <<>>

Go(p, from, to) == pc[p] = from /\ pc' = [pc EXCEPT ![p] = to]

-------------------------------------------------------------------------------
(* The closure goes to the queue, or runs in the caller's thread, still     *)
(* under the lock, when there is no queue or the caller is on the main      *)
(* thread and the queue is the main queue.                                  *)
Deliver(d) ==
  \/ queue # None /\ async' = Append(async, d) /\ UNCHANGED deliveries
  \/ queue # "other" /\ deliveries' = Append(deliveries, d) /\ UNCHANGED async

(* send: either way the closure is attached no more.                        *)
SendKeepingClosure(p, c) == Deliver([to |-> p, content |-> c]) /\ UNCHANGED success
Send(p, c) == Deliver([to |-> p, content |-> c]) /\ success' = None

RunAsync ==
  /\ async # <<>>
  /\ async' = Tail(async)
  /\ deliveries' = Append(deliveries, Head(async))
  /\ UNCHANGED <<pc, state, content, success, queue, onContentSet, onSetCalled,
                 semaphore, signalled>>

(* set(value:error:).                                                       *)
SetCheck(p) ==
  /\ Go(p, "start", IF content # None \/ state = "sent" THEN "done" ELSE "onSet")
  /\ UNCHANGED <<state, content, success, queue, async, onContentSet, onSetCalled,
                 semaphore, signalled, deliveries>>

SetOnContentSet(p) ==
  /\ Go(p, "onSet", IF onContentSet THEN "disarm" ELSE "lock")
  /\ onSetCalled' = (onSetCalled \/ onContentSet)
  /\ UNCHANGED <<state, content, success, queue, async, onContentSet, semaphore,
                 signalled, deliveries>>

SetDisarm(p) ==
  /\ Go(p, "disarm", "lock")
  /\ onContentSet' = FALSE
  /\ UNCHANGED <<state, content, success, queue, async, onSetCalled, semaphore,
                 signalled, deliveries>>

(* if let semaphore = semaphore { semaphore.signal() }                      *)
SignalUnchecked(s) == signalled' = signalled \cup {s}
Signal(s) == signalled' = signalled \cup ({s} \ {None})

SetLocked(p) ==
  /\ Go(p, "lock", "done")
  /\ content' = p
  /\ IF success # None
       THEN Send(success, p) /\ state' = "sent" /\ UNCHANGED signalled
       ELSE /\ state' = "waitingThen"
            /\ Signal(semaphore)
            /\ UNCHANGED <<success, async, deliveries>>
  /\ UNCHANGED <<queue, onContentSet, onSetCalled, semaphore>>

(* resolve: a second closure while one is attached is a fatal error.        *)
ResolveCheck(p) ==
  /\ Go(p, "start", IF success # None THEN "fatalError" ELSE "lock")
  /\ UNCHANGED <<state, content, success, queue, async, onContentSet, onSetCalled,
                 semaphore, signalled, deliveries>>

ResolveLateCheck(p) ==
  /\ Go(p, "lock", "done")
  /\ success' = p /\ state' = "waitingContent"
  /\ UNCHANGED <<content, async, deliveries, queue, onContentSet, onSetCalled, semaphore,
                 signalled>>
ResolveLocked(p) ==
  /\ Go(p, "lock", "done")
  /\ IF content # None
       THEN Send(p, content) /\ state' = "sent"
       ELSE success' = p /\ state' = "waitingContent" /\ UNCHANGED <<async, deliveries>>
  /\ UNCHANGED <<content, queue, onContentSet, onSetCalled, semaphore, signalled>>

(* result: look at the state, and while it is blank make a semaphore and    *)
(* wait on it.  Nothing here takes the lock.                                *)
ResultLook(p) ==
  /\ Go(p, "start", CASE state = "waitingThen" -> "take"
                      [] state = "blank" -> "create"
                      [] OTHER -> "fatalError")
  /\ UNCHANGED <<state, content, success, queue, async, onContentSet, onSetCalled,
                 semaphore, signalled, deliveries>>

ResultCreate(p) ==
  /\ Go(p, "create", "wait")
  /\ semaphore' = p
  /\ signalled' = signalled \ {p}
  /\ UNCHANGED <<state, content, success, queue, async, onContentSet, onSetCalled,
                 deliveries>>

ResultWait(p) ==
  /\ p \in signalled
  /\ Go(p, "wait", "start")
  /\ UNCHANGED <<state, content, success, queue, async, onContentSet, onSetCalled,
                 semaphore, signalled, deliveries>>

ResultTake(p) ==
  /\ IF content # None
       THEN /\ Go(p, "take", "done")
            /\ state' = "sent"
            /\ deliveries' = Append(deliveries, [to |-> p, content |-> content])
       ELSE Go(p, "take", "fatalError") /\ state' = "sent" /\ UNCHANGED deliveries
  /\ UNCHANGED <<content, success, queue, async, onContentSet, onSetCalled, semaphore,
                 signalled>>

Complete(p) ==
  /\ Go(p, "start", "done")
  /\ state' = "sent"
  /\ success' = IF state # "sent" THEN None ELSE success
  /\ UNCHANGED <<content, queue, async, onContentSet, onSetCalled, semaphore, signalled,
                 deliveries>>

Clear(p) ==
  /\ Go(p, "start", "done")
  /\ state' = "blank" /\ content' = None /\ success' = None
  /\ UNCHANGED <<queue, async, onContentSet, onSetCalled, semaphore, signalled, deliveries>>

-------------------------------------------------------------------------------
Step(p) ==
  \/ p \in Setters /\ (SetCheck(p) \/ SetOnContentSet(p) \/ SetDisarm(p) \/ SetLocked(p))
  \/ p \in Resolvers /\ (ResolveCheck(p) \/ ResolveLocked(p))
  \/ p \in Waiters /\ (ResultLook(p) \/ ResultCreate(p) \/ ResultWait(p) \/ ResultTake(p))
  \/ p \in Completers /\ Complete(p)
  \/ p \in Clearers /\ Clear(p)

FutureNext == RunAsync \/ \E p \in Threads : Step(p)

(* Every thread that can go on does, and the queue runs its closures.       *)
(* Nobody has to call complete or clear.                                    *)
FutureFairness ==
  WF_futureVars(RunAsync) /\ \A p \in Setters \cup Resolvers \cup Waiters : WF_futureVars(Step(p))

FutureSpec == FutureInit /\ [][FutureNext]_futureVars /\ FutureFairness

-------------------------------------------------------------------------------
AllDelivered == deliveries \o async

(* However many setters and completers race, a closure is delivered at most *)
(* one content (lines 286-317, 372-390, 449-480).                           *)
ClosureCalledOnce ==
  \A i, j \in 1..Len(AllDelivered) : AllDelivered[i].to = AllDelivered[j].to => i = j

(* Whoever receives a content receives one that was set, after the onSet    *)
(* closure was called: what Executor+Future relies on (lines 292-297).      *)
OnSetComesFirst ==
  /\ content # None => onSetCalled
  /\ \A i \in 1..Len(AllDelivered) :
       onSetCalled /\ pc[AllDelivered[i].content] = "done"

(* A closure is attached only while there is no content for it: the future  *)
(* never sits on both (lines 299-316, 380-389).                             *)
NeverSitsOnBoth == success # None => content = None

(* The three together: content and closures meet exactly once, in order.    *)
CellSafe == ClosureCalledOnce /\ OnSetComesFirst /\ NeverSitsOnBoth

Untouched == \A p \in Completers \cup Clearers : pc[p] = "start"

(* A future that nobody completes or clears delivers its content to a       *)
(* closure, whichever of the two comes first and whoever else looks at it.  *)
ClosureServed ==
  []Untouched => <>(\E i \in 1..Len(deliveries) : deliveries[i].to \in Resolvers)
===============================================================================
