--------------------------- MODULE Notifications ---------------------------
(***************************************************************************)
(* Change notifications of one Realm file: the Realm instances, each on    *)
(* its own thread (ObjectStore/src/shared_realm.cpp), the coordinator and  *)
(* its worker thread (impl/realm_coordinator.cpp), and the notifiers of    *)
(* the collections (impl/collection_notifier.cpp, impl/results_notifier.cpp). *)
(*                                                                         *)
(* A critical section of m_notifier_mutex is one step; what the worker and *)
(* a Realm do outside of it are steps of their own.  Versions of the file  *)
(* are numbers, and a change set is the set of the versions it accounts    *)
(* for: a commit either touches the observed table (dirty) or does not.    *)
(* Every notifier has at most one callback here; CallbackList models the   *)
(* list of them.  Realms stay open and refresh automatically.              *)
(***************************************************************************)
EXTENDS Integers, FiniteSets

CONSTANTS Realms,        \* Realm instances of this process, one thread each
          MaxVersion,    \* bound: versions of the file
          MaxNotifiers,  \* bound: notifiers ever created
          MaxCallbacks,  \* bound: callbacks ever added
          MaxSuppress,   \* bound: calls of suppress_next_notification
          MaxCalls,      \* bound: calls of refresh and invalidate, tokens and collections released
          External,      \* whether another process commits too
          WriteInCallback \* whether notification callbacks make writes of their own

ASSUME NotificationsAssumption ==
    /\ {MaxVersion, MaxNotifiers, MaxCallbacks, MaxSuppress, MaxCalls} \subseteq Nat /\ MaxVersion > 0
    /\ External \in BOOLEAN /\ WriteInCallback \in BOOLEAN
    /\ "none" \notin Realms

VARIABLES latest, dirty, \* newest version of the file; the versions that touched the table
          writer,        \* who holds the write lock
          realm,         \* the Realm instances
          nt,            \* the notifiers
          skipV,         \* m_notifier_skip_version, 0 for none
          pin,           \* read version of m_advancer_sg, 0 when it has none
          nsg,           \* read version of m_notifier_sg, 0 when it has none
          worker,        \* where run_async_notifiers is
          pipe,          \* the named pipe was written to since the worker last woke up
          callbacks, suppressed, calls  \* counters, for the bounds

vars == <<latest, dirty, writer, realm, nt, skipV, pin, nsg, worker, pipe, callbacks, suppressed, calls>>

Ids == 1..MaxNotifiers
Versions == 1..MaxVersion
Between(from, to) == {v \in dirty : from < v /\ v <= to}

\* ver: read version, 0 without one.  phase: what the thread is doing.  forW: the
\* package is for begin_transaction.  target, list and at: the version package_and_wait
\* waits for, the notifiers of the package, and the version it delivers (0: none).
IdleRealm(v) == [ver |-> v, phase |-> "idle", forW |-> FALSE, signal |-> FALSE,
                 target |-> 0, list |-> {}, at |-> 0]

\* owner: m_realm ("none" once unregistered).  where: the coordinator's list it is in.
\* ver, ran: m_sg_version and m_has_run.  prev: version m_previous_rows describes.
\* calc: m_changes.  bg: whether its Results wants background updates.  Of the callback:
\* cb (it exists), acc (accumulated_changes), out (changes_to_deliver), told
\* (initial_delivered), skip (skip_next).  History: last (version it was last called
\* for), plain (it was added before its notifier first ran, was never
\* told to skip, and its Realm never moved to a version by other means than a
\* delivery: not by invalidate, nor by a write in a callback).
NoNotifier == [owner |-> "none", where |-> "none", ver |-> 0, ran |-> FALSE, prev |-> 0, calc |-> {},
               bg |-> TRUE, cb |-> FALSE, acc |-> {}, out |-> {}, told |-> FALSE, skip |-> FALSE,
               last |-> 0, plain |-> TRUE]

\* A notifier whose callback was removed
WithoutCallback(x) == [x EXCEPT !.cb = FALSE, !.acc = {}, !.out = {}, !.told = FALSE, !.skip = FALSE,
                                !.last = 0, !.plain = TRUE]

Alive(n) == nt[n].owner # "none"
Main(f) == {n \in Ids : f[n].where = "main"}
New(f) == {n \in Ids : f[n].where = "new"}
Of(r) == {n \in Ids : nt[n].owner = r /\ nt[n].where \in {"new", "main"}}

Idle(r) == realm[r].phase = "idle"
Writing(r) == writer = r /\ Idle(r)

\* The types of what the coordinator, its worker, the notifiers and the Realms keep.
TypeOK ==
    /\ latest \in Versions /\ dirty \subseteq Versions /\ writer \in Realms \cup {"none"}
    /\ realm \in [Realms -> [ver : 0..MaxVersion, phase : {"idle", "wait", "advance", "after"}, forW : BOOLEAN,
                             signal : BOOLEAN, target : 0..MaxVersion, list : SUBSET Ids, at : 0..MaxVersion]]
    /\ nt \in [Ids ->
          [owner : Realms \cup {"none"}, where : {"none", "new", "main", "gone"}, ver : 0..MaxVersion,
           ran : BOOLEAN, prev : 0..MaxVersion, calc : SUBSET Versions, bg : BOOLEAN, cb : BOOLEAN,
           acc : SUBSET Versions, out : SUBSET Versions, told : BOOLEAN, skip : BOOLEAN,
           last : 0..MaxVersion, plain : BOOLEAN]]
    /\ {skipV, pin, nsg} \subseteq 0..MaxVersion
    /\ worker \in [pc : {"idle", "skipRun", "skipHand", "run", "hand", "signal"}, to : 0..MaxVersion,
                   skip : 0..MaxVersion, old : SUBSET Ids, new : SUBSET Ids]

IdleWorker == [pc |-> "idle", to |-> 0, skip |-> 0, old |-> {}, new |-> {}]

Init ==
    /\ latest = 1 /\ dirty = {} /\ writer = "none"
    /\ realm = [r \in Realms |-> IdleRealm(1)]
    /\ nt = [n \in Ids |-> NoNotifier]
    /\ skipV = 0 /\ pin = 0 /\ nsg = 0 /\ worker = IdleWorker /\ pipe = FALSE
    /\ callbacks = 0 /\ suppressed = 0 /\ calls = 0

CountedCall == calls < MaxCalls /\ calls' = calls + 1
Counters == <<callbacks, suppressed, calls>>
File == <<latest, dirty, writer>>
Coordinator == <<skipV, pin, nsg, worker>>

-----------------------------------------------------------------------------
(* Registering notifiers and callbacks                                     *)

\* Results::prepare_async: RealmCoordinator::register_notifier and pin_version.
Register(r, n) ==
    /\ Idle(r) /\ writer # r /\ realm[r].ver # 0
    /\ nt[n].where = "none" /\ \A m \in Ids : m < n => nt[m].where # "none"
    /\ nt' = [nt EXCEPT ![n] = [NoNotifier EXCEPT !.owner = r, !.where = "new", !.ver = realm[r].ver]]
    /\ pin' = IF New(nt) = {} \/ realm[r].ver < pin THEN realm[r].ver ELSE pin
    /\ UNCHANGED <<File, realm, skipV, nsg, worker, pipe, Counters>>

\* add_callback, outside of a delivery; verifyNotificationsAreSupported refuses it in
\* a write transaction.
AddCallback(r, n) ==
    /\ Idle(r) /\ writer # r /\ nt[n].owner = r /\ ~nt[n].cb /\ callbacks < MaxCallbacks
    /\ nt' = [nt EXCEPT ![n].cb = TRUE, ![n].plain = ~nt[n].ran /\ realm[r].ver # 0]
    /\ pipe' = TRUE /\ callbacks' = callbacks + 1
    /\ UNCHANGED <<File, realm, Coordinator, suppressed, calls>>

\* remove_callback: the token may be released on any thread, at any time.
RemoveCallback(n) ==
    /\ nt[n].cb /\ CountedCall
    /\ nt' = [nt EXCEPT ![n] = WithoutCallback(@)]
    /\ UNCHANGED <<File, realm, Coordinator, pipe, callbacks, suppressed>>

\* CollectionNotifier::Handle::reset: the collection goes away.
Unregister(n) ==
    /\ Alive(n) /\ CountedCall
    /\ nt' = [nt EXCEPT ![n].owner = "none"]
    /\ UNCHANGED <<File, realm, Coordinator, pipe, callbacks, suppressed>>

SuppressNext(r, n) ==
    /\ Writing(r) /\ nt[n].owner = r /\ nt[n].cb /\ suppressed < MaxSuppress
    /\ nt' = [nt EXCEPT ![n].skip = TRUE, ![n].plain = FALSE]
    /\ suppressed' = suppressed + 1
    /\ UNCHANGED <<File, realm, Coordinator, pipe, callbacks, calls>>

-----------------------------------------------------------------------------
(* Write transactions                                                      *)

\* Mutant: notifiers without callbacks are waited for too
ReadyAll(list, target) == \A n \in list : nt[n].ran /\ nt[n].ver >= target

\* package_and_wait's predicate for the notifiers of a list
Ready(list, target) == \A n \in list : ~nt[n].cb \/ (nt[n].ran /\ nt[n].ver >= target)

\* begin_transaction up to package_and_wait: the write lock is held while it waits.
\* Without notifiers there is nothing to wait for.
BeginWrite(r) ==
    /\ Idle(r) /\ writer = "none"
    /\ writer' = r
    /\ IF Of(r) = {}
       THEN realm' = [realm EXCEPT ![r].ver = latest] /\ UNCHANGED pipe
       ELSE /\ realm' = [realm EXCEPT ![r] = [realm[r] EXCEPT !.ver = IF @ = 0 THEN latest ELSE @, !.phase = "wait",
                                                       !.forW = TRUE, !.target = latest, !.list = Of(r)]]
            /\ pipe' = (pipe \/ ~Ready(Of(r), latest))
    /\ UNCHANGED <<latest, dirty, nt, Coordinator, Counters>>

\* Mutant: the version after the commit is remembered
SkipNext(r, v) == IF \E n \in Main(nt) : nt[n].owner = r THEN v + 1 ELSE skipV

\* m_notifier_skip_version after the commit of version v by r
SkipAfter(r, v) == IF \E n \in Main(nt) : nt[n].owner = r THEN v ELSE skipV

\* commit_write: the commit and the version to skip are one critical section.
CommitVersion(r, touch) ==
    /\ latest < MaxVersion
    /\ latest' = latest + 1
    /\ dirty' = IF touch THEN dirty \cup {latest + 1} ELSE dirty
    /\ skipV' = SkipAfter(r, latest + 1)
    /\ pipe' = TRUE
    /\ nt' = [n \in Ids |-> IF nt[n].owner = r
                            THEN [nt[n] EXCEPT !.plain = @ /\ Idle(r)] ELSE nt[n]]

CommitWrite(r, touch) ==
    /\ Writing(r) /\ CommitVersion(r, touch)
    /\ writer' = "none" /\ realm' = [realm EXCEPT ![r].ver = latest + 1]
    /\ UNCHANGED <<pin, nsg, worker, Counters>>

CancelWrite(r) ==
    /\ Writing(r)
    /\ writer' = "none"
    /\ UNCHANGED <<latest, dirty, realm, nt, Coordinator, pipe, Counters>>

\* A callback begins and commits a write: nothing is delivered before it.
WriteWhileSending(r, touch) ==
    /\ WriteInCallback /\ realm[r].phase = "after" /\ writer = "none"
    /\ CommitVersion(r, touch)
    /\ realm' = [realm EXCEPT ![r].ver = latest + 1]
    /\ UNCHANGED <<writer, pin, nsg, worker, Counters>>

\* Another process commits; its helper writes to the same pipe.
ExternalCommit(touch) ==
    /\ External /\ writer = "none" /\ latest < MaxVersion
    /\ latest' = latest + 1
    /\ dirty' = IF touch THEN dirty \cup {latest + 1} ELSE dirty
    /\ pipe' = TRUE
    /\ UNCHANGED <<writer, realm, nt, Coordinator, Counters>>

-----------------------------------------------------------------------------
(* The worker: ExternalCommitHelper::listen, RealmCoordinator::on_change   *)

\* clean_up_dead_notifiers, as the notifiers f, and its effect on the versions held
CleanedUp(f) == [n \in Ids |-> IF f[n].where \in {"new", "main"} /\ f[n].owner = "none"
                              THEN [NoNotifier EXCEPT !.where = "gone"] ELSE f[n]]
MainEnds(f) == Main(f) # {} /\ Main(CleanedUp(f)) = {}

\* Mutant: the advancer keeps its version when the last new notifier died
NewEndsNever(f) == FALSE

NewEnds(f) == New(f) # {} /\ New(CleanedUp(f)) = {}

\* ResultsNotifier::run at version to: the rows are compared with those of the last
\* run, and only if someone wants to know.
RunTo(n, to) ==
    LET x == nt[n] IN
    IF x.owner = "none" \/ (~x.cb /\ ~x.bg) \/ (x.ran /\ Between(x.prev, to) = {}) THEN x
    ELSE [x EXCEPT !.prev = to, !.calc = IF x.ran /\ x.cb THEN Between(x.prev, to) ELSE @]

\* prepare_handover at version to, with add_changes
HandedOver(n, to) ==
    LET x == nt[n] IN
    [x EXCEPT !.ver = to, !.ran = TRUE, !.calc = {}, !.skip = FALSE,
              !.acc = IF x.cb /\ ~x.skip THEN @ \cup x.calc ELSE @]

\* run_async_notifiers up to the release of the lock
WorkerBegin ==
    /\ worker.pc = "idle" /\ pipe /\ pipe' = FALSE
    /\ LET f == CleanedUp(nt)
           skip == IF MainEnds(nt) THEN 0 ELSE skipV
           held == IF MainEnds(nt) THEN 0 ELSE nsg
       IN IF Main(f) \cup New(f) = {}
          THEN /\ nt' = f /\ skipV' = skip /\ nsg' = held
               /\ pin' = IF NewEnds(nt) THEN 0 ELSE pin
               /\ worker' = [worker EXCEPT !.pc = "signal"]
          ELSE /\ nt' = [n \in Ids |-> IF f[n].where = "new" THEN [f[n] EXCEPT !.where = "main"] ELSE f[n]]
               /\ skipV' = 0 /\ pin' = 0
               /\ nsg' = IF Main(f) = {} THEN latest ELSE held
               /\ worker' = [pc |-> IF skip # 0 THEN "skipRun" ELSE "run", to |-> latest, skip |-> skip,
                             old |-> Main(f), new |-> New(f)]
    /\ UNCHANGED <<File, realm, Counters>>

WorkerSkipRun ==
    /\ worker.pc = "skipRun"
    /\ nt' = [n \in Ids |-> IF n \in worker.old THEN RunTo(n, worker.skip) ELSE nt[n]]
    /\ nsg' = worker.skip /\ worker' = [worker EXCEPT !.pc = "skipHand"]
    /\ UNCHANGED <<File, realm, skipV, pin, pipe, Counters>>

WorkerSkipHand ==
    /\ worker.pc = "skipHand"
    /\ nt' = [n \in Ids |-> IF n \in worker.old THEN HandedOver(n, worker.skip) ELSE nt[n]]
    /\ worker' = [worker EXCEPT !.pc = "run"]
    /\ UNCHANGED <<File, realm, skipV, pin, nsg, pipe, Counters>>

WorkerRun ==
    /\ worker.pc = "run"
    /\ nt' = [n \in Ids |-> IF n \in worker.old \cup worker.new THEN RunTo(n, worker.to) ELSE nt[n]]
    /\ nsg' = worker.to /\ worker' = [worker EXCEPT !.pc = "hand"]
    /\ UNCHANGED <<File, realm, skipV, pin, pipe, Counters>>

WorkerHand ==
    /\ worker.pc = "hand"
    /\ LET f == [n \in Ids |-> IF n \in worker.old \cup worker.new THEN HandedOver(n, worker.to) ELSE nt[n]] IN
       /\ nt' = CleanedUp(f)
       /\ skipV' = IF MainEnds(f) THEN 0 ELSE skipV
       /\ nsg' = IF MainEnds(f) THEN 0 ELSE nsg
       /\ pin' = IF NewEnds(f) THEN 0 ELSE pin
    /\ worker' = [IdleWorker EXCEPT !.pc = "signal"]
    /\ UNCHANGED <<File, realm, pipe, Counters>>

WorkerSignal ==
    /\ worker.pc = "signal" /\ worker' = IdleWorker
    /\ realm' = [r \in Realms |-> [realm[r] EXCEPT !.signal = TRUE]]
    /\ UNCHANGED <<File, nt, skipV, pin, nsg, pipe, Counters>>

-----------------------------------------------------------------------------
(* Delivery, on the thread of a Realm                                      *)

\* Mutant: packaging leaves the accumulated changes in place
PackageCopies(list) ==
    [n \in Ids |-> IF n \in list THEN [nt[n] EXCEPT !.out = IF nt[n].cb THEN nt[n].acc ELSE @] ELSE nt[n]]

\* package_for_delivery of every notifier of list
PackageAll(list) ==
    [n \in Ids |-> IF n \in list THEN [nt[n] EXCEPT !.out = IF nt[n].cb THEN nt[n].acc ELSE @,
                                                    !.acc = {}] ELSE nt[n]]

\* The notifiers of a list that can be packaged, and the version they are at.
Packaged(list) == {n \in list : nt[n].ran /\ Alive(n)}
VersionsOf(list) == {nt[n].ver : n \in list}

\* refresh up to package_and_wait, with a read transaction; without one,
\* process_available_async follows at once.
Refresh(r) ==
    /\ Idle(r) /\ writer # r /\ CountedCall
    /\ IF realm[r].ver # 0
       THEN /\ realm' = [realm EXCEPT ![r] = [realm[r] EXCEPT !.phase = "wait", !.target = latest, !.list = Of(r)]]
            /\ pipe' = (pipe \/ ~Ready(Of(r), latest)) /\ UNCHANGED nt
       ELSE LET list == {n \in Packaged(Of(r)) : nt[n].ver = latest} IN
            /\ realm' = [realm EXCEPT ![r] = [realm[r] EXCEPT !.ver = latest, !.phase = "after",
                                                       !.list = list, !.at = latest]]
            /\ nt' = PackageAll(list) /\ UNCHANGED pipe
    /\ UNCHANGED <<File, Coordinator, callbacks, suppressed>>

\* The second half of package_and_wait.  A package older than the target is dropped.
PackageAndWait(r) ==
    LET list == Packaged(realm[r].list) IN
    /\ realm[r].phase = "wait" /\ Ready(realm[r].list, realm[r].target)
    /\ nt' = PackageAll(list)
    /\ \E at \in IF list = {} THEN {0} ELSE VersionsOf(list) :
         realm' = [realm EXCEPT ![r] = [realm[r] EXCEPT !.phase = "advance", !.target = 0,
                                          !.list = IF at < realm[r].target THEN {} ELSE list,
                                          !.at = IF at < realm[r].target THEN 0 ELSE at]]
    /\ UNCHANGED <<File, Coordinator, pipe, Counters>>

\* Realm::notify, from the run loop: nothing while in a write transaction; when the
\* Realm is at the latest version, process_available_async; else advance_to_ready.
Notify(r) ==
    /\ realm[r].signal /\ Idle(r)
    /\ LET quiet == [realm[r] EXCEPT !.signal = FALSE]
           ver == realm[r].ver
           same == {n \in Packaged(Of(r)) : ver = 0 \/ nt[n].ver = ver}
           list == Packaged(Of(r))
       IN IF writer = r THEN realm' = [realm EXCEPT ![r] = quiet] /\ UNCHANGED nt
          ELSE IF ver = 0 \/ ver = latest
          THEN /\ nt' = PackageAll(same)
               /\ \E at \in IF same = {} THEN {ver} ELSE VersionsOf(same) :
                    realm' = [realm EXCEPT ![r] = [quiet EXCEPT !.phase = "after", !.list = same, !.at = at]]
          ELSE /\ nt' = PackageAll(list)
               /\ \E at \in IF list = {} THEN {0} ELSE VersionsOf(list) :
                    realm' = [realm EXCEPT ![r] =
                        CASE at # 0 /\ at < ver -> quiet
                          [] at = ver -> [quiet EXCEPT !.phase = "after", !.list = list, !.at = at]
                          [] OTHER -> [quiet EXCEPT !.phase = "advance", !.list = list, !.at = at]]
    /\ UNCHANGED <<File, Coordinator, pipe, Counters>>

\* Mutant: the Realm always advances to the latest version
AdvanceToLatest(r) ==
    /\ realm[r].phase = "advance"
    /\ realm' = [realm EXCEPT ![r] = [realm[r] EXCEPT !.phase = "after", !.ver = latest]]
    /\ UNCHANGED <<File, nt, Coordinator, pipe, Counters>>

\* before_advance and the advance itself, to the package's version or the latest.
Advance(r) ==
    /\ realm[r].phase = "advance"
    /\ realm' = [realm EXCEPT ![r] = [realm[r] EXCEPT !.phase = "after",
                                               !.ver = IF realm[r].at # 0 /\ ~realm[r].forW
                                                       THEN realm[r].at ELSE latest]]
    /\ UNCHANGED <<File, nt, Coordinator, pipe, Counters>>

\* Mutant: a callback is called only when there are changes
CalledIfChanged(n) == nt[n].cb /\ nt[n].out # {}

Called(n) == nt[n].cb /\ (~nt[n].told \/ nt[n].out # {})

\* deliver and after_advance of one notifier; unused: its Results was not read since
\* the last delivery, so it stops asking for updates.
AfterAdvance(r, n, unused) ==
    /\ realm[r].phase = "after" /\ n \in realm[r].list
    /\ realm' = [realm EXCEPT ![r].list = @ \ {n}]
    /\ nt' = [nt EXCEPT ![n] =
                [nt[n] EXCEPT !.bg = @ /\ ~(unused /\ ~realm[r].forW /\ Alive(n)),
                          !.told = @ \/ Called(n),
                          !.last = IF Called(n) THEN realm[r].at ELSE @,
                          !.out = IF Called(n) THEN {} ELSE @]]
    /\ UNCHANGED <<File, Coordinator, pipe, Counters>>

DeliveryEnds(r) ==
    /\ realm[r].phase = "after" /\ realm[r].list = {}
    /\ realm' = [realm EXCEPT ![r] = [realm[r] EXCEPT !.phase = "idle", !.forW = FALSE, !.at = 0]]
    /\ UNCHANGED <<File, nt, Coordinator, pipe, Counters>>

\* Realm::invalidate ends the read transaction; reading again begins one.
Invalidate(r) ==
    /\ Idle(r) /\ realm[r].ver # 0 /\ writer # r /\ CountedCall
    /\ realm' = [realm EXCEPT ![r].ver = 0]
    /\ nt' = [n \in Ids |-> IF nt[n].owner = r THEN [nt[n] EXCEPT !.plain = FALSE] ELSE nt[n]]
    /\ UNCHANGED <<File, Coordinator, pipe, callbacks, suppressed>>

ReadGroup(r) ==
    /\ Idle(r) /\ realm[r].ver = 0
    /\ realm' = [realm EXCEPT ![r].ver = latest]
    /\ UNCHANGED <<File, nt, Coordinator, pipe, Counters>>

-----------------------------------------------------------------------------
Work == WorkerBegin \/ WorkerSkipRun \/ WorkerSkipHand \/ WorkerRun \/ WorkerHand \/ WorkerSignal
Deliver(r) == PackageAndWait(r) \/ Advance(r) \/ (\E n \in Ids, u \in BOOLEAN : AfterAdvance(r, n, u)) \/ DeliveryEnds(r)

Next ==
    \/ Work
    \/ \E n \in Ids : RemoveCallback(n) \/ Unregister(n)
    \/ \E touch \in BOOLEAN : ExternalCommit(touch)
    \/ \E r \in Realms :
         \/ \E n \in Ids : Register(r, n) \/ AddCallback(r, n) \/ SuppressNext(r, n)
         \/ \E touch \in BOOLEAN : CommitWrite(r, touch) \/ WriteWhileSending(r, touch)
         \/ BeginWrite(r) \/ CancelWrite(r) \/ Refresh(r) \/ Notify(r) \/ Deliver(r)
         \/ Invalidate(r) \/ ReadGroup(r)

\* The worker runs when it is woken; run loops turn; write transactions end.
Fairness == /\ WF_vars(Work)
            /\ \A r \in Realms : WF_vars(Deliver(r)) /\ WF_vars(Notify(r)) /\ WF_vars(CancelWrite(r))

Spec == Init /\ [][Next]_vars /\ Fairness

-----------------------------------------------------------------------------
(* Properties                                                              *)

\* What a callback is told, after its initial notification, is exactly what happened
\* between the version it was last told about and the version it is told about now:
\* no commit is lost or reported twice, however commits, the worker's passes and the
\* deliveries of refresh, notify and begin_transaction interleave.  It is about
\* callbacks that never suppressed a notification and were added before their
\* notifier first ran: of others it does not hold.
NotifiedExactly ==
    [][\A r \in Realms, n \in Ids :
         ((\E u \in BOOLEAN : AfterAdvance(r, n, u)) /\ Called(n) /\ nt[n].told /\ nt[n].plain)
           => nt[n].out = Between(nt[n].last, realm[r].at)]_vars

\* A collection is delivered into the version it was computed for: when the callbacks
\* begin to run, the Realm reads the version of the package.
DeliveredAtItsVersion ==
    [][\A r \in Realms : (realm'[r].phase = "after" /\ realm[r].phase # "after"
                          /\ realm'[r].list # {} /\ realm'[r].ver # 0)
                        => realm'[r].ver = realm'[r].at]_vars

\* The advancer holds a version no newer than that of any notifier it still has to
\* pick up, and none when there is nothing to pick up (pin_version, clean_up_dead_notifiers);
\* the worker holds a version exactly while it has notifiers.
PinHolds == /\ (pin = 0) = (New(nt) = {})
            /\ \A n \in New(nt) : pin <= nt[n].ver
            /\ (nsg = 0) = (Main(nt) = {})

\* The worker never has to step back to a version it is told to skip to, and has
\* notifiers then (the assertions of run_async_notifiers).
SkipIsAhead ==
    /\ skipV # 0 => Main(nt) # {} /\ nsg <= skipV
    /\ worker.pc = "skipRun" => worker.old # {} /\ nsg <= worker.skip /\ worker.skip <= worker.to

\* A thread that waits for its notifiers, the write lock possibly in its hands, is
\* served by the worker.
WaitsEnd == \A r \in Realms : (realm[r].phase = "wait") ~> (realm[r].phase # "wait")

\* addNotificationBlock: "The block will be asynchronously called with the initial
\* results collection".
InitialArrives ==
    \A n \in Ids : (nt[n].cb /\ Alive(n)) ~> (nt[n].told \/ ~nt[n].cb \/ ~Alive(n))

\* What the worker holds: neither too little, nor too much, nor in the wrong order.
WorkerHolds == PinHolds /\ SkipIsAhead

=============================================================================
