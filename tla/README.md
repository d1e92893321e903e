# Verification of Workshop 2018 (iOS)

TLA+ models of the app in `src/Workshop 2018`, a reader of Hacker News "ask"
stories, and of the libraries in its `Pods` directory that carry behaviour of
their own: Alamofire and MJSwiftCore under the app's two screens, and the object
store of Realm, with its notifications and its synchronization. TLC checks the
models on small instances, TLAPS proves the main results for every value of the
constants. Paths below are relative to `src/Workshop 2018/`; `MJ` stands for
`Pods/MJSwiftCore/MJSwiftCore/Classes`, `AF` for `Pods/Alamofire/Source`, `OS`
for `Pods/Realm/Realm/ObjectStore/src`, whose headers are in
`Pods/Realm/include`.

## 1. Inventory

### The app

| component | state | operations | correct when |
|---|---|---|---|
| List screen, `Workshop 2018/Screens/List/ListViewController.swift` | `items`, `loadingItems`, the table's counts, the refresh control, one `DispatchGroup` and array per load | `viewWillAppear`, `pullToRefresh`, `reloadData`, data source, selection | every load completes once; what is shown is one whole load; cells exist; indicators end with their load |
| Detail screen, `Screens/Detail/DetailViewController.swift` | `item`, `kids`, `loadingKids`, one group and array per load | `viewWillAppear`, `reloadData`, data source | nothing is published before the loop and all handlers are over; the notification is not missed |
| Network, `Network/Network.swift` | the session manager | `askstoriesItemsIds`, `itemById` | each call ends in exactly one of its two closures |
| App start, `AppDelegate.swift`, with `MJ/iOS/ContainerViewController.swift` | the contained controller, children, subviews, running animations | `set`, `viewDidLoad`, the containment callbacks | the contained controller is the one on screen |

A load goes: `reloadData` to the global background queue, `Network` to a
request of Alamofire, the answer to the main queue, one request per item, each
answer again to the main queue, the `DispatchGroup` to the notify block on the
main queue, the completion closure to the table. Nothing cancels a load and
nothing prevents two at once.

### Alamofire and MJSwiftCore

| component | state | operations | what is hard |
|---|---|---|---|
| Data request, `AF/{SessionManager,SessionDelegate,Request,TaskDelegate,Validation,ResponseSerialization}.swift` | validations, error, data, the suspended operation queue, the delegate's table of tasks | `request`, `validate`, `response`, `didReceive`, `didCompleteWithError`, `retry` | the task runs while the caller still chains; a retry swaps the task; adapters throw |
| Retriers and adapters, `MJ/Alamofire` | the index of the retrier asked | `should`, `adapt` | ends with an answer in every case |
| Future, `MJ/Future/Future.swift` | state, `_result`, closures, `onContentSet`, semaphore | `set`, `resolve`, `result`, `complete`, `clear` | checks outside of the lock, a synchronous reader, several setters |
| Container, `MJ/iOS/ContainerViewController.swift` | see the app | | overlapping animations |
| Observable, hub, batches, executors, scope locks, repositories, Vastra, shared timer, push queue, binary search, wrappers | | | offered by the library and not used by the app: not modelled |

### Realm

| component | state | operations | what is hard |
|---|---|---|---|
| Sync session, `OS/sync/{sync_session,sync_user,sync_manager}.cpp`, `Pods/Realm/Realm/RLMSyncSessionRefreshHandle.mm` | the state, deferred close and commit, death count, completion handlers; the user's two tables; the manager's table and the external references; the refresh handle | `get_session`, `close`, `revive_if_needed`, `log_out`, `handle_error`, `refresh_access_token`, `wait_for_*_completion`, the answers of the sync client and of the token server | references dropped by any thread while a session dies; late answers; two locks |
| Change notification, `OS/impl/{realm_coordinator,collection_notifier,results_notifier}.cpp`, `OS/shared_realm.cpp` | versions of the file, of each Realm and each notifier; new and running notifiers; two pinned transactions; the version to skip | register, commit, `run_async_notifiers`, `package`, refresh, notify, begin a write, deliver | the worker against the Realms' threads, commits of other processes, writes inside callbacks |
| Notifier callbacks, `OS/impl/collection_notifier.cpp` | the list, the loop's index, the package's count, the flag that there are any | add, remove, add changes, package, call, deliver an error | the list changes behind the loop's back |
| Change sets, `OS/index_set.cpp`, `OS/impl/collection_change_builder.cpp`, parts of `results_notifier.cpp` and `transact_log_handler.cpp` | deletions, insertions, modifications, moves; sets as ranges | record, merge, calculate, finalize | the same entry has another index in each set |
| Sync metadata and files, `OS/sync/impl/{sync_metadata,sync_file}.cpp`, `OS/sync/sync_manager.cpp` | users and pending file actions in a Realm of their own; directories; recovery copies | launch, log in, log out, session error, file actions | a crash between any two steps; file operations that fail |
| Transaction log, `Pods/Realm/include/core/realm/impl/transact_log.hpp` | the selections of the encoder and the reverser | record, reverse | selections are only written when they change |
| Key-value observation, `OS/impl/transact_log_handler.cpp` | the observed rows and lists, a builder for each | replay the log, tell | rows move while the log is replayed |
| Schema, `OS/{schema,object_store}.cpp` | | compare, migrate | sequential; not modelled |
| Core headers, `Pods/Realm/include/core` | the database | | templates over a binary library; not modelled |

The parts meet in versions of the file. A commit makes a version and wakes the
coordinator's worker, which brings the notifiers of every collection to it and
hands their changes over; the thread of each Realm packages what was handed over,
advances its Realm to the version of the package, telling the observers of objects
on the way, and then calls the callbacks. A session is told of commits and uploads
them. A session error may leave a file action behind, which is carried out at the
next launch.

`PROJECT.json` lists every component with its status, and under "hazards" each
place where this code can go wrong in a way a test would hardly reach, with the
properties that watch it or the reason why none does.

## 2. The modules

| module | extends or instantiates | proofs |
|---|---|---|
| `ItemFeed`, abstract; `ListScreen`, `DetailScreen` | both screens implement it | `ListScreenProofs`, `DetailScreenProofs` |
| `WriteOnce`, abstract; `RequestLifecycle` | implements it | `SwiftProofs` |
| `FutureCell` | | `SwiftProofs` |
| `ContainerScreen` | | `SwiftProofs` |
| `SyncSession` | | `SyncProofs` |
| `Notifications`, `CallbackList` | one models the versions, the other the list of callbacks | `NotifierProofs` |
| `IndexSets` <- `ChangeBuilder` <- `ResultChanges` <- `ChangeTracking` | each extends the one before | `IndexSetProofs`, `TrackingProofs`, with `FoldTheorems` |
| `TransactLog`, `KVOAdapter` <- `ObservedRows` | `KVOAdapter` extends `ChangeBuilder` | `TrackingProofs` |
| `SyncFiles` | | `SyncProofs` |

The `MC*` modules only extend these; the `.cfg` files give the constants.
A definition whose comment begins with "Mutant:" is a plausible mistake in the code
of the definition that follows it. No specification uses it: put in the place
of that definition it must make a run fail, which shows that the run's property
says something about the code. `PROJECT.json` pairs each property with one.

A proof module can be about two or three components, so no two of those share a
name: where they would, the component's name comes first (`FutureSpec`, `ContainerTypeOK`,
`CallbacksNext`, `FilesInit`).

**ItemFeed** is what both `reloadData` promise: a load starts, the service
offers it items one by one, and it ends once, by replacing what is shown with
all it was offered in some order, or, offered nothing, by leaving it alone.

**ListScreen.** One action per event: `ViewWillAppear`, `PullToRefresh`,
`SelectRow`, `DismissAlert` (user); `AskIds`, `AnswerIds`, `AnswerItem`
(background queue and network); `Gather`, `RefuseIds`, `ItemHandler`,
`Publish`, `FailLoad` (blocks of the main queue, first in first out, each run to
its end). A load is a call of `reloadData` and keeps its own `ids`, `group`,
`request` states and `array`, as the closures capture them. `Completion` is the
closure the caller passed: the one of `viewWillAppear` clears `loadingItems`,
the one of `pullToRefresh` ends the refresh control, and both reload the table,
whose layout is kept as of that reload. The main queue runs the notify block
after what is queued already; the failure closure queues a further block.

**DetailScreen** differs in where the group is entered: in a loop on a
background thread, one turn per `EnterNext`, while `ItemHandler` runs on the main
queue. `Notify` comes after the loop; the group may have emptied any number of
times before. The item handed over has kids or none, and its kids are a set: the
order of the loop is free.

**RequestLifecycle** is one request of `Network`: the caller's chain
(`Create`, `Resume`, `Chain`), the session's delegate queue (`Receive`,
`DidComplete`, `Decide`, `CompleteTask`, `Forget`), the retriers and the utility
queue (`AskRetrier`, `Retry`, `Register`), and the handler (`Serialize`,
`Handle`). `CreateFails` is an adapter that throws. The steps are cut where another
thread can come between: `DidComplete` reads the validations array as far as the
caller has appended, and `Register` follows the resume of the retried task.
**WriteOnce** is its abstract side: one outcome, once, and it comes.

**FutureCell** cuts `set`, `resolve` and `result` at the borders of the lock:
what runs under it is one step, what the code reads before is another. A thread
makes one call. A closure is identified by who attached it, a content by who set it.
Values and errors take the same path and are not told apart. A queue that is the
main queue delivers at once or later, depending on the thread that delivers.

**ContainerScreen** has one action per branch of `set` and per callback;
`AnimationEnds` is the completion closure of any running animation, in any order.
UIKit's part (children, subviews) is what the calls do to the two sets.

**SyncSession** is one path of the manager's table. A critical section of a session's
state mutex is one step, because it takes no other; the mutexes of the user and
of the manager are held over calls and are variables. What a thread still has to
do once it released the state mutex is its `todo`: other threads run between two
items of it. `Closed`, `IntoDying` and `Refreshed` are the transitions of the four state classes;
`UploadAnswered` compares the death it was asked by with the present one, as the
waiter registered by `Dying::enter_state` does; `HandleError` has one follow-up
per kind of error; the token actions are the outcomes of a request of the
refresh handle, and what it leaves to the main queue is an item of the thread `main`. A `REALM_ASSERT` that does not hold sets `failed`, which ends the
behaviour.

**Notifications** keeps versions as numbers and a change set as the set of commits it
accounts for, so that "told once, and of everything" can be said. The worker's
`run_async_notifiers` is cut where it releases the lock (`WorkerBegin`, `WorkerSkipRun`,
`WorkerSkipHand`, `WorkerRun`, `WorkerHand`, `WorkerSignal`); a delivery is `Refresh`, `Notify` or
`BeginWrite`, then `PackageAndWait`, `Advance`, `AfterAdvance` per callback, `DeliveryEnds`.
`plain` and `last` are history: whether the callback was there when its notifier first
ran and never suppressed anything, and the version it was last told of.

**CallbackList** is the list where `Notifications` has one callback. The loop of
`for_each_callback` is `BeginLoop`, `CallCallback` or `SkipCallback` per entry, `Return`, `EndLoop`; between
a call and its return anything may happen to the list. The index and the count are
those of the code, -1 for `npos`. `gone` is history: a callback was removed between
the moment `deliver_error` read the size of the list and the loop over it.

**IndexSets** walks and rebuilds ranges as `index_set.cpp` does; **ChangeBuilder** has
one operator per method of `CollectionChangeBuilder`; **ResultChanges** is `calculate` with the
longest matches of the sorted case; **ChangeTracking** puts them behind operations on a
list, a table and query results, grouped into transactions whose records are merged.
Entries have an identity the code does not see. It says what the change sets have
to describe.

**TransactLog** records instructions together with the selections the encoder keeps,
and reverses a log as `TransactReverser` does. **KVOAdapter** replays a log to the observer
and turns its builders into what each observer is told. **ObservedRows** performs
operations on rows and lists and ends with `Advance` (over the transactions of another
Realm) or `Rollback` (of a write of one's own).

**SyncFiles** has one step per write transaction of the metadata Realm and per file
operation. `Launch` to `CreateUsers` is `configure_file_system`; `ResetMetadata` is a launch that
cannot open the metadata and starts them anew, which `RLMSyncManager.mm:113` asks for;
`LogIn` and `SetToken` are the two transactions of a log in; `SessionError` stores a file action, with a
name that no recovery file has at that moment (`mkstemp` makes the file and removes it again, so that
two actions may get one name); `Crash` ends the process anywhere, and forgets `mem`, `op` and what the
launch had read, nothing else. `was` and `lost` are history: what each user should be at the
next launch, and the directories that were there when the metadata were reset.

## 3. The runs

| run | instance | shows |
|---|---|---|
| `list` | 3 loads, 2 ids | type and safety invariants, every load ends, `ListScreen` implements `ItemFeed` |
| `detail` | 2 loads, 2 ids | the same for `DetailScreen` |
| `request` | 2 retriers, 2 retries, Accept header | what a handler gets, that it comes once, that only a retry can lose it |
| `future` | 2 setters, 2 closures, 1 reader, 1 `complete`, 1 `clear` | one content per closure, after `onSet`, and delivered when nobody completes or clears |
| `container` | 4 controllers, each set once, a parent after loading | the contained controller is shown through overlapping animations |
| `session` | 2 sessions of a path, 2 openings, 1 commit, 1 completion handler, 2 events | a dying session can end, nobody is called twice, a session dies only with its changes uploaded |
| `notify` | 1 Realm, 1 notifier, 1 callback, another process, 3 versions | what is told, at which version, and that waits end |
| `callbacks` | 4 callbacks, 2 passes, errors | who is called in a delivery, and when the list is read past its end |
| `changes` | lists, tables, two kinds of results of 0 or 3 entries, 3 operations | change sets are true, complete, and sets of indexes |
| `files` | 2 users, 3 directories, 2 recovery names, 2 log ins, 2 crashes, 1 failure | files are owned, contents kept, launches right |
| `observe` | 3 rows, two of them observed, lists of 2, 3 operations | what observers are told is true |
| `log_out` | the `session` instance with 1 event and no handler | finding, below |

**Bounds.** Every counter that could grow for ever is bounded by a constant in a
guard: `MaxLoads`, `MaxRetries`, `MaxSessions`, `MaxOpens`, `MaxCommits`, `MaxEvents`, `MaxVersion`, `MaxNotifiers`,
`MaxTokens`, `MaxPasses`, `MaxSuppress`, `MaxCalls`, `MaxOps`, `MaxLogins`, `MaxCrashes`, `MaxFailures`.
Overlap of loads needs two; three let an answer of the first outlive two others. Two
ids give a group that empties half way and both orders of arrival. Two retries give a
retried attempt that is retried. Two sessions and two openings give a session that is
revived while it dies, and one that replaces another; one commit between two deaths is
what an early answer would lose. Three versions give a commit to skip between two
that are told. Four callbacks let one before, at and after the loop's
place leave while another comes. With three operations two transactions are merged,
one of which has two operations, and each pair of operations meets; three entries have
a first, a middle and a last. Names and tokens are only compared with each other in `files`,
which takes them as symmetric; its properties are invariants and action properties,
for which that is sound. Its one failure is a file operation or a reset of the metadata. Two crashes let the recovery from a crash crash. `Huge`
stands for the largest `size_t`, which `clear_table` passes for a size that is not known.
Deadlock is not checked: a user who does nothing more, a request that was answered, and
used-up bounds are ends the systems really have. What must not wait for ever is
stated as liveness (`WaitsEnd`, `InitialArrives`, `HandlerCalledOnce`, `ClosureServed`, `ItemFeed`, `LogOutEnds`).

**Fairness.** Screens: `WF` for the main queue, for each background block and for
each answer of the network: the run loop and GCD run what they are given, and
URLSession ends every task, with a time-out if nothing comes. Requests and futures:
the same for the queues and threads that were given work. `Notifications`: `WF` for the
worker, which has a thread of its own, for a Realm's run loop, which is told through
the named pipe, and for the end of a write, which an application must not hold open.
`SyncSession`: each thread that is not blocked goes on, and the sync client and the
token server answer. No user action, retrier's yes, `complete` or `clear`, commit,
error, crash or removal is assumed to happen. The other modules have no liveness
property and state no fairness.

**Finding: a log out and an opening of a Realm wait for each other** (`log_out`,
`LogOutEnds`). `SyncUser::log_out` (`OS/sync/sync_user.cpp:154-163`) holds the user's mutex while
it logs the sessions out; a session that becomes inactive calls
`SyncManager::unregister_session` (`sync_manager.cpp:464-466`), which takes the mutex of the table.
`SyncManager::get_session` (`sync_manager.cpp:446-459`) holds that one while it calls
`SyncUser::register_session`, which takes the user's. `reconnect` holds the table's mutex in the same way.
`sync_user.hpp:92` promises: "Log the user out and mark it as such. This will also
close its associated Sessions."

## 4. What the properties leave out

These are behaviours of the code which the models have and the properties of the
passing runs make an exception for, by a condition in the property or a constant of the
configuration.

- *Loading title* (`ListViewController.swift:15`, `:53`): a pull that ends before the
  first load fills `items` and reloads, but `loadingItems` still hides them until the
  first load ends. `ScreenSafe` only says that the flag is not left behind.
- *Validation* (`Network.swift:56`): `request()` resumes the task before `validate()`
  appends its checks; a response that completes in between is a success whatever its
  status. `ChainedIsValidated` is about chains complete before the first response.
- *Retry* (`AF/SessionManager.swift:861`): a retried task that completes before it is
  registered never opens the handler's queue. The app configures no retrier;
  `RetriesAreClean` says that this is the only way to hang.
- *Synchronous result* (`Future.swift:401`): the reader finds the future blank, a setter
  sets it and finds no semaphore, the reader creates one and waits for ever. Or: a
  content is set, the reader takes it and leaves it in place, and a closure that is attached
  later gets it as well.
- *Container* (`ContainerViewController.swift:89`, `:134`): setting back a controller that
  is still leaving, and a parent that comes before the view is loaded, leave the
  contained controller without its view. `AppDelegate` does neither (`Reuse`, `Embedding`).
- *Late callback* (`collection_notifier.cpp:192`, `collection_notifier.hpp:233-234`): the worker
  reads `m_have_callbacks` without the lock and keeps no record of the rows when it saw
  none. The comment says a stale value is "at worst ... some extra work"; a callback
  added while the worker runs may be told later of changes since another version than the one its
  first call showed. `NotifiedExactly` is about callbacks that were there when the
  notifier first ran (`plain`).
- *Package count* (`collection_notifier.hpp:240-243`): `m_callback_count` counts the
  callbacks of the package that are still present, but `remove_callback` also takes one
  off for a callback that was added after packaging. A callback of the package at
  the end of the list is then passed over, and the changes packaged for it are lost: the next
  package assigns `changes_to_deliver` anew (`collection_notifier.cpp:366-367`). `RemovesNew` is
  FALSE in the configuration and an assumption of the theorems.
- *Errors* (`collection_notifier.cpp:341`): `deliver_error` reads the size of the list before
  it takes the lock; with a callback removed in between the loop reads past the end of the
  list. `ListIsRight` says that this is the only way (`ReadsInside`).
- *Passed over* (`transact_log_handler.cpp:576`): `erase_rows` puts the last of `m_info.lists` in
  the place of the list of the erased row and goes on with the next. When that list is
  the one of the last row of the table, it keeps its old index, and what happens to it
  later in the log is not told to its observer. `AdvanceToldTrue` excepts these (`skipped`).
- *Rollback* (`transact_log.hpp:2658`, `:2754`; `transact_log_handler.cpp:540`): the reverser keeps
  a move within a list as it is, puts a selection of a list behind its instructions only when
  the next comes, although rows may have moved since, and what undoes an unordered erasure
  is read as an ordered insertion. `RollbackToldTrue` is about writes without these.
- *Reset after a crash* (`sync_manager.cpp:186`, `Pods/Realm/include/RLMSyncUtil.h:96-98`): a crash
  after the recovery copy was made and before the original is removed leaves a copy whose name is
  taken; each later launch refuses to copy, and the file is never reset. No contents are
  lost (`NothingLost`).
- *Reset metadata* (`sync_manager.cpp:77-82`): with the rows the launch loses the way to the
  directories that are on the disk. Nothing is removed that should stay (`NothingLost`) and nobody is
  brought back (`LaunchRestores`), but nothing removes these directories later either, also those of
  users who had logged out. `FilesAreOwned` is about the others (`lost`).
- *Revived user* (`sync_user.cpp:189`): `set_is_admin` asks for the user's row with
  `make_if_absent`, which unmarks it. When the user is logged out between the two halves of a
  log in, the log out marks the row, `set_is_admin` unmarks it, and the next launch creates the
  user again. `LaunchRestores` makes an exception for such a user (`was = "revived"`).
- *Unanswered handlers* (`RLMSyncSessionRefreshHandle.mm:230`): a token answer that does not
  parse ends the handle; the completion handlers of a waiting session are not called then,
  whatever `sync_session.hpp:142-144` says.
- *Asserted state* (`sync_session.cpp:595-597`, `:702`): an error of the server that arrives while a log
  out makes the session inactive runs into the assertion of `advance_state`; the model
  stops there (`failed`).

## 5. What is proved

Each proof takes one lemma per action, a step per conjunct that the action disturbs,
and the temporal step at the end. Constants are assumed to be what the `ASSUME` of
the module says: natural numbers for bounds, arbitrary sets otherwise.

**The list screen** (`ListScreenProofs`), for every number of loads and every finite set of items:
`Invariance` (`Spec => []IndInv`), `TypeCorrect`, `ScreenIsSafe` and `StepsOfFeed`. That a group is never left
too often needs that an `item` block belongs to a request still counted, which needs
that each such block is queued once; that a published array is whole needs the count
to be the number of outstanding requests; that an indicator is not left on needs
each load in progress to have the block, the request or the answer its stage announces.
`StepsOfFeed` is the refinement without its fairness: under the mapping of `ImplementsFeed`
the initial states are those of `ItemFeed` and every step is one of it or a stutter. It
needs the invariant: an ending load replaces what is shown by an order of everything it
was offered only because its array holds each item once.

**The detail screen** (`DetailScreenProofs`), for the same constants: `Invariance`, `TypeCorrect`, `ScreenIsSafe`,
`StepsOfFeed`. Here handlers run while the loop still enters the group, so the invariant
counts a group by the requests outstanding, and adds that the requests follow the loop,
that a load has all of them when it registers `notify`, and that every block of the main queue finds
its load as it was when it was queued, and is queued once.

**The request** (`SwiftProofs`), for every number of retriers and retries, with and without the
header: `Invariance`, `TypeCorrect`, `CleanRetries`, `ValidatedResponses`, `PromiseKept`. The
invariant numbers the attempts with the retries, so that all tasks but the last are
over; how far the last one is tells where the retriers are, whether the request is
found under it and whether its queue is open; the data are those it received while registered.
Only a task resumed before it is registered escapes this, which is the exception of section 4.
`ValidatedResponses` needs a second invariant that begins when the chain is complete: from then
on a bad response sets the error before the queue opens. `PromiseKept` is the refinement of `WriteOnce`
without its fairness.

**The future** (`SwiftProofs`), for every number of threads of each kind: `FutureInvariance`, `FutureTypeCorrect`, `CellIsSafe`.
`CellSafe` alone is not inductive: that a setter past the `onSet` closure knows that it was called,
that a closure in the future was attached by a call that is over, and that a closure that was given a
content is attached no more, is what keeps a content from being delivered twice by two threads
that checked before either took the lock. The one assumption besides `None` is that a thread stands
for one call, so that who attaches a closure does not go on as a setter. What is delivered and what still waits
on the queue are kept as two sets there; a lemma turns them into the positions of `CellSafe`.

**The container** (`SwiftProofs`), for every set of controllers (`ContainedIsShown`): when each is set once and no
parent comes before the view is loaded, the contained controller stays shown. Running
animations will remove pairwise different controllers, none the contained one, and the
view holds exactly these and the contained one. `ContainerTypeCorrect` needs no assumption on the
use.

**The list of callbacks** (`NotifierProofs`), for every number of callbacks and passes, assuming `~RemovesNew`
(the exception above shows why): `CallbacksTypeCorrect`, `ListStaysRight`, `NoneCalledTwice`, `NobodyLeftOut`. The
inductive invariant says that tokens are unique and grow, that in a delivery the first
`count` entries are exactly those of the package that are still there, that what was called lies
before the index, and that only entries the loop has still to come to hold changes to be told.
The report of an error has an invariant of its own (`ErrorInv`): unless a callback was removed before
the lock was taken, the first `count` entries are, as in a delivery, those of the callbacks that were
there when the size was read and still are, so that the loop ends within the list.

**Notifications** (`NotifierProofs`), for every number of Realms, notifiers and versions: `TypeCorrect`,
`WorkerAlwaysHolds`, `DeliveriesFit`, `ExactInvariance`, `ToldExactly`. Nothing is held, skipped to or delivered that is to come; while the
worker runs notifiers they stay in its list, and a version to skip that is recorded meanwhile is
none it passed, because the Realm that records it holds the write lock; who waits to write waits for the
version that stays the latest.

`ExactInvariance` and `ToldExactly` say, for the same constants, that the changes of every callback
add up. The invariant `Exact` follows a change from the commit to the call:

- `WorkerFits`, `NoteFits`: notifiers that have run are handed over at one version, none ahead of
  the worker, and one that has not run has nothing computed and nothing told.
- `RunFits`: the rows a notifier remembers are as they were at the version it was handed over at,
  and `calc` is what happened since. A pass that finds no change leaves the old rows in place, so
  this has to be said through "nothing happened in between", not through equal versions.
- `FlightFits`, in a package: `out` is what happened from the last call to the version of the
  package, `acc` what happened from there to the notifier's version.
- `SettledFits`, in no package: `acc` is what happened since the last call. The Realm may be ahead
  by a write of its own, and that is why nothing is told twice: by `WriteFits` a write begins
  at the latest version, with everything told and nothing accumulated.
- `ListFits`: a notifier is in the package of its own Realm only, and only when it has run if it has
  a callback.

`Exact` is inductive together with the versions everyone holds (`IndInv`). It was checked by TLC
before it was proved, on the instance of `MCNotifications` and on one with two notifiers and two callbacks
(7,442,276 states). `ToldExactly` reads `NotifiedExactly` off `FlightFits` at the moment of the call.

**The sync session** (`SyncProofs`), for every stop policy and every number of threads, handlers, sessions
and commits: `Invariance`, `TypeCorrect`, `SessionIsSafe`, `DeathIsUploaded`. The invariant has four parts: nothing
refers to a session to come; what a thread still has to do is a sequence of items that name
sessions made, of which only the next may carry handlers to call; a session, referred to or not, has
for its present death the upload wait of the version it began to die at, and waits of earlier deaths
that an answer tells from it; a completion handler is in one place (queued,
given to the `sync::Session`, about to be called by one thread, owed, or called). The last
is why nobody is called twice: every step takes a handler out of the place it puts it from.

**Sync files** (`SyncProofs`), for every set of users, directories, tokens and names and any number of
crashes and failures: `FilesTypeCorrect`, `FilesStayOwned`, `NothingIsLost`, `LaunchesRestore`. The
invariant says what holds between the two transactions of a log in, that the launch
removes marked users only, that those done have no directory, and that a user
who should come back has a row with a token. A reset of the metadata keeps it, as nobody is in
memory then: every user becomes one who should not come back, every directory one that may be
without a row.

**Index sets** (`IndexSetProofs`). Change sets are built from one data structure, and
the run `changes` checks its operations on the sets that come up. For every set of
ranges that do not touch (`Sets`) and every index, each operation does what it
promises:

- one set (`OperationsAgreeAlways`; the operations by themselves are `HasIsMember`, `AddAdds`,
  `InsertAtIndexInserts`, `ShiftForInsertAtShifts`, `EraseAtErases`, `RemoveRangeRemoves`, `ShiftShifts`,
  `AddShiftedAdds`, `EraseOrUnshiftUnshifts`). The code edits ranges in place; each proof says which
  ranges the edited sequence has, that they do not touch, and that their indexes are the
  promised ones. `Find` counts the ranges before an index: that they lie before all the
  others is the order of the ranges (`WellFormed`), from which everything else follows. The
  chunks the code keeps the ranges in, the search over them (`index_set.cpp:323-344`) and
  what `push_back` does when one is full (`:219-252`) are not modelled, so nothing is said of them.
- two sets (`SetOperationsAgreeAlways`; `AddAllAdds`, `RemoveSetRemoves`, `InsertAtSetInserts`, `ShiftForInsertAtSetShifts`,
  `EraseAtSetErases`, `AddShiftedByAdds`). These are loops that hand indexes to a builder. The invariant
  of each says which part of the answer was handed over after so many indexes, that it
  is in order, and how many of the other set's positions were passed; the builder's is
  that what it was handed is what its ranges hold.

The loops are folds. `FoldTheorems` proves once, from the well-foundedness of the natural
numbers, that a fold keeps an invariant that its steps keep (the lemma `FoldInvariant`: a family of
sets, one for each number of steps); a proof about a loop instantiates it with the loop's step.
The lemma `RecursionDefines` says in the same way that a recursion on smaller arguments defines a function.
That is as far as induction goes here: the library's own rules take an operator as a parameter,
which the installed provers cannot instantiate, while a set can be given.

**Change sets** (`TrackingProofs`), for every kind of collection, every size and every number of
operations and transactions: `TrackingKeepsBuilders`, `SetsStaySound`. The second says that the sets
that are reached are among those the theorems above are about, so all of them apply. Its
invariant (`TrackingInv`): the record of the present transaction and the accumulated changes
are `Builders`, three sets of ranges that do not touch, moves between indexes, and a finite
mapping; rows shown are rows; and n operations have given out n identities at most.

- Recording (one lemma per method of `CollectionChangeBuilder`), the end of a log and `merge` keep
  builders: each set is the result of set operations, the moves are folded one by one.
- Comparing two results (`CalculateKeeps`). A row is in the new result once (`QueryFacts`: the query
  sorts by a total order), so the rows of both results have different places in the old one
  (`BothRowsFacts`) and can be put in its order, as `calculate_moves_sorted` does
  (`InOldOrderFacts`).
- The longest matches. `LongestMatchFacts` is what the code asserts in the inner loop: the
  best match lies within the parts that are compared. Then the parts to the left and right of it are
  smaller (`PartsAreSmaller`), the recursion of `find_longest_matches` ends, and all it finds
  lies within the rows (`SearchStays`), where `AlignStep` reads them.

**Observed rows** (`TrackingProofs`), for any bounds, rows watched and links: `TypeCorrect`. Rows stay
distinct because an identity that no row has had is left for every operation (`RowsFit` bounds the
identities by the operations so far); lists stay within their bounds (`LinksFit`); and the encoder's
selections fit (`LogFits`): a list is selected only while its table is, which is what the
log's readers rely on when they take a list instruction for the table selected last.

Only model-checked:

- Liveness, and with it the other half of `ImplementsFeed` and `HandlerCalledOnce`: the prover
  reaches neither fairness nor ENABLED.
- `ToldIsTrue` and `ModificationsAreTold` of the change sets. That they are true of a single merge is a
  statement about moves and rows of three versions at once; the operations on
  sets it is made of are proved, their combination is not.
- `AdvanceToldTrue` and `RollbackToldTrue` of the observed rows: what a log of any length
  does to the observer that reads it, instruction by instruction, against what the
  operations did that wrote it, with the exceptions of section 4.

## 6. Not modelled

- Most lines of `Pods/Realm` are declarations, templates and inline helpers in
  `include/core` (arrays, columns, queries, table views, sockets) over a database that
  is linked as a binary: what a call of them does is not in the repository. They hold no
  control of their own that a definition could be translated from, apart from the transaction
  log; the share of lines that the map covers stays low for that reason.
- Schema: `object_store.cpp` and `schema.cpp` compare and apply sequentially, on data
  whose smallest interesting instance is a whole schema. Read with care, these places
  deserve a test: the column that `rename_property` leaves behind in an object schema
  against `RLMMigration.h:120-121`; an index that is added before a property is made
  nullable, which makes its column again; the cached schema that
  `advance_schema_cache` asserts about; the unfinished `reset_file`.
- In the transaction log: values and their encoding (an added value is undone by
  its negative, which the smallest integer does not have), logs of more than eight
  versions, subtables, links across tables, `merge_rows`.
- In sessions: connection state and progress callbacks, the management and
  permission sessions, admin tokens. In notifications: Realms that are closed or
  frozen, several collections in a package beyond their versions.
- In Alamofire: uploads, downloads, streams, authentication, redirects, caching.
- In MJSwiftCore: whatever the app does not use, see section 1. In futures,
  re-entrant calls from a future's own closure, chained futures and `set(observable)`.
- In the app: texts, layout, colours, and the decoding of an item beyond whether it
  succeeds. Nothing is said of which of two overlapping loads should win, nor of the order
  of items: the code takes the last to end and the order of arrival.

## 7. Plan

The modules are written to be proved about: constants with named assumptions, one
action per operation, invariants as conjunctions. What is left, most valuable first:

1. `ToldIsTrue` and `ModificationsAreTold` of a single `merge`, from the theorems on index sets; then
   of any number of them.
2. The library parts the app does not use, once it does: the observable hub first.
