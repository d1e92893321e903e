---------------------------- MODULE CallbackList ----------------------------
(***************************************************************************)
(* The callbacks of one collection and the loop that calls them            *)
(* (ObjectStore/src/impl/collection_notifier.cpp).  A callback is called   *)
(* with m_callback_mutex released: it may add and remove callbacks of its  *)
(* own collection, and tokens may be released on other threads meanwhile.  *)
(* The list, the loop index and the count are adjusted behind the loop's   *)
(* back.  A change set is the set of the worker's passes it accounts for.  *)
(***************************************************************************)
EXTENDS Integers, Sequences, FiniteSets

CONSTANTS MaxTokens, \* bound: callbacks ever added
          MaxPasses,    \* bound: passes of the worker that found changes
          Errors,       \* whether the worker may fail to open the file
          RemovesNew    \* whether a callback added between the packaging and the end
                        \* of a delivery may be removed again before that end

ASSUME CallbackListAssumption ==
    /\ MaxTokens \in Nat /\ MaxPasses \in Nat /\ Errors \in BOOLEAN /\ RemovesNew \in BOOLEAN

VARIABLES list,    \* m_callbacks
          next,    \* m_next_token: number of callbacks added so far
          index,   \* m_callback_index; size_t wraps, so npos is -1
          count,   \* m_callback_count; a negative number is a huge one
          have,    \* m_have_callbacks
          phase,   \* what the Realm's thread is doing
          running, \* the callback it is in, 0 for none
          size,    \* what deliver_error read as the size of the list
          passes,  \* worker passes so far
          outside, \* the loop read past the end of the list
          gone,    \* history: a callback was removed after deliver_error read the size
          packaged, called, due \* history: the callbacks of the package; those called in
                                \* this loop; per callback, the changes it was not told of

callbacksVars == <<list, next, index, count, have, phase, running, size, passes, outside, gone,
                   packaged, called, due>>

NPos == -1
Tokens == 1..MaxTokens
Passes == 1..MaxPasses
Loops == {"before", "after", "error"}

Present == {list[i].token : i \in 1..Len(list)}
Position(t) == CHOOSE i \in 1..Len(list) : list[i].token = t

\* In a loop the mutex is free only while a callback runs.
Unlocked == phase \in Loops => running # 0

\* The thread is in code of the application: idle, in a callback of this collection, or
\* (packaged, advanced) in one of another collection of the same package.
InUserCode == IF phase \in Loops THEN running # 0 ELSE phase # "reading"

Callback == [token : Tokens, acc : SUBSET Passes, out : SUBSET Passes, told : BOOLEAN]

\* The type of m_callbacks and of the loop over it.  The index is npos outside of a loop; in
\* one it never passes the end of the list, which it may reach, and while a callback runs it
\* lies before the end, or at npos when those up to the one that runs were removed.
CallbacksTypeOK ==
    /\ Len(list) <= MaxTokens /\ \A i \in 1..Len(list) : list[i] \in Callback
    /\ next \in 0..MaxTokens /\ index \in NPos..Len(list) /\ count \in Int
    /\ running # 0 => index < Len(list)
    /\ phase \notin Loops => index = NPos /\ running = 0
    /\ have \in BOOLEAN /\ phase \in {"idle", "packaged", "advanced", "reading"} \cup Loops
    /\ running \in 0..MaxTokens /\ size \in 0..MaxTokens /\ passes \in 0..MaxPasses
    /\ {outside, gone} \subseteq BOOLEAN /\ packaged \subseteq Tokens /\ called \subseteq Tokens
    /\ due \in [Tokens -> SUBSET Passes]

CallbacksInit ==
    /\ list = <<>> /\ next = 0 /\ index = NPos /\ count = NPos /\ have = FALSE
    /\ phase = "idle" /\ running = 0 /\ size = 0 /\ passes = 0 /\ outside = FALSE /\ gone = FALSE
    /\ packaged = {} /\ called = {} /\ due = [t \in Tokens |-> {}]

-----------------------------------------------------------------------------
AddToken ==
    /\ InUserCode /\ next < MaxTokens
    /\ next' = next + 1
    /\ list' = Append(list, [token |-> next + 1, acc |-> {}, out |-> {}, told |-> FALSE])
    /\ have' = IF index = NPos THEN TRUE ELSE have
    /\ UNCHANGED <<index, count, phase, running, size, passes, outside, gone, packaged, called, due>>

\* The list, the index and the count after the callback at position i is removed
Without(i) == [j \in 1..(Len(list) - 1) |-> IF j < i THEN list[j] ELSE list[j + 1]]

\* Mutant: the index is adjusted outside of a loop too
IndexWithoutAlways(i) == IF index >= i - 1 \/ index = NPos THEN index - 1 ELSE index

\* Mutant: the index is adjusted for callbacks after the present one too
IndexWithoutEager(i) == IF index # NPos THEN index - 1 ELSE index

IndexWithout(i) == IF index # NPos /\ index >= i - 1 THEN index - 1 ELSE index

CountWithout(i) == count - 1

\* remove_callback, which the application calls on any thread.
RemoveToken(t) ==
    /\ t \in Present /\ Unlocked
    /\ RemovesNew \/ phase = "idle" \/ t \in packaged
    /\ list' = Without(Position(t))
    /\ index' = IndexWithout(Position(t)) /\ count' = CountWithout(Position(t))
    /\ have' = (list' # <<>>) /\ gone' = (gone \/ phase = "reading")
    /\ UNCHANGED <<next, phase, running, size, passes, outside, packaged, called, due>>

\* add_changes, from the worker
AddChanges ==
    /\ Unlocked /\ passes < MaxPasses /\ passes' = passes + 1
    /\ list' = [i \in 1..Len(list) |-> [list[i] EXCEPT !.acc = @ \cup {passes + 1}]]
    /\ due' = [t \in Tokens |-> IF t \in Present THEN due[t] \cup {passes + 1} ELSE due[t]]
    /\ UNCHANGED <<next, index, count, have, phase, running, size, outside, gone, packaged, called>>

-----------------------------------------------------------------------------
(* Delivery, on the Realm's thread                                         *)

\* Mutant: the count of the last delivery stays
PackagedCountStale == IF count < 0 THEN Len(list) ELSE count

PackagedCount == Len(list)

PackageForDelivery ==
    /\ phase = "idle" /\ phase' = "packaged"
    /\ list' = [i \in 1..Len(list) |-> [list[i] EXCEPT !.out = list[i].acc, !.acc = {}]]
    /\ count' = PackagedCount /\ packaged' = Present
    /\ UNCHANGED <<next, index, have, running, size, passes, outside, gone, called, due>>

\* deliver_error reads the size of the list without the mutex...
ReadSize ==
    /\ Errors /\ phase = "idle" /\ phase' = "reading"
    /\ size' = Len(list) /\ packaged' = Present
    /\ UNCHANGED <<list, next, index, count, have, running, passes, outside, gone, called, due>>

\* ...and stores it likewise; then for_each_callback begins.
BeginErrors ==
    /\ phase = "reading" /\ phase' = "error"
    /\ count' = size /\ size' = 0 /\ index' = index + 1 /\ called' = {}
    /\ UNCHANGED <<list, next, have, running, passes, outside, gone, packaged, due>>

\* for_each_callback begins; process_available_async has no before_advance.
BeginLoop(kind) ==
    /\ \/ phase = "packaged" /\ kind \in {"before", "after"}
       \/ phase = "advanced" /\ kind = "after"
    /\ phase' = kind /\ index' = index + 1 /\ called' = {}
    /\ UNCHANGED <<list, next, count, have, running, size, passes, outside, gone, packaged, due>>

More == phase \in Loops /\ running = 0 /\ (count < 0 \/ index < count)

\* The callback at the index has something to be told in this loop.
Wanted(c) == CASE phase = "before" -> c.out # {}
               [] phase = "after"  -> ~c.told \/ c.out # {}
               [] OTHER            -> TRUE

SkipCallback ==
    /\ More /\ index < Len(list) /\ ~Wanted(list[index + 1])
    /\ index' = index + 1
    /\ UNCHANGED <<list, next, count, have, phase, running, size, passes, outside, gone, packaged, called, due>>

\* Mutant: the changes are copied out, not moved
TakenOutKept(c) == [c EXCEPT !.told = TRUE]

TakenOut(c) == [c EXCEPT !.told = TRUE, !.out = {}]

CallCallback ==
    /\ More /\ index < Len(list)
    /\ LET c == list[index + 1] IN
       /\ Wanted(c)
       /\ running' = c.token /\ called' = called \cup {c.token}
       /\ IF phase = "after"
          THEN /\ list' = [list EXCEPT ![index + 1] = TakenOut(c)]
               /\ due' = [due EXCEPT ![c.token] = @ \ c.out]
          ELSE UNCHANGED <<list, due>>
    /\ UNCHANGED <<next, index, count, have, phase, size, passes, outside, gone, packaged>>

\* The loop reads m_callbacks[m_callback_index] beyond the end: undefined behaviour.
ReadOutside ==
    /\ More /\ index >= Len(list) /\ outside' = TRUE
    /\ UNCHANGED <<list, next, index, count, have, phase, running, size, passes, gone, packaged, called, due>>

\* The callback returns.  After an error it is removed, unless it removed itself.
Return ==
    /\ phase \in Loops /\ running # 0 /\ running' = 0
    /\ IF phase = "error" /\ running \in Present
       THEN LET i == Position(running) IN
            /\ list' = Without(i) /\ index' = IndexWithout(i) + 1 /\ count' = CountWithout(i)
            /\ have' = (list' # <<>>)
       ELSE index' = index + 1 /\ UNCHANGED <<list, count, have>>
    /\ UNCHANGED <<next, phase, size, passes, outside, gone, packaged, called, due>>

EndLoop ==
    /\ phase \in Loops /\ running = 0 /\ ~More
    /\ index' = NPos /\ gone' = FALSE /\ phase' = IF phase = "before" THEN "advanced" ELSE "idle"
    /\ packaged' = IF phase = "before" THEN packaged ELSE {}
    /\ UNCHANGED <<list, next, count, have, running, size, passes, outside, called, due>>

CallbacksNext ==
    /\ ~outside
    /\ \/ AddToken \/ AddChanges \/ PackageForDelivery \/ ReadSize \/ BeginErrors
       \/ SkipCallback \/ CallCallback \/ ReadOutside \/ Return \/ EndLoop
       \/ \E t \in Tokens : RemoveToken(t)
       \/ \E kind \in {"before", "after"} : BeginLoop(kind)

CallbacksSpec == CallbacksInit /\ [][CallbacksNext]_callbacksVars

-----------------------------------------------------------------------------
(* Properties                                                              *)

\* The flag the worker reads instead of the list is right whenever the list is
\* unlocked, although add_callback does not set it during a delivery.
HaveIsRight == have = (list # <<>>)

\* No callback is called twice in a loop, and in a delivery none that was added after
\* the packaging, wherever in the list callbacks are removed while the loop runs.
CalledOnce ==
    [][\A t \in Tokens : (CallCallback /\ running' = t)
                          => t \notin called /\ (phase # "error" => t \in packaged)]_callbacksVars

\* When a delivery ends, every callback of its package that is still there and had
\* something to be told has been told.
EveryoneCalled ==
    [][(EndLoop /\ phase = "after") =>
         \A i \in 1..Len(list) : list[i].token \in packaged => list[i].told /\ list[i].out = {}]_callbacksVars

\* What a callback is told, and has yet to be told, is what the worker found since it
\* was last told: removals and additions around it never make changes vanish.
NothingLost == \A i \in 1..Len(list) : due[list[i].token] = list[i].acc \cup list[i].out

\* The loop reads past the end of the list in one case only: after an error, when a callback
\* was removed between deliver_error's look at the size and its lock.  No other removal or
\* addition, during a loop or between the packaging and a loop, takes it there.
ReadsInside == outside => phase = "error" /\ gone

\* The three together: what the worker is told of the list, what the list is told, and what
\* is read of it.
ListIsRight == HaveIsRight /\ NothingLost /\ ReadsInside

=============================================================================
